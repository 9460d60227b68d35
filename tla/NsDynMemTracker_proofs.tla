----------------------- MODULE NsDynMemTracker_proofs -----------------------
(***************************************************************************)
(* Theorems about NsDynMemTracker: what the two tables record survives     *)
(* every sequence of calls, for any number of blocks and callers, any      *)
(* sizes, tables that grow or not, and searches that start anywhere.       *)
(*                                                                         *)
(* The lemmas are about two tables t and x, the last index k used in t and *)
(* the blocks in use h, whatever state they belong to: an allocation grows *)
(* a table and then writes into it, in one step.                           *)
(***************************************************************************)
EXTENDS NsDynMemTracker, SequenceLemmas

-----------------------------------------------------------------------------
(* Counters that wrap *)

\* A multiple of n below n in absolute value is 0.
LEMMA SmallMultiple ==
    ASSUME NEW n \in Nat \ {0}, NEW d \in Int, -n < n * d, n * d < n
    PROVE  d = 0
<1>1. CASE d >= 1
  <2>1. n * d >= n * 1
    BY <1>1
  <2> QED BY <2>1
<1>2. CASE d <= -1
  <2>1. n * (-d) >= n * 1
    BY <1>2
  <2>2. n * (-d) = -(n * d)
    OBVIOUS
  <2> QED BY <2>1, <2>2
<1> QED BY <1>1, <1>2

\* Wrapping early or late makes no difference.
LEMMA Wraps ==
    ASSUME NEW a \in Int, NEW s \in Int
    PROVE  /\ ((a % UInt32) + s) % UInt32 = (a + s) % UInt32
           /\ a % UInt32 \in UInt32Value
<1> DEFINE n == UInt32
           q1 == a \div n          r1 == a % n
           q2 == (r1 + s) \div n   r2 == (r1 + s) % n
           q3 == (a + s) \div n    r3 == (a + s) % n
<1>1. n \in Nat \ {0}
  BY CountsAssumption
<1>2. \A i \in Int : /\ i = n * (i \div n) + (i % n) /\ i \div n \in Int
                     /\ i % n \in 0..(n - 1)
  BY <1>1
<1>3. a = n * q1 + r1 /\ q1 \in Int /\ r1 \in 0..(n - 1)
  BY <1>2
<1>4. r1 + s = n * q2 + r2 /\ q2 \in Int /\ r2 \in 0..(n - 1)
  BY <1>2, <1>3
<1>5. a + s = n * q3 + r3 /\ q3 \in Int /\ r3 \in 0..(n - 1)
  BY <1>2
<1> HIDE DEF n, q1, r1, q2, r2, q3, r3
<1>6. n * (q3 - q1 - q2) = n * q3 - n * q1 - n * q2
  BY <1>1, <1>3, <1>4, <1>5
<1>7. n * (q3 - q1 - q2) = r2 - r3
  BY <1>1, <1>3, <1>4, <1>5, <1>6
<1>8. -n < r2 - r3 /\ r2 - r3 < n
  BY <1>1, <1>4, <1>5
<1>9. q3 - q1 - q2 = 0
  BY <1>1, <1>3, <1>4, <1>5, <1>7, <1>8, SmallMultiple
<1>10. r2 = r3
  BY <1>1, <1>4, <1>5, <1>7, <1>9
<1> QED BY <1>3, <1>10 DEF UInt32Value, n, r1, r2, r3

\* Values of the type are numbers.
LEMMA Unsigned == \A v \in UInt32Value : v \in Nat /\ v \in Int /\ 0 <= v
BY CountsAssumption DEF UInt32Value

\* A value of the type does not wrap.
LEMMA NoWrap ==
    ASSUME NEW a \in UInt32Value
    PROVE  a % UInt32 = a
BY CountsAssumption DEF UInt32Value


-----------------------------------------------------------------------------
(* Tables and searches *)

\* The indices of a table.
LEMMA TableDomain ==
    ASSUME NEW t, NEW max \in Nat, NEW E, IsTable(t, max, E)
    PROVE  \E n \in 0..max :
              /\ DOMAIN t = 0..(n - 1) /\ t \in [0..(n - 1) -> E]
              /\ IsFiniteSet(DOMAIN t) /\ Cardinality(DOMAIN t) = n
              /\ n = 0 <=> t = NoTable
<1>1. PICK n \in 0..max : t \in [0..(n - 1) -> E]
  BY DEF IsTable
<1>2. DOMAIN t = 0..(n - 1)
  BY <1>1
<1>3. IsFiniteSet(0..(n - 1)) /\ Cardinality(0..(n - 1)) = n
  BY FS_Interval
<1>4. n = 0 => t = NoTable
  <2> SUFFICES ASSUME n = 0 PROVE t = NoTable
    OBVIOUS
  <2>1. DOMAIN t = {} /\ t = [i \in DOMAIN t |-> t[i]]
    BY <1>1, <1>2
  <2>2. DOMAIN NoTable = {} /\ NoTable = [i \in DOMAIN NoTable |-> NoTable[i]]
    BY DEF NoTable
  <2> QED BY <2>1, <2>2
<1>5. n # 0 => t # NoTable
  <2> SUFFICES ASSUME n # 0 PROVE t # NoTable
    OBVIOUS
  <2>1. 0 \in DOMAIN t
    BY <1>2
  <2>2. DOMAIN NoTable = {}
    BY DEF NoTable
  <2> QED BY <2>1, <2>2
<1> QED BY <1>1, <1>2, <1>3, <1>4, <1>5

\* No table is a table without entries.
LEMMA NoTableTyped ==
    ASSUME NEW max \in Nat, NEW E
    PROVE  IsTable(NoTable, max, E) /\ DOMAIN NoTable = {}
<1>1. DOMAIN NoTable = {} /\ NoTable = [i \in DOMAIN NoTable |-> NoTable[i]]
  BY DEF NoTable
<1>2. 0..(0 - 1) = {}
  OBVIOUS
<1>3. NoTable \in [0..(0 - 1) -> E]
  BY <1>1, <1>2
<1>4. 0 \in 0..max
  OBVIOUS
<1> QED BY <1>1, <1>3, <1>4 DEF IsTable

\* t2 is t with empty entries behind those of t.
Longer(t, t2, empty) ==
    /\ DOMAIN t \subseteq DOMAIN t2
    /\ \A i \in DOMAIN t : t2[i] = t[i]
    /\ \A i \in DOMAIN t2 \ DOMAIN t : t2[i] = empty

\* What the application returns for a table is NULL or a longer one.
LEMMA GrownTable ==
    ASSUME NEW t, NEW max \in Nat, NEW E, NEW empty \in E, IsTable(t, max, E),
           NEW t2 \in Grown(t, max, empty)
    PROVE  /\ IsTable(t2, max, E)
           /\ t2 # NoTable \/ t = NoTable => Longer(t, t2, empty)
<1>1. PICK n \in 0..max :
          /\ DOMAIN t = 0..(n - 1) /\ t \in [0..(n - 1) -> E]
          /\ Cardinality(DOMAIN t) = n
          /\ n = 0 <=> t = NoTable
  BY TableDomain
<1>2. CASE t2 = NoTable
  BY <1>2, NoTableTyped DEF Longer
<1>3. CASE t2 # NoTable
  <2>1. PICK m \in n..max :
           t2 = [i \in 0..(m - 1) |-> IF i < n THEN t[i] ELSE empty]
    BY <1>1, <1>3 DEF Grown
  <2>2. m \in 0..max /\ n <= m
    OBVIOUS
  <2>3. \A i \in 0..(m - 1) : i < n => i \in 0..(n - 1)
    OBVIOUS
  <2>4. t2 \in [0..(m - 1) -> E]
    BY <1>1, <2>1, <2>3
  <2>5. DOMAIN t \subseteq DOMAIN t2 /\ DOMAIN t2 = 0..(m - 1)
    BY <1>1, <2>1, <2>2
  <2>6. \A i \in DOMAIN t2 : t2[i] = IF i < n THEN t[i] ELSE empty
    BY <2>1
  <2>7. \A i \in DOMAIN t : i \in DOMAIN t2 /\ i < n
    BY <1>1, <2>5
  <2>8. \A i \in DOMAIN t2 \ DOMAIN t : ~(i < n)
    BY <1>1, <2>3, <2>5
  <2>9. Longer(t, t2, empty)
    BY <2>5, <2>6, <2>7, <2>8 DEF Longer
  <2> QED BY <2>2, <2>4, <2>9 DEF IsTable
<1> QED BY <1>2, <1>3

\* The same of a table that is made when there is none.
LEMMA MadeTable ==
    ASSUME NEW t, NEW max \in Nat, NEW E, NEW empty \in E, IsTable(t, max, E),
           NEW t2 \in Made(t, max, empty)
    PROVE  IsTable(t2, max, E) /\ Longer(t, t2, empty)
<1>1. CASE t = NoTable
  BY <1>1, GrownTable DEF Made
<1>2. CASE t # NoTable
  BY <1>2 DEF Made, Longer
<1> QED BY <1>1, <1>2

\* A search finds a match when there is one.
LEMMA ScanFinds ==
    ASSUME NEW match, match \subseteq Nat, NEW start
    PROVE  /\ match = {} => ScanFrom(match, start) = -1
           /\ match # {} => ScanFrom(match, start) \in match
           /\ ScanFrom(match, start) >= 0 <=> match # {}
           /\ ScanFrom(match, start) < 0 <=> match = {}
           /\ ScanFrom(match, start) \in Int
<1> DEFINE up == {i \in match : i >= start}
<1>1. up \subseteq Nat /\ up \subseteq match
  OBVIOUS
<1>2. up # {} => Min(up) \in up
  BY <1>1, MinIsLeast
<1>3. match # {} => Min(match) \in match
  BY MinIsLeast
<1>4. match # {} => ScanFrom(match, start) \in match
  BY <1>1, <1>2, <1>3 DEF ScanFrom
<1>5. match = {} => ScanFrom(match, start) = -1
  BY DEF ScanFrom
<1> DEFINE found == ScanFrom(match, start)
<1>6. match # {} => found \in match /\ found \in Nat
  BY <1>4
<1>7. match = {} => found = -1
  BY <1>5
<1> HIDE DEF up, found
<1>8. /\ found >= 0 <=> match # {}
      /\ found < 0 <=> match = {}
      /\ found \in Int
  BY <1>6, <1>7
<1> QED BY <1>6, <1>7, <1>8 DEF found


-----------------------------------------------------------------------------
(* The blocks in use *)

Held(h) == DOMAIN h \subseteq Block /\ \A b \in DOMAIN h : h[b] \in Holding

Tracking(h) == {b \in DOMAIN h : h[b].tracked}
Owned(h, c) == {b \in Tracking(h) : h[b].caller_addr = c}
Weight(h, S) == SumFunctionOnSet([b \in DOMAIN h |-> h[b].size], S)

CountOf(h, c) == Cardinality(Owned(h, c))
BytesOf(h, c) == Weight(h, Owned(h, c))
AllBytes(h) == Weight(h, Tracking(h))

\* h2 is h and block b, held as r says.
OneMore(h, h2, b, r) ==
    /\ DOMAIN h2 = DOMAIN h \cup {b} /\ b \notin DOMAIN h
    /\ h2[b] = r
    /\ \A y \in DOMAIN h : h2[y] = h[y]

\* h2 has the blocks of h and perhaps others that are not tracked.
SameTracked(h, h2) ==
    /\ Tracking(h2) = Tracking(h)
    /\ \A b \in Tracking(h) : /\ h2[b].caller_addr = h[b].caller_addr
                              /\ h2[b].size = h[b].size

\* Sizes are numbers.
LEMMA SizesTyped ==
    ASSUME NEW h, Held(h)
    PROVE  \A b \in DOMAIN h : h[b].size \in Sizes /\ h[b].size \in UInt32Value /\ h[b].size \in Int
<1>1. \A b \in DOMAIN h : h[b].size \in Sizes
  BY DEF Held, Holding
<1>2. \A n \in Sizes : n \in UInt32Value /\ n \in Int
  BY WidthAssumption, CountsAssumption DEF UInt32Value
<1> QED BY <1>1, <1>2

\* Counts fit in a uint32_t, and sums are integers.
LEMMA CountsTyped ==
    ASSUME NEW h, Held(h)
    PROVE  /\ IsFiniteSet(DOMAIN h) /\ IsFiniteSet(Tracking(h))
           /\ AllBytes(h) \in Int
           /\ \A c : /\ IsFiniteSet(Owned(h, c))
                     /\ CountOf(h, c) \in UInt32Value
                     /\ BytesOf(h, c) \in Int
<1>1. IsFiniteSet(DOMAIN h)
  BY FS_Subset, WidthAssumption DEF Held
<1>2. Tracking(h) \subseteq DOMAIN h /\ \A c : Owned(h, c) \subseteq DOMAIN h
  BY DEF Tracking, Owned
<1>3. \A S \in SUBSET DOMAIN h : /\ IsFiniteSet(S) /\ Cardinality(S) \in Nat
                                 /\ Cardinality(S) <= Cardinality(DOMAIN h)
  BY <1>1, FS_Subset, FS_CardinalityType
<1>4. Cardinality(DOMAIN h) <= Cardinality(Block) /\ Cardinality(DOMAIN h) \in Nat
      /\ Cardinality(Block) \in Nat
  BY <1>1, FS_Subset, FS_CardinalityType, WidthAssumption DEF Held
<1>5. \A S \in SUBSET DOMAIN h : Cardinality(S) \in UInt32Value
  BY <1>3, <1>4, WidthAssumption, CountsAssumption DEF UInt32Value
<1>6. ASSUME NEW S \in SUBSET DOMAIN h PROVE Weight(h, S) \in Int
  <2> DEFINE w == [b \in DOMAIN h |-> h[b].size]
  <2>1. \A b \in S : w[b] \in Int
    BY SizesTyped
  <2>2. AgreeOn(w, w, S)
    BY DEF AgreeOn
  <2> HIDE DEF w
  <2>3. SumFunctionOnSet(w, S) \in Int
    BY <1>3, <2>1, <2>2, SumAgrees
  <2> QED BY <2>3 DEF Weight, w
<1> QED BY <1>1, <1>2, <1>3, <1>5, <1>6 DEF AllBytes, BytesOf, CountOf

\* Sums depend on the blocks' sizes only.
LEMMA WeightAgrees ==
    ASSUME NEW h, NEW h2, NEW S, IsFiniteSet(S), S \subseteq DOMAIN h,
           S \subseteq DOMAIN h2, \A b \in S : h2[b].size = h[b].size
    PROVE  Weight(h2, S) = Weight(h, S)
<1> DEFINE w == [b \in DOMAIN h |-> h[b].size]
           v == [b \in DOMAIN h2 |-> h2[b].size]
<1>1. AgreeOn(w, v, S)
  BY DEF AgreeOn
<1> HIDE DEF w, v
<1>2. SumFunctionOnSet(w, S) = SumFunctionOnSet(v, S)
  BY <1>1, SumAgrees
<1> QED BY <1>2 DEF Weight, w, v

\* Blocks that are not tracked change neither counts nor sums.
LEMMA SameCounts ==
    ASSUME NEW h, NEW h2, Held(h), SameTracked(h, h2)
    PROVE  /\ AllBytes(h2) = AllBytes(h)
           /\ \A c : /\ Owned(h2, c) = Owned(h, c)
                     /\ CountOf(h2, c) = CountOf(h, c)
                     /\ BytesOf(h2, c) = BytesOf(h, c)
<1>1. \A c : Owned(h2, c) = Owned(h, c)
  BY DEF SameTracked, Owned
<1>2. Tracking(h) \subseteq DOMAIN h /\ Tracking(h) \subseteq DOMAIN h2
  BY DEF SameTracked, Tracking
<1>3. \A c : Owned(h, c) \subseteq Tracking(h) /\ IsFiniteSet(Owned(h, c))
  BY CountsTyped DEF Owned
<1>4. IsFiniteSet(Tracking(h))
  BY CountsTyped
<1>5. AllBytes(h2) = AllBytes(h)
  BY <1>2, <1>4, WeightAgrees DEF AllBytes, SameTracked
<1>6. ASSUME NEW c PROVE BytesOf(h2, c) = BytesOf(h, c)
  <2>1. \A b \in Owned(h, c) : h2[b].size = h[b].size
    BY <1>3 DEF SameTracked
  <2>2. Weight(h2, Owned(h, c)) = Weight(h, Owned(h, c))
    BY <1>2, <1>3, <2>1, WeightAgrees
  <2> QED BY <1>1, <2>2 DEF BytesOf
<1> QED BY <1>1, <1>5, <1>6 DEF CountOf

\* What one tracked block more counts.
CountsMore(h, h2, b, r) ==
    /\ Tracking(h2) = Tracking(h) \cup {b} /\ b \notin Tracking(h)
    /\ AllBytes(h2) = AllBytes(h) + r.size
    /\ Owned(h2, r.caller_addr) = Owned(h, r.caller_addr) \cup {b}
    /\ CountOf(h2, r.caller_addr) = CountOf(h, r.caller_addr) + 1
    /\ BytesOf(h2, r.caller_addr) = BytesOf(h, r.caller_addr) + r.size
    /\ \A d : d # r.caller_addr => /\ Owned(h2, d) = Owned(h, d)
                                   /\ CountOf(h2, d) = CountOf(h, d)
                                   /\ BytesOf(h2, d) = BytesOf(h, d)

\* A block that is held besides others.
LEMMA HoldOne ==
    ASSUME NEW h, NEW h2, NEW b \in Block, NEW r \in Holding, Held(h),
           OneMore(h, h2, b, r)
    PROVE  /\ Held(h2)
           /\ ~r.tracked => SameTracked(h, h2)
           /\ r.tracked => CountsMore(h, h2, b, r)
<1>1. Held(h2)
  BY DEF Held, OneMore
<1>2. ~r.tracked => SameTracked(h, h2)
  BY DEF SameTracked, Tracking, OneMore
<1>3. ASSUME r.tracked PROVE CountsMore(h, h2, b, r)
  <2>1. Tracking(h2) = Tracking(h) \cup {b} /\ b \notin Tracking(h)
    BY <1>3 DEF Tracking, OneMore
  <2>2. Owned(h2, r.caller_addr) = Owned(h, r.caller_addr) \cup {b}
    BY <2>1 DEF Owned, OneMore, Tracking
  <2>3. \A d : d # r.caller_addr => Owned(h2, d) = Owned(h, d)
    BY <2>1 DEF Owned, OneMore, Tracking
  <2>4. \A d : Owned(h, d) \subseteq Tracking(h) /\ b \notin Owned(h, d)
    BY <2>1 DEF Owned
  <2>5. Tracking(h) \subseteq DOMAIN h /\ DOMAIN h \subseteq DOMAIN h2 /\ b \in DOMAIN h2
    BY DEF Tracking, OneMore
  <2>6. IsFiniteSet(Tracking(h)) /\ \A d : IsFiniteSet(Owned(h, d))
    BY CountsTyped
  <2>7. ASSUME NEW S \in SUBSET Tracking(h), IsFiniteSet(S)
        PROVE  Weight(h2, S) = Weight(h, S)
    BY <2>5, <2>7, WeightAgrees DEF OneMore
  <2>8. ASSUME NEW S \in SUBSET Tracking(h), IsFiniteSet(S)
        PROVE  Weight(h2, S \cup {b}) = Weight(h, S) + r.size
    <3> DEFINE w == [y \in DOMAIN h2 |-> h2[y].size]
    <3>1. \A y \in S \cup {b} : w[y] \in Int
      BY <1>1, <2>5, SizesTyped
    <3>2. w[b] = r.size
      BY <2>5 DEF OneMore
    <3> HIDE DEF w
    <3>3. SumFunctionOnSet(w, S \cup {b}) = w[b] + SumFunctionOnSet(w, S)
      BY <2>1, <2>8, <3>1, SumAdds
    <3>4. Weight(h2, S \cup {b}) = r.size + Weight(h2, S)
      BY <3>2, <3>3 DEF Weight, w
    <3>5. Weight(h2, S) = Weight(h, S)
      BY <2>7, <2>8
    <3>6. AgreeOn(w, w, S)
      BY DEF AgreeOn
    <3>7. SumFunctionOnSet(w, S) \in Int /\ w[b] \in Int
      BY <2>8, <3>1, <3>6, SumAgrees
    <3> QED BY <3>2, <3>4, <3>5, <3>7 DEF Weight, w
  <2>9. AllBytes(h2) = AllBytes(h) + r.size
    BY <2>1, <2>6, <2>8 DEF AllBytes
  <2>10. BytesOf(h2, r.caller_addr) = BytesOf(h, r.caller_addr) + r.size
    BY <2>2, <2>4, <2>6, <2>8 DEF BytesOf
  <2>11. CountOf(h2, r.caller_addr) = CountOf(h, r.caller_addr) + 1
    BY <2>2, <2>4, <2>6, FS_AddElement DEF CountOf
  <2>12. \A d : d # r.caller_addr => BytesOf(h2, d) = BytesOf(h, d)
    BY <2>3, <2>4, <2>6, <2>7 DEF BytesOf
  <2> QED BY <2>1, <2>2, <2>3, <2>9, <2>10, <2>11, <2>12 DEF CountsMore, CountOf
<1> QED BY <1>1, <1>2, <1>3


-----------------------------------------------------------------------------
(* What the tables say *)

MemTable(t) == IsTable(t, MemBlocksMax, MemBlock)
ExtTable(x) == IsTable(x, ExtBlocksMax, ExtBlock)

\* The records of a table are about tracked blocks, each once.
TrueRows(t, h) ==
    \A i \in DOMAIN t : t[i].block # Null =>
        /\ t[i].block \in Tracking(h)
        /\ h[t[i].block].caller_addr = t[i].caller_addr
        /\ h[t[i].block].size = t[i].size
OnceEach(t) ==
    \A i, j \in DOMAIN t : t[i].block = t[j].block => i = j \/ t[i].block = Null

\* The tables share no block and together have all of them.
NoneTwice(t, x) ==
    \A i \in DOMAIN t, j \in DOMAIN x : t[i].block = x[j].block => t[i].block = Null
AllThere(t, x, h) ==
    \A b \in Tracking(h) : \/ \E i \in DOMAIN t : t[i].block = b
                           \/ \E j \in DOMAIN x : x[j].block = b

Records(t, x, h) ==
    /\ TrueRows(t, h) /\ TrueRows(x, h)
    /\ OnceEach(t) /\ OnceEach(x)
    /\ NoneTwice(t, x)
    /\ AllThere(t, x, h)

\* Entries of t: one per caller, none behind k.
Entries(t, k) ==
    \A i \in DOMAIN t :
        /\ i > k => t[i].caller_addr = Null
        /\ t[i].caller_addr = Null => t[i].block = Null
        /\ \A j \in DOMAIN t :
               t[i].caller_addr = t[j].caller_addr => i = j \/ t[i].caller_addr = Null
Blank(x) == \A i \in DOMAIN x : x[i].caller_addr = Null => x[i].block = Null

HasEntry(t, h) ==
    \A b \in Tracking(h) : \E i \in DOMAIN t : t[i].caller_addr = h[b].caller_addr

Counts(t, h) ==
    \A i \in DOMAIN t : t[i].caller_addr # Null =>
        /\ t[i].ref_count = CountOf(h, t[i].caller_addr)
        /\ t[i].total_size = BytesOf(h, t[i].caller_addr) % UInt32

Youngest(t, h) ==
    \A i \in DOMAIN t : \A b \in Owned(h, t[i].caller_addr) :
        /\ t[i].lifetime <= h[b].age
        /\ t[i].permanent => h[b].age > to_permanent_steps_count

Ledger(t, x, a, h) ==
    /\ Records(t, x, h)
    /\ HasEntry(t, h)
    /\ Counts(t, h)
    /\ Youngest(t, h)
    /\ a = AllBytes(h) % UInt32

\* The callers of tracked blocks are callers.
LEMMA OwnersAreCallers ==
    ASSUME NEW h, Held(h)
    PROVE  /\ \A b \in Tracking(h) : /\ h[b].caller_addr \in Caller /\ h[b].caller_addr # Null
                                     /\ b \in Block /\ b # Null
           /\ Owned(h, Null) = {}
<1>1. \A b \in Tracking(h) : /\ h[b].caller_addr \in Caller /\ h[b].caller_addr # Null
                             /\ b \in Block /\ b # Null
  BY NullAssumption DEF Held, Holding, Tracking
<1> QED BY <1>1 DEF Owned

\* A longer table of entries says the same.
LEMMA LongerEntries ==
    ASSUME NEW t, NEW t2, NEW k, Entries(t, k), Longer(t, t2, EmptyMemBlock)
    PROVE  Entries(t2, k)
<1>1. EmptyMemBlock.caller_addr = Null /\ EmptyMemBlock.block = Null
  BY DEF EmptyMemBlock
<1> QED BY <1>1 DEF Entries, Longer

\* So does the ledger.
LEMMA LongerLedger ==
    ASSUME NEW t, NEW t2, NEW x, NEW a, NEW h, Held(h), Ledger(t, x, a, h),
           Longer(t, t2, EmptyMemBlock)
    PROVE  Ledger(t2, x, a, h)
<1>1. EmptyMemBlock.caller_addr = Null /\ EmptyMemBlock.block = Null
  BY DEF EmptyMemBlock
<1>2. TrueRows(t2, h) /\ OnceEach(t2) /\ NoneTwice(t2, x)
  BY <1>1 DEF Ledger, Records, Longer, TrueRows, OnceEach, NoneTwice
<1>3. AllThere(t2, x, h)
  BY DEF Ledger, Records, Longer, AllThere
<1>4. HasEntry(t2, h)
  BY DEF Ledger, Longer, HasEntry
<1>5. Counts(t2, h)
  BY <1>1 DEF Ledger, Longer, Counts
<1>6. Youngest(t2, h)
  BY <1>1, OwnersAreCallers DEF Ledger, Longer, Youngest
<1> QED BY <1>2, <1>3, <1>4, <1>5, <1>6 DEF Ledger, Records

\* And with a longer extended table.
LEMMA LongerExt ==
    ASSUME NEW t, NEW x, NEW x2, NEW a, NEW h, Longer(x, x2, EmptyExtBlock), Blank(x)
    PROVE  /\ Blank(x2)
           /\ Ledger(t, x, a, h) => Ledger(t, x2, a, h)
<1>1. EmptyExtBlock.caller_addr = Null /\ EmptyExtBlock.block = Null
  BY DEF EmptyExtBlock
<1>2. Blank(x2)
  BY <1>1 DEF Blank, Longer
<1>3. ASSUME Ledger(t, x, a, h) PROVE Ledger(t, x2, a, h)
  <2>1. TrueRows(x2, h) /\ OnceEach(x2) /\ NoneTwice(t, x2)
    BY <1>1, <1>3 DEF Ledger, Records, Longer, TrueRows, OnceEach, NoneTwice
  <2>2. AllThere(t, x2, h)
    BY <1>3 DEF Ledger, Records, Longer, AllThere
  <2> QED BY <1>3, <2>1, <2>2 DEF Ledger, Records
<1> QED BY <1>2, <1>3

\* t2 is t with e at i.
Puts(t, t2, i, e) ==
    /\ i \in DOMAIN t /\ DOMAIN t2 = DOMAIN t
    /\ t2[i] = e
    /\ \A j \in DOMAIN t : j # i => t2[j] = t[j]

\* A table is written.
LEMMA PutTable ==
    ASSUME NEW t, NEW max \in Nat, NEW E, IsTable(t, max, E), NEW i \in DOMAIN t, NEW e \in E
    PROVE  LET t2 == [t EXCEPT ![i] = e]
           IN  IsTable(t2, max, E) /\ Puts(t, t2, i, e) /\ DOMAIN t2 = DOMAIN t
<1>1. PICK n \in 0..max : t \in [0..(n - 1) -> E]
  BY DEF IsTable
<1> DEFINE t2 == [t EXCEPT ![i] = e]
<1>2. t2 \in [0..(n - 1) -> E]
  BY <1>1
<1>3. Puts(t, t2, i, e)
  BY DEF Puts
<1> QED BY <1>2, <1>3 DEF IsTable

\* What is in a table.
LEMMA RowsTyped ==
    ASSUME NEW t, NEW max \in Nat, NEW E, IsTable(t, max, E)
    PROVE  DOMAIN t \subseteq Nat /\ \A i \in DOMAIN t : t[i] \in E
<1>1. PICK n \in 0..max : t \in [0..(n - 1) -> E]
  BY DEF IsTable
<1> QED BY <1>1


-----------------------------------------------------------------------------
(* A block joins the ledger *)

\* Records stay true when another block is held.
LEMMA RowsStayTrue ==
    ASSUME NEW t, NEW h, NEW h2, NEW b, NEW r, TrueRows(t, h),
           OneMore(h, h2, b, r), CountsMore(h, h2, b, r)
    PROVE  /\ TrueRows(t, h2)
           /\ \A i \in DOMAIN t : t[i].block # Null => t[i].block # b
BY DEF TrueRows, OneMore, CountsMore, Tracking

\* A caller without an entry has no tracked blocks.
LEMMA NoEntryNoBlock ==
    ASSUME NEW t, NEW h, HasEntry(t, h), NEW c, \A i \in DOMAIN t : t[i].caller_addr # c
    PROVE  Owned(h, c) = {} /\ CountOf(h, c) = 0 /\ BytesOf(h, c) = 0
<1>1. Owned(h, c) = {}
  BY DEF HasEntry, Owned
<1> QED BY <1>1, FS_EmptySet, SumEmpty DEF CountOf, BytesOf, Weight

Tracked0(c, size) == [caller_addr |-> c, size |-> size, tracked |-> TRUE, age |-> 0]

\* The entry of a caller's first block.
FirstEntry(b, c, size) ==
    [block |-> b, caller_addr |-> c, size |-> size,
     total_size |-> size, lifetime |-> 0, ref_count |-> 1,
     permanent |-> FALSE, permanent_printed |-> FALSE]

\* The first block of a caller goes into a free entry.
LEMMA AddFirst ==
    ASSUME NEW t, NEW t2, NEW x, NEW a, NEW h, NEW h2, NEW c \in Caller,
           NEW b \in Block, NEW size \in Sizes, NEW i, Held(h),
           OneMore(h, h2, b, Tracked0(c, size)), Ledger(t, x, a, h),
           i \in DOMAIN t, t[i].caller_addr = Null, t[i].block = Null,
           \A j \in DOMAIN t : t[j].caller_addr # c,
           Puts(t, t2, i, FirstEntry(b, c, size))
    PROVE  Held(h2) /\ Ledger(t2, x, Plus(a, size), h2)
<1> DEFINE r == Tracked0(c, size)
           e == FirstEntry(b, c, size)
<1>1. r \in Holding /\ r.tracked /\ r.caller_addr = c /\ r.size = size /\ r.age = 0
  BY CountsAssumption DEF Holding, Tracked0
<1>2. /\ e.block = b /\ e.caller_addr = c /\ e.size = size /\ e.total_size = size
      /\ e.lifetime = 0 /\ e.ref_count = 1 /\ e.permanent = FALSE
  BY DEF FirstEntry
<1>3. b # Null /\ c # Null
  BY NullAssumption
<1> HIDE DEF r, e
<1>4. Held(h2) /\ CountsMore(h, h2, b, r) /\ OneMore(h, h2, b, r)
  BY <1>1, HoldOne DEF r
<1>5. TrueRows(t, h) /\ TrueRows(x, h) /\ HasEntry(t, h) /\ Counts(t, h) /\ Youngest(t, h)
  BY DEF Ledger, Records
<1>6. TrueRows(t, h2) /\ TrueRows(x, h2)
  BY <1>4, <1>5, RowsStayTrue
<1>7. /\ \A j \in DOMAIN t : t[j].block # Null => t[j].block # b
      /\ \A j \in DOMAIN x : x[j].block # Null => x[j].block # b
  BY <1>4, <1>5, RowsStayTrue
<1>8. h2[b] = r /\ b \in Tracking(h2) /\ \A y \in Tracking(h) : h2[y] = h[y]
  BY <1>1, <1>4 DEF OneMore, CountsMore, Tracking
<1>9. /\ DOMAIN t2 = DOMAIN t /\ t2[i] = e
      /\ \A j \in DOMAIN t : j # i => t2[j] = t[j]
  BY DEF Puts, e
<1>10. TrueRows(t2, h2)
  BY <1>1, <1>2, <1>6, <1>8, <1>9 DEF TrueRows
<1>11. OnceEach(t2) /\ NoneTwice(t2, x)
  BY <1>2, <1>3, <1>7, <1>9 DEF Ledger, Records, OnceEach, NoneTwice
<1>12. AllThere(t2, x, h2)
  <2> SUFFICES ASSUME NEW y \in Tracking(h2)
               PROVE  (\E j \in DOMAIN t2 : t2[j].block = y) \/ (\E j \in DOMAIN x : x[j].block = y)
    BY DEF AllThere
  <2>1. CASE y = b
    BY <1>2, <1>9, <2>1
  <2>2. CASE y # b
    <3>1. y \in Tracking(h) /\ y # Null
      BY <1>4, <2>2, OwnersAreCallers DEF CountsMore
    <3>2. (\E j \in DOMAIN t : t[j].block = y) \/ (\E j \in DOMAIN x : x[j].block = y)
      BY <3>1 DEF Ledger, Records, AllThere
    <3> QED BY <1>9, <3>1, <3>2
  <2> QED BY <2>1, <2>2
<1>13. HasEntry(t2, h2)
  <2> SUFFICES ASSUME NEW y \in Tracking(h2)
               PROVE  \E j \in DOMAIN t2 : t2[j].caller_addr = h2[y].caller_addr
    BY DEF HasEntry
  <2>1. CASE y = b
    BY <1>1, <1>2, <1>8, <1>9, <2>1
  <2>2. CASE y # b
    <3>1. y \in Tracking(h) /\ h[y].caller_addr # Null /\ h2[y] = h[y]
      BY <1>4, <1>8, <2>2, OwnersAreCallers DEF CountsMore
    <3>2. PICK j \in DOMAIN t : t[j].caller_addr = h[y].caller_addr
      BY <1>5, <3>1 DEF HasEntry
    <3> QED BY <1>9, <3>1, <3>2
  <2> QED BY <2>1, <2>2
<1>14. Owned(h, c) = {} /\ CountOf(h, c) = 0 /\ BytesOf(h, c) = 0
  BY <1>5, NoEntryNoBlock
<1>15. size \in UInt32Value /\ size \in Int
  BY WidthAssumption, CountsAssumption DEF UInt32Value
<1>16. Counts(t2, h2)
  <2>1. CountOf(h2, c) = 1 /\ BytesOf(h2, c) = size /\ size % UInt32 = size
    BY <1>1, <1>4, <1>14, <1>15, NoWrap DEF CountsMore
  <2>2. \A d : d # c => CountOf(h2, d) = CountOf(h, d) /\ BytesOf(h2, d) = BytesOf(h, d)
    BY <1>1, <1>4 DEF CountsMore
  <2> QED BY <1>2, <1>5, <1>9, <2>1, <2>2 DEF Counts
<1>17. Youngest(t2, h2)
  <2>1. Owned(h2, c) = {b} /\ \A d : d # c => Owned(h2, d) = Owned(h, d)
    BY <1>1, <1>4, <1>14 DEF CountsMore
  <2>2. \A d : \A y \in Owned(h, d) : h2[y] = h[y]
    BY <1>8 DEF Owned
  <2>3. \A y \in Owned(h2, c) : e.lifetime <= h2[y].age
    BY <1>1, <1>2, <1>8, <2>1
  <2>4. \A j \in DOMAIN t : j # i =>
            Owned(h2, t2[j].caller_addr) = Owned(h, t[j].caller_addr) /\ t2[j] = t[j]
    BY <1>9, <2>1
  <2> QED BY <1>2, <1>5, <1>9, <2>2, <2>3, <2>4 DEF Youngest
<1>18. Plus(a, size) = AllBytes(h2) % UInt32
  <2>1. a = AllBytes(h) % UInt32 /\ AllBytes(h) \in Int
    BY CountsTyped DEF Ledger
  <2> QED BY <1>1, <1>4, <1>15, <2>1, Wraps DEF Plus, CountsMore
<1> QED BY <1>4, <1>6, <1>10, <1>11, <1>12, <1>13, <1>16, <1>17, <1>18 DEF Ledger, Records


\* The record of a further block.
NextRecord(b, c, size) == [block |-> b, caller_addr |-> c, size |-> size]

\* A further block of the caller of entry i goes into a free record f.
LEMMA AddNext ==
    ASSUME NEW t, NEW t2, NEW x, NEW x2, NEW a, NEW h, NEW h2, NEW c \in Caller,
           NEW b \in Block, NEW size \in Sizes, NEW i, NEW f, NEW k, Held(h),
           OneMore(h, h2, b, Tracked0(c, size)), Ledger(t, x, a, h), Entries(t, k),
           MemTable(t), i \in DOMAIN t, t[i].caller_addr = c,
           f \in DOMAIN x, x[f].block = Null,
           Puts(x, x2, f, NextRecord(b, c, size)), Puts(t, t2, i, Again(t[i], size))
    PROVE  Held(h2) /\ Ledger(t2, x2, Plus(a, size), h2)
<1> DEFINE r == Tracked0(c, size)
           e == NextRecord(b, c, size)
           g == Again(t[i], size)
<1>1. r \in Holding /\ r.tracked /\ r.caller_addr = c /\ r.size = size /\ r.age = 0
  BY CountsAssumption DEF Holding, Tracked0
<1>2. e.block = b /\ e.caller_addr = c /\ e.size = size
  BY DEF NextRecord
<1>3. b # Null /\ c # Null
  BY NullAssumption
<1>4. t[i] \in MemBlock
  BY RowsTyped, CountsAssumption DEF MemTable
<1>5. /\ g.block = t[i].block /\ g.caller_addr = c /\ g.size = t[i].size
      /\ g.total_size = Plus(t[i].total_size, size) /\ g.ref_count = Plus(t[i].ref_count, 1)
      /\ g.lifetime = 0 /\ g.permanent = FALSE
  BY <1>4 DEF Again, MemBlock
<1> HIDE DEF r, e, g
<1>6. Held(h2) /\ CountsMore(h, h2, b, r) /\ OneMore(h, h2, b, r)
  BY <1>1, HoldOne DEF r
<1>7. /\ TrueRows(t, h) /\ TrueRows(x, h) /\ HasEntry(t, h) /\ Counts(t, h) /\ Youngest(t, h)
      /\ OnceEach(t) /\ OnceEach(x) /\ NoneTwice(t, x) /\ AllThere(t, x, h)
  BY DEF Ledger, Records
<1>8. TrueRows(t, h2) /\ TrueRows(x, h2)
  BY <1>6, <1>7, RowsStayTrue
<1>9. /\ \A j \in DOMAIN t : t[j].block # Null => t[j].block # b
      /\ \A j \in DOMAIN x : x[j].block # Null => x[j].block # b
  BY <1>6, <1>7, RowsStayTrue
<1>10. h2[b] = r /\ b \in Tracking(h2) /\ \A y \in Tracking(h) : h2[y] = h[y]
  BY <1>1, <1>6 DEF OneMore, CountsMore, Tracking
<1>11. /\ DOMAIN t2 = DOMAIN t /\ t2[i] = g
       /\ \A j \in DOMAIN t : j # i => t2[j] = t[j]
  BY DEF Puts, g
<1>12. /\ DOMAIN x2 = DOMAIN x /\ x2[f] = e
       /\ \A j \in DOMAIN x : j # f => x2[j] = x[j]
  BY DEF Puts, e
<1>13. \A j \in DOMAIN t : /\ t2[j].block = t[j].block /\ t2[j].caller_addr = t[j].caller_addr
                           /\ t2[j].size = t[j].size
  BY <1>5, <1>11
<1>14. TrueRows(t2, h2) /\ OnceEach(t2)
  BY <1>7, <1>8, <1>11, <1>13 DEF TrueRows, OnceEach
<1>15. TrueRows(x2, h2)
  BY <1>1, <1>2, <1>8, <1>10, <1>12 DEF TrueRows
<1>16. OnceEach(x2)
  BY <1>2, <1>3, <1>7, <1>9, <1>12 DEF OnceEach
<1>17. NoneTwice(t2, x2)
  BY <1>2, <1>3, <1>7, <1>9, <1>11, <1>12, <1>13 DEF NoneTwice
<1>18. AllThere(t2, x2, h2)
  <2> SUFFICES ASSUME NEW y \in Tracking(h2)
               PROVE  (\E j \in DOMAIN t2 : t2[j].block = y) \/ (\E j \in DOMAIN x2 : x2[j].block = y)
    BY DEF AllThere
  <2>1. CASE y = b
    BY <1>2, <1>12, <2>1
  <2>2. CASE y # b
    <3>1. y \in Tracking(h) /\ y # Null
      BY <1>6, <2>2, OwnersAreCallers DEF CountsMore
    <3>2. (\E j \in DOMAIN t : t[j].block = y) \/ (\E j \in DOMAIN x : x[j].block = y)
      BY <1>7, <3>1 DEF AllThere
    <3> QED BY <1>11, <1>12, <1>13, <3>1, <3>2
  <2> QED BY <2>1, <2>2
<1>19. HasEntry(t2, h2)
  <2> SUFFICES ASSUME NEW y \in Tracking(h2)
               PROVE  \E j \in DOMAIN t2 : t2[j].caller_addr = h2[y].caller_addr
    BY DEF HasEntry
  <2>1. CASE y = b
    BY <1>1, <1>5, <1>10, <1>11, <2>1
  <2>2. CASE y # b
    <3>1. y \in Tracking(h) /\ h2[y] = h[y]
      BY <1>6, <1>10, <2>2 DEF CountsMore
    <3>2. PICK j \in DOMAIN t : t[j].caller_addr = h[y].caller_addr
      BY <1>7, <3>1 DEF HasEntry
    <3> QED BY <1>11, <1>13, <3>1, <3>2
  <2> QED BY <2>1, <2>2
<1>20. \A j \in DOMAIN t : j # i => t[j].caller_addr # c
  BY <1>3 DEF Entries
<1>21. size \in UInt32Value /\ size \in Int /\ UInt32 \in Nat \ {0}
  BY WidthAssumption, CountsAssumption DEF UInt32Value
<1>22. Counts(t2, h2)
  <2>1. /\ CountOf(h2, c) = CountOf(h, c) + 1 /\ CountOf(h, c) \in Int
        /\ CountOf(h2, c) \in UInt32Value
        /\ BytesOf(h2, c) = BytesOf(h, c) + size /\ BytesOf(h, c) \in Int
    BY <1>1, <1>6, CountsTyped DEF CountsMore, UInt32Value
  <2>2. \A d : d # c => CountOf(h2, d) = CountOf(h, d) /\ BytesOf(h2, d) = BytesOf(h, d)
    BY <1>1, <1>6 DEF CountsMore
  <2>3. t[i].ref_count = CountOf(h, c) /\ t[i].total_size = BytesOf(h, c) % UInt32
    BY <1>3, <1>7 DEF Counts
  <2>4. g.ref_count = CountOf(h2, c)
    BY <1>5, <2>1, <2>3, NoWrap DEF Plus
  <2>5. g.total_size = BytesOf(h2, c) % UInt32
    BY <1>5, <1>21, <2>1, <2>3, Wraps DEF Plus
  <2> QED BY <1>5, <1>7, <1>11, <1>20, <2>2, <2>4, <2>5 DEF Counts
<1>23. Youngest(t2, h2)
  <2>1. /\ Owned(h2, c) = Owned(h, c) \cup {b}
        /\ \A d : d # c => Owned(h2, d) = Owned(h, d)
    BY <1>1, <1>6 DEF CountsMore
  <2>2. \A d : \A y \in Owned(h, d) : h2[y] = h[y]
    BY <1>10 DEF Owned
  <2>3. \A y \in Owned(h2, c) : h2[y].age \in Nat
    BY <1>6 DEF Held, Holding, Owned, Tracking
  <2>4. \A y \in Owned(h2, c) : g.lifetime <= h2[y].age
    BY <1>5, <2>3
  <2>5. \A j \in DOMAIN t : j # i =>
            Owned(h2, t2[j].caller_addr) = Owned(h, t[j].caller_addr) /\ t2[j] = t[j]
    BY <1>11, <1>20, <2>1
  <2> QED BY <1>5, <1>7, <1>11, <2>2, <2>4, <2>5 DEF Youngest
<1>24. Plus(a, size) = AllBytes(h2) % UInt32
  <2>1. a = AllBytes(h) % UInt32 /\ AllBytes(h) \in Int
    BY CountsTyped DEF Ledger
  <2> QED BY <1>1, <1>6, <1>21, <2>1, Wraps DEF Plus, CountsMore
<1> QED BY <1>6, <1>14, <1>15, <1>16, <1>17, <1>18, <1>19, <1>22, <1>23, <1>24 DEF Ledger, Records

-----------------------------------------------------------------------------
(* A block leaves the ledger *)

\* Records of other blocks stay true.
LEMMA RowsWithout ==
    ASSUME NEW t, NEW h, NEW h2, NEW b, NEW r, TrueRows(t, h),
           OneMore(h2, h, b, r), CountsMore(h2, h, b, r)
    PROVE  \A i \in DOMAIN t : t[i].block # Null /\ t[i].block # b =>
               /\ t[i].block \in Tracking(h2)
               /\ h2[t[i].block].caller_addr = t[i].caller_addr
               /\ h2[t[i].block].size = t[i].size
BY DEF TrueRows, OneMore, CountsMore, Tracking

\* A caller whose count is 0 has no tracked blocks.
LEMMA CountZero ==
    ASSUME NEW h, Held(h), NEW c, CountOf(h, c) = 0
    PROVE  Owned(h, c) = {}
BY CountsTyped, FS_EmptySet DEF CountOf

\* The total without one block.
LEMMA TotalLess ==
    ASSUME NEW h, NEW h2, NEW b, NEW r, Held(h2), r.size \in Int,
           CountsMore(h2, h, b, r), NEW a, a = AllBytes(h) % UInt32
    PROVE  Minus(a, r.size) = AllBytes(h2) % UInt32
<1>1. AllBytes(h2) \in Int /\ AllBytes(h) = AllBytes(h2) + r.size
  BY CountsTyped DEF CountsMore
<1>2. AllBytes(h) \in Int /\ -r.size \in Int /\ AllBytes(h) + (-r.size) = AllBytes(h2)
  BY <1>1
<1>3. a \in Int /\ a - r.size = a + (-r.size)
  <2>1. a \in Int
    BY <1>2, Wraps, Unsigned
  <2> QED BY <2>1
<1>4. (a + (-r.size)) % UInt32 = (AllBytes(h) + (-r.size)) % UInt32
  BY <1>2, Wraps
<1> QED BY <1>2, <1>3, <1>4 DEF Minus

\* A caller's count and sum without one of its blocks.
LEMMA CallerLess ==
    ASSUME NEW h, NEW h2, NEW b, NEW r, Held(h), Held(h2), r.size \in Int,
           CountsMore(h2, h, b, r)
    PROVE  LET c == r.caller_addr
           IN  /\ CountOf(h, c) \in Nat \ {0} /\ CountOf(h2, c) = CountOf(h, c) - 1
               /\ Minus(CountOf(h, c), 1) = CountOf(h2, c)
               /\ Minus(BytesOf(h, c) % UInt32, r.size) = BytesOf(h2, c) % UInt32
<1> DEFINE c == r.caller_addr
<1>1. /\ CountOf(h2, c) \in UInt32Value /\ CountOf(h, c) = CountOf(h2, c) + 1
      /\ BytesOf(h2, c) \in Int /\ BytesOf(h, c) = BytesOf(h2, c) + r.size
  BY CountsTyped DEF CountsMore
<1>2. /\ CountOf(h2, c) \in Nat
      /\ CountOf(h, c) \in Nat \ {0} /\ CountOf(h2, c) = CountOf(h, c) - 1
  <2>1. CountOf(h2, c) \in Nat
    BY <1>1, Unsigned
  <2> DEFINE n == CountOf(h2, c)
             m == CountOf(h, c)
  <2>2. n \in Nat /\ m = n + 1
    BY <1>1, <2>1
  <2> HIDE DEF n, m
  <2>3. m \in Nat \ {0} /\ n = m - 1
    BY <2>2
  <2> QED BY <2>1, <2>3 DEF n, m
<1>3. Minus(CountOf(h, c), 1) = CountOf(h2, c)
  BY <1>1, <1>2, NoWrap DEF Minus
<1>4. BytesOf(h, c) \in Int /\ -r.size \in Int /\ BytesOf(h, c) + (-r.size) = BytesOf(h2, c)
  BY <1>1
<1>5. /\ BytesOf(h, c) % UInt32 \in Int
      /\ ((BytesOf(h, c) % UInt32) + (-r.size)) % UInt32 = (BytesOf(h, c) + (-r.size)) % UInt32
  BY <1>4, Wraps, Unsigned
<1>6. (BytesOf(h, c) % UInt32) - r.size = (BytesOf(h, c) % UInt32) + (-r.size)
  BY <1>5
<1> QED BY <1>2, <1>3, <1>4, <1>5, <1>6 DEF Minus


\* The block of entry i is freed.
LEMMA DropFirst ==
    ASSUME NEW t, NEW t2, NEW x, NEW a, NEW h, NEW h2, NEW b \in Block, NEW i, NEW k,
           Held(h), Held(h2), OneMore(h2, h, b, h[b]), Ledger(t, x, a, h), Entries(t, k),
           MemTable(t), i \in DOMAIN t, t[i].block = b,
           Puts(t, t2, i, FirstFreed(t[i]))
    PROVE  /\ h[b].tracked
           /\ Ledger(t2, x, Minus(a, t[i].size), h2)
<1> DEFINE r == h[b]
           c == t[i].caller_addr
           g == FirstFreed(t[i])
<1>1. /\ TrueRows(t, h) /\ TrueRows(x, h) /\ HasEntry(t, h) /\ Counts(t, h) /\ Youngest(t, h)
      /\ OnceEach(t) /\ OnceEach(x) /\ NoneTwice(t, x) /\ AllThere(t, x, h)
      /\ a = AllBytes(h) % UInt32
  BY DEF Ledger, Records
<1>2. b # Null
  BY NullAssumption
<1>3. b \in Tracking(h) /\ r.caller_addr = c /\ r.size = t[i].size
  BY <1>1, <1>2 DEF TrueRows
<1>4. r \in Holding /\ r.tracked /\ c # Null /\ r.size \in Int
  BY <1>3, OwnersAreCallers, SizesTyped DEF Held, Tracking
<1>5. t[i] \in MemBlock
  BY RowsTyped, CountsAssumption DEF MemTable
<1>6. CountsMore(h2, h, b, r) /\ OneMore(h2, h, b, r)
  BY <1>4, HoldOne
<1> HIDE DEF r
<1>7. \A y \in Tracking(h2) : h2[y] = h[y] /\ y \in Tracking(h) /\ y # b
  BY <1>6 DEF OneMore, CountsMore, Tracking
<1>8. /\ DOMAIN t2 = DOMAIN t /\ t2[i] = g
      /\ \A j \in DOMAIN t : j # i => t2[j] = t[j]
  BY DEF Puts
<1>9. /\ t[i].ref_count = CountOf(h, c) /\ t[i].total_size = BytesOf(h, c) % UInt32
      /\ CountOf(h, c) \in Nat \ {0} /\ CountOf(h2, c) = CountOf(h, c) - 1
      /\ Minus(CountOf(h, c), 1) = CountOf(h2, c)
      /\ Minus(BytesOf(h, c) % UInt32, r.size) = BytesOf(h2, c) % UInt32
  BY <1>1, <1>3, <1>4, <1>6, CallerLess DEF Counts
<1>10. \/ g.caller_addr = Null /\ g.block = Null /\ Owned(h2, c) = {} /\ g = EmptyMemBlock
       \/ /\ g.caller_addr = c /\ g.block = Null /\ g.lifetime = 0 /\ g.permanent = FALSE
          /\ g.ref_count = CountOf(h2, c) /\ g.total_size = BytesOf(h2, c) % UInt32
  <2>1. CASE t[i].ref_count <= 1
    <3>1. CountOf(h2, c) = 0
      BY <1>9, <2>1
    <3> QED BY <2>1, <3>1, CountZero DEF FirstFreed, EmptyMemBlock
  <2>2. CASE ~(t[i].ref_count <= 1)
    <3>1. /\ g.caller_addr = c /\ g.block = Null /\ g.lifetime = 0 /\ g.permanent = FALSE
          /\ g.ref_count = Minus(t[i].ref_count, 1)
          /\ g.total_size = Minus(t[i].total_size, t[i].size)
      BY <1>5, <2>2 DEF FirstFreed, MemBlock
    <3> QED BY <1>3, <1>9, <3>1
  <2> QED BY <2>1, <2>2
<1> HIDE DEF g
<1>11. g.block = Null
  BY <1>10
<1>12. \A j \in DOMAIN t : j # i /\ t[j].block # Null => t[j].block # b
  BY <1>1, <1>2 DEF OnceEach
<1>13. \A j \in DOMAIN x : x[j].block # b
  BY <1>1, <1>2 DEF NoneTwice
<1>14. TrueRows(t2, h2) /\ TrueRows(x, h2)
  BY <1>1, <1>6, <1>8, <1>11, <1>12, <1>13, RowsWithout DEF TrueRows
<1>15. OnceEach(t2) /\ NoneTwice(t2, x)
  BY <1>1, <1>8, <1>11 DEF OnceEach, NoneTwice
<1>16. AllThere(t2, x, h2)
  BY <1>1, <1>7, <1>8 DEF AllThere
<1>17. \A j \in DOMAIN t : j # i => t[j].caller_addr # c
  BY <1>4 DEF Entries
<1>18. HasEntry(t2, h2)
  <2> SUFFICES ASSUME NEW y \in Tracking(h2)
               PROVE  \E j \in DOMAIN t2 : t2[j].caller_addr = h2[y].caller_addr
    BY DEF HasEntry
  <2>1. PICK j \in DOMAIN t : t[j].caller_addr = h2[y].caller_addr
    BY <1>1, <1>7 DEF HasEntry
  <2>2. CASE j # i
    BY <1>8, <2>1, <2>2
  <2>3. CASE j = i
    <3>1. y \in Owned(h2, c)
      BY <2>1, <2>3 DEF Owned
    <3> QED BY <1>8, <1>10, <2>1, <2>3, <3>1
  <2> QED BY <2>2, <2>3
<1>19. \A d : d # c => /\ Owned(h2, d) = Owned(h, d) /\ CountOf(h2, d) = CountOf(h, d)
                       /\ BytesOf(h2, d) = BytesOf(h, d)
  BY <1>3, <1>6 DEF CountsMore
<1>20. Counts(t2, h2)
  BY <1>1, <1>8, <1>10, <1>17, <1>19 DEF Counts
<1>21. Youngest(t2, h2)
  <2>1. \A d : \A y \in Owned(h2, d) : h2[y] = h[y] /\ h2[y].age \in Nat
    BY <1>7 DEF Owned, Held, Holding, Tracking
  <2>2. Owned(h2, Null) = {}
    BY OwnersAreCallers
  <2> QED BY <1>1, <1>8, <1>10, <1>17, <1>19, <2>1, <2>2 DEF Youngest
<1>22. Minus(a, t[i].size) = AllBytes(h2) % UInt32
  BY <1>1, <1>3, <1>4, <1>6, TotalLess
<1> QED BY <1>1, <1>4, <1>14, <1>15, <1>16, <1>18, <1>20, <1>21, <1>22 DEF Ledger, Records, r

\* The caller's entry after one of its further blocks was freed.
OneLess(e, size) ==
    [e EXCEPT !.ref_count = Minus(@, 1), !.total_size = Minus(@, size)]

\* The block of record f is freed; i is the entry of its caller.
LEMMA DropNext ==
    ASSUME NEW t, NEW t2, NEW x, NEW x2, NEW a, NEW h, NEW h2, NEW b \in Block,
           NEW i, NEW f, NEW k, Held(h), Held(h2), OneMore(h2, h, b, h[b]),
           Ledger(t, x, a, h), Entries(t, k), MemTable(t),
           f \in DOMAIN x, x[f].block = b,
           i \in DOMAIN t, t[i].caller_addr = x[f].caller_addr,
           Puts(x, x2, f, EmptyExtBlock), Puts(t, t2, i, OneLess(t[i], x[f].size))
    PROVE  /\ h[b].tracked
           /\ Ledger(t2, x2, Minus(a, x[f].size), h2)
<1> DEFINE r == h[b]
           c == t[i].caller_addr
           g == OneLess(t[i], x[f].size)
<1>1. /\ TrueRows(t, h) /\ TrueRows(x, h) /\ HasEntry(t, h) /\ Counts(t, h) /\ Youngest(t, h)
      /\ OnceEach(t) /\ OnceEach(x) /\ NoneTwice(t, x) /\ AllThere(t, x, h)
      /\ a = AllBytes(h) % UInt32
  BY DEF Ledger, Records
<1>2. b # Null
  BY NullAssumption
<1>3. b \in Tracking(h) /\ r.caller_addr = c /\ r.size = x[f].size
  BY <1>1, <1>2 DEF TrueRows
<1>4. r \in Holding /\ r.tracked /\ c # Null /\ r.size \in Int
  BY <1>3, OwnersAreCallers, SizesTyped DEF Held, Tracking
<1>5. t[i] \in MemBlock
  BY RowsTyped, CountsAssumption DEF MemTable
<1>6. CountsMore(h2, h, b, r) /\ OneMore(h2, h, b, r)
  BY <1>4, HoldOne
<1> HIDE DEF r
<1>7. \A y \in Tracking(h2) : h2[y] = h[y] /\ y \in Tracking(h) /\ y # b
  BY <1>6 DEF OneMore, CountsMore, Tracking
<1>8. /\ DOMAIN t2 = DOMAIN t /\ t2[i] = g
      /\ \A j \in DOMAIN t : j # i => t2[j] = t[j]
  BY DEF Puts
<1>9. /\ DOMAIN x2 = DOMAIN x /\ x2[f].block = Null
      /\ \A j \in DOMAIN x : j # f => x2[j] = x[j]
  BY DEF Puts, EmptyExtBlock
<1>10. /\ t[i].ref_count = CountOf(h, c) /\ t[i].total_size = BytesOf(h, c) % UInt32
       /\ Minus(CountOf(h, c), 1) = CountOf(h2, c)
       /\ Minus(BytesOf(h, c) % UInt32, r.size) = BytesOf(h2, c) % UInt32
  BY <1>1, <1>3, <1>4, <1>6, CallerLess DEF Counts
<1>11. /\ g.block = t[i].block /\ g.caller_addr = c /\ g.size = t[i].size
       /\ g.lifetime = t[i].lifetime /\ g.permanent = t[i].permanent
       /\ g.ref_count = Minus(t[i].ref_count, 1)
       /\ g.total_size = Minus(t[i].total_size, x[f].size)
  BY <1>5 DEF OneLess, MemBlock
<1>12. g.ref_count = CountOf(h2, c) /\ g.total_size = BytesOf(h2, c) % UInt32
  BY <1>3, <1>10, <1>11
<1> HIDE DEF g
<1>13. \A j \in DOMAIN t : /\ t2[j].block = t[j].block /\ t2[j].caller_addr = t[j].caller_addr
                           /\ t2[j].size = t[j].size /\ t2[j].lifetime = t[j].lifetime
                           /\ t2[j].permanent = t[j].permanent
  BY <1>8, <1>11
<1>14. \A j \in DOMAIN x : j # f /\ x[j].block # Null => x[j].block # b
  BY <1>1, <1>2 DEF OnceEach
<1>15. \A j \in DOMAIN t : t[j].block # b
  BY <1>1, <1>2 DEF NoneTwice
<1>16. TrueRows(t2, h2)
  BY <1>1, <1>6, <1>8, <1>13, <1>15, RowsWithout DEF TrueRows
<1>17. TrueRows(x2, h2)
  BY <1>1, <1>6, <1>9, <1>14, RowsWithout DEF TrueRows
<1>18. OnceEach(t2) /\ OnceEach(x2) /\ NoneTwice(t2, x2)
  BY <1>1, <1>8, <1>9, <1>13 DEF OnceEach, NoneTwice
<1>19. AllThere(t2, x2, h2)
  BY <1>1, <1>7, <1>8, <1>9, <1>13 DEF AllThere
<1>20. HasEntry(t2, h2)
  BY <1>1, <1>7, <1>8, <1>13 DEF HasEntry
<1>21. \A j \in DOMAIN t : j # i => t[j].caller_addr # c
  BY <1>4 DEF Entries
<1>22. \A d : d # c => /\ CountOf(h2, d) = CountOf(h, d) /\ BytesOf(h2, d) = BytesOf(h, d)
  BY <1>3, <1>6 DEF CountsMore
<1>23. Counts(t2, h2)
  BY <1>1, <1>8, <1>11, <1>12, <1>21, <1>22 DEF Counts
<1>24. Youngest(t2, h2)
  <2>1. \A d : \A y \in Owned(h2, d) : h2[y] = h[y] /\ y \in Owned(h, d)
    BY <1>7 DEF Owned
  <2> QED BY <1>1, <1>8, <1>13, <2>1 DEF Youngest
<1>25. Minus(a, x[f].size) = AllBytes(h2) % UInt32
  BY <1>1, <1>3, <1>4, <1>6, TotalLess
<1> QED BY <1>4, <1>16, <1>17, <1>18, <1>19, <1>20, <1>23, <1>24, <1>25 DEF Ledger, Records, r

-----------------------------------------------------------------------------
(* Changes that the ledger does not notice *)

\* t2 has the records, callers and counts of t.
SameRows(t, t2) ==
    /\ DOMAIN t2 = DOMAIN t
    /\ \A i \in DOMAIN t :
          /\ t2[i].block = t[i].block /\ t2[i].caller_addr = t[i].caller_addr
          /\ t2[i].size = t[i].size /\ t2[i].total_size = t[i].total_size
          /\ t2[i].ref_count = t[i].ref_count

\* Only lifetimes, flags and ages change.
LEMMA SameLedger ==
    ASSUME NEW t, NEW t2, NEW x, NEW a, NEW h, NEW h2, NEW k, Held(h),
           SameRows(t, t2), SameTracked(h, h2)
    PROVE  /\ Entries(t, k) => Entries(t2, k)
           /\ Ledger(t, x, a, h) /\ Youngest(t2, h2) => Ledger(t2, x, a, h2)
<1>1. Entries(t, k) => Entries(t2, k)
  BY DEF Entries, SameRows
<1>2. ASSUME Ledger(t, x, a, h), Youngest(t2, h2) PROVE Ledger(t2, x, a, h2)
  <2>1. /\ AllBytes(h2) = AllBytes(h)
        /\ \A c : CountOf(h2, c) = CountOf(h, c) /\ BytesOf(h2, c) = BytesOf(h, c)
    BY SameCounts
  <2>2. TrueRows(t2, h2) /\ TrueRows(x, h2)
    BY <1>2 DEF Ledger, Records, TrueRows, SameRows, SameTracked
  <2>3. OnceEach(t2) /\ NoneTwice(t2, x) /\ OnceEach(x)
    BY <1>2 DEF Ledger, Records, OnceEach, NoneTwice, SameRows
  <2>4. AllThere(t2, x, h2)
    BY <1>2 DEF Ledger, Records, AllThere, SameRows, SameTracked
  <2>5. HasEntry(t2, h2)
    BY <1>2 DEF Ledger, HasEntry, SameRows, SameTracked
  <2>6. Counts(t2, h2)
    BY <1>2, <2>1 DEF Ledger, Counts, SameRows
  <2> QED BY <1>2, <2>1, <2>2, <2>3, <2>4, <2>5, <2>6 DEF Ledger, Records
<1> QED BY <1>1, <1>2

\* Blocks that are not tracked come and go.
LEMMA UntrackedLedger ==
    ASSUME NEW t, NEW x, NEW a, NEW h, NEW h2, Held(h), Held(h2), Ledger(t, x, a, h),
           SameTracked(h, h2), \A b \in Tracking(h) : h2[b].age = h[b].age
    PROVE  Ledger(t, x, a, h2)
<1>1. SameRows(t, t)
  BY DEF SameRows
<1>2. \A c : Owned(h2, c) = Owned(h, c) /\ \A b \in Owned(h, c) : h2[b].age = h[b].age
  BY DEF Owned, SameTracked
<1>3. Youngest(t, h2)
  BY <1>2 DEF Ledger, Youngest
<1> QED BY <1>1, <1>3, SameLedger

\* Resetting an entry, and clearing one whose count is 0.
LEMMA ResetLedger ==
    ASSUME NEW t, NEW t2, NEW x, NEW a, NEW h, NEW k, NEW i, MemTable(t), Held(h),
           i \in DOMAIN t, Puts(t, t2, i, ResetEntry(t[i]))
    PROVE  /\ Entries(t, k) => Entries(t2, k)
           /\ Ledger(t, x, a, h) => Ledger(t2, x, a, h)
<1> DEFINE g == ResetEntry(t[i])
<1>1. t[i] \in MemBlock
  BY RowsTyped, CountsAssumption DEF MemTable
<1>2. /\ DOMAIN t2 = DOMAIN t /\ t2[i] = g
      /\ \A j \in DOMAIN t : j # i => t2[j] = t[j]
  BY DEF Puts
<1>3. CASE t[i].ref_count = 0
  <2>1. g.caller_addr = Null /\ g.block = Null
    BY <1>3 DEF ResetEntry, EmptyMemBlock
  <2> HIDE DEF g
  <2>2. Entries(t, k) => Entries(t2, k)
    BY <1>2, <2>1 DEF Entries
  <2>3. ASSUME Ledger(t, x, a, h) PROVE Ledger(t2, x, a, h)
    <3>1. /\ TrueRows(t, h) /\ HasEntry(t, h) /\ Counts(t, h) /\ Youngest(t, h)
          /\ OnceEach(t) /\ NoneTwice(t, x) /\ AllThere(t, x, h)
      BY <2>3 DEF Ledger, Records
    <3>2. Owned(h, t[i].caller_addr) = {}
      BY <1>3, <3>1, CountZero, OwnersAreCallers DEF Counts
    <3>3. t[i].block = Null
      BY <3>1, <3>2 DEF TrueRows, Owned
    <3>4. TrueRows(t2, h) /\ OnceEach(t2) /\ NoneTwice(t2, x)
      BY <1>2, <2>1, <3>1 DEF TrueRows, OnceEach, NoneTwice
    <3>5. AllThere(t2, x, h)
      BY <1>2, <3>1, <3>3, OwnersAreCallers DEF AllThere
    <3>6. HasEntry(t2, h)
      BY <1>2, <3>1, <3>2 DEF HasEntry, Owned
    <3>7. Counts(t2, h)
      BY <1>2, <2>1, <3>1 DEF Counts
    <3>8. Youngest(t2, h)
      BY <1>2, <2>1, <3>1, OwnersAreCallers DEF Youngest
    <3> QED BY <2>3, <3>4, <3>5, <3>6, <3>7, <3>8 DEF Ledger, Records
  <2> QED BY <2>2, <2>3
<1>4. CASE t[i].ref_count # 0
  <2>1. /\ g.block = t[i].block /\ g.caller_addr = t[i].caller_addr
        /\ g.size = t[i].size /\ g.total_size = t[i].total_size
        /\ g.ref_count = t[i].ref_count /\ g.lifetime = 0 /\ g.permanent = FALSE
    BY <1>1, <1>4 DEF ResetEntry, MemBlock
  <2> HIDE DEF g
  <2>2. SameRows(t, t2)
    BY <1>2, <2>1 DEF SameRows
  <2>3. SameTracked(h, h)
    BY DEF SameTracked
  <2>4. \A d : \A y \in Owned(h, d) : h[y].age \in Nat
    BY DEF Owned, Held, Holding, Tracking
  <2>5. Ledger(t, x, a, h) => Youngest(t2, h)
    BY <1>2, <2>1, <2>4 DEF Ledger, Youngest
  <2> QED BY <2>2, <2>3, <2>5, SameLedger
<1> QED BY <1>3, <1>4


-----------------------------------------------------------------------------
(* The invariant as a ledger *)

LastIndex(t, k, gone) ==
    /\ k \in Nat
    /\ IF t = NoTable THEN k = 0 \/ gone ELSE k \in DOMAIN t

Answered == \A l \in DOMAIN last.lists : Range(last.lists[l]) \subseteq Allocator

LedgerInv ==
    /\ MemTable(mem_blocks) /\ ExtTable(ext_mem_blocks)
    /\ LastIndex(mem_blocks, last_mem_block_index, lost)
    /\ allocated_memory \in UInt32Value
    /\ Held(held)
    /\ lost \in BOOLEAN
    /\ Answered
    /\ Entries(mem_blocks, last_mem_block_index)
    /\ Blank(ext_mem_blocks)
    /\ ~lost => Ledger(mem_blocks, ext_mem_blocks, allocated_memory, held)

SameInv == IInv <=> LedgerInv

\* The invariant is the one of NsDynMemTracker.
LEMMA IInvMeans == SameInv
<1> DEFINE t == mem_blocks
           x == ext_mem_blocks
           h == held
           k == last_mem_block_index
           a == allocated_memory
           Row(e) == <<e.block, e.caller_addr, e.size>>
<1>1. TypeOK <=> /\ MemTable(t) /\ ExtTable(x) /\ LastIndex(t, k, lost)
                 /\ a \in UInt32Value /\ Held(h) /\ lost \in BOOLEAN /\ Answered
  BY DEF TypeOK, MemTable, ExtTable, LastIndex, Held, Answered
<1>2. EntriesApart <=> Entries(t, k) /\ Blank(x)
  BY DEF EntriesApart, Entries, Blank
<1> SUFFICES ASSUME TypeOK, EntriesApart, ~lost
             PROVE  /\ RecordsExact <=> Records(t, x, h)
                    /\ OneEntryPerCaller <=> HasEntry(t, h)
                    /\ TotalsExact <=> Counts(t, h) /\ a = AllBytes(h) % UInt32
                    /\ YoungestBlockCounts <=> Youngest(t, h)
  <2>1. TypeOK /\ lost => RecordsExact /\ OneEntryPerCaller /\ TotalsExact /\ YoungestBlockCounts
    BY DEF RecordsExact, OneEntryPerCaller, TotalsExact, YoungestBlockCounts
  <2> QED BY <1>1, <1>2, <2>1 DEF SameInv, IInv, LedgerInv, Ledger
<1>3. TrackedBlocks = Tracking(h) /\ \A c : BlocksOf(c) = Owned(h, c)
  BY DEF TrackedBlocks, Tracking, BlocksOf, Owned
<1>4. \A S : SizeOf(S) = Weight(h, S)
  BY DEF SizeOf, Weight
<1>5. \A b \in Tracking(h) : b # Null /\ h[b].caller_addr # Null
  BY <1>1, OwnersAreCallers
<1>6. RecordsExact <=> Records(t, x, h)
  <2>1. (\A i, j \in Recorded(t) : t[i].block = t[j].block => i = j) <=> OnceEach(t)
    BY DEF Recorded, OnceEach
  <2>2. (\A i, j \in Recorded(x) : x[i].block = x[j].block => i = j) <=> OnceEach(x)
    BY DEF Recorded, OnceEach
  <2>3. (\A i \in Recorded(t), j \in Recorded(x) : t[i].block # x[j].block) <=> NoneTwice(t, x)
    BY DEF Recorded, NoneTwice
  <2> DEFINE Said == {Row(t[i]) : i \in Recorded(t)} \cup {Row(x[i]) : i \in Recorded(x)}
             Real == {<<b, h[b].caller_addr, h[b].size>> : b \in Tracking(h)}
  <2>4. ASSUME Said = Real PROVE TrueRows(t, h) /\ TrueRows(x, h) /\ AllThere(t, x, h)
    <3>1. ASSUME NEW e, Row(e) \in Real
          PROVE  /\ e.block \in Tracking(h) /\ h[e.block].caller_addr = e.caller_addr
                 /\ h[e.block].size = e.size
      BY <3>1
    <3>2. \A i \in DOMAIN t : t[i].block # Null => Row(t[i]) \in Real
      BY <2>4 DEF Recorded
    <3>3. \A i \in DOMAIN x : x[i].block # Null => Row(x[i]) \in Real
      BY <2>4 DEF Recorded
    <3>4. TrueRows(t, h) /\ TrueRows(x, h)
      BY <3>1, <3>2, <3>3 DEF TrueRows
    <3>5. ASSUME NEW b \in Tracking(h)
          PROVE  (\E i \in DOMAIN t : t[i].block = b) \/ (\E j \in DOMAIN x : x[j].block = b)
      <4>1. <<b, h[b].caller_addr, h[b].size>> \in Said
        BY <2>4
      <4>2. \/ \E i \in DOMAIN t : <<b, h[b].caller_addr, h[b].size>> = Row(t[i])
            \/ \E i \in DOMAIN x : <<b, h[b].caller_addr, h[b].size>> = Row(x[i])
        BY <4>1 DEF Recorded
      <4> QED BY <4>2
    <3> QED BY <3>4, <3>5 DEF AllThere
  <2>5. ASSUME TrueRows(t, h), TrueRows(x, h), AllThere(t, x, h) PROVE Said = Real
    <3>1. \A i \in Recorded(t) : Row(t[i]) \in Real
      BY <2>5 DEF TrueRows, Recorded
    <3>2. \A i \in Recorded(x) : Row(x[i]) \in Real
      BY <2>5 DEF TrueRows, Recorded
    <3>3. ASSUME NEW b \in Tracking(h) PROVE <<b, h[b].caller_addr, h[b].size>> \in Said
      <4>1. CASE \E i \in DOMAIN t : t[i].block = b
        <5>1. PICK i \in DOMAIN t : t[i].block = b
          BY <4>1
        <5>2. i \in Recorded(t) /\ Row(t[i]) = <<b, h[b].caller_addr, h[b].size>>
          BY <1>5, <2>5, <5>1 DEF TrueRows, Recorded
        <5> QED BY <5>2
      <4>2. CASE \E i \in DOMAIN x : x[i].block = b
        <5>1. PICK i \in DOMAIN x : x[i].block = b
          BY <4>2
        <5>2. i \in Recorded(x) /\ Row(x[i]) = <<b, h[b].caller_addr, h[b].size>>
          BY <1>5, <2>5, <5>1 DEF TrueRows, Recorded
        <5> QED BY <5>2
      <4> QED BY <2>5, <4>1, <4>2 DEF AllThere
    <3> QED BY <3>1, <3>2, <3>3
  <2>6. RecordsExact <=> /\ Said = Real
                         /\ \A i, j \in Recorded(t) : t[i].block = t[j].block => i = j
                         /\ \A i, j \in Recorded(x) : x[i].block = x[j].block => i = j
                         /\ \A i \in Recorded(t), j \in Recorded(x) : t[i].block # x[j].block
    BY <1>3 DEF RecordsExact
  <2> HIDE DEF Said, Real
  <2> QED BY <2>1, <2>2, <2>3, <2>4, <2>5, <2>6 DEF Records
<1>7. OneEntryPerCaller <=> HasEntry(t, h)
  <2>1. k \in Nat /\ DOMAIN t \subseteq Nat
    BY <1>1, RowsTyped, CountsAssumption DEF LastIndex, MemTable
  <2>2. \A i \in DOMAIN t : t[i].caller_addr # Null => i <= k
    BY <1>2, <2>1 DEF Entries
  <2>3. \A i, j \in DOMAIN t :
           t[i].caller_addr = t[j].caller_addr => i = j \/ t[i].caller_addr = Null
    BY <1>2 DEF Entries
  <2> QED BY <1>3, <1>5, <2>2, <2>3 DEF OneEntryPerCaller, HasEntry
<1>8. TotalsExact <=> Counts(t, h) /\ a = AllBytes(h) % UInt32
  BY <1>3, <1>4 DEF TotalsExact, Counts, CountOf, BytesOf, AllBytes
<1>9. YoungestBlockCounts <=> Youngest(t, h)
  BY <1>3 DEF YoungestBlockCounts, Youngest
<1> QED BY <1>6, <1>7, <1>8, <1>9


-----------------------------------------------------------------------------
(* ns_dyn_mem_tracker_lib_alloc *)

\* The rows that calls write have the types of C.
LEMMA NewRows ==
    /\ EmptyMemBlock \in MemBlock /\ EmptyExtBlock \in ExtBlock
    /\ \A b \in Block, c \in Caller, size \in Sizes :
          FirstEntry(b, c, size) \in MemBlock /\ NextRecord(b, c, size) \in ExtBlock
    /\ \A e \in MemBlock, size \in UInt32Value :
          /\ Again(e, size) \in MemBlock /\ FirstFreed(e) \in MemBlock
          /\ OneLess(e, size) \in MemBlock /\ ResetEntry(e) \in MemBlock
<1>1. UInt32 \in Nat \ {0} /\ 0 \in UInt32Value
  BY CountsAssumption DEF UInt32Value
<1>2. \A n, m \in UInt32Value : Plus(n, m) \in UInt32Value /\ Minus(n, m) \in UInt32Value
  BY <1>1 DEF UInt32Value, Plus, Minus
<1>3. \A n \in UInt32Value : Plus(n, 1) \in UInt32Value /\ Minus(n, 1) \in UInt32Value
  BY <1>1 DEF UInt32Value, Plus, Minus
<1>4. EmptyMemBlock \in MemBlock /\ EmptyExtBlock \in ExtBlock
  BY <1>1 DEF EmptyMemBlock, EmptyExtBlock, MemBlock, ExtBlock, BlockOrNull, CallerOrNull
<1>5. ASSUME NEW b \in Block, NEW c \in Caller, NEW size \in Sizes
      PROVE  FirstEntry(b, c, size) \in MemBlock /\ NextRecord(b, c, size) \in ExtBlock
  <2>1. size \in UInt32Value
    BY WidthAssumption DEF UInt32Value
  <2>2. 1 \in UInt32Value
    <3>1. IsFiniteSet(Block) /\ Cardinality(Block) \in Nat /\ Cardinality(Block) # 0
      BY WidthAssumption, FS_CardinalityType, FS_EmptySet
    <3> QED BY <1>1, <3>1, WidthAssumption DEF UInt32Value
  <2> QED BY <1>1, <2>1, <2>2
      DEF FirstEntry, NextRecord, MemBlock, ExtBlock, BlockOrNull, CallerOrNull
<1>6. ASSUME NEW e \in MemBlock, NEW size \in UInt32Value
      PROVE  /\ Again(e, size) \in MemBlock /\ FirstFreed(e) \in MemBlock
             /\ OneLess(e, size) \in MemBlock /\ ResetEntry(e) \in MemBlock
  <2>1. Again(e, size) \in MemBlock
    BY <1>1, <1>2, <1>3 DEF Again, MemBlock
  <2>2. OneLess(e, size) \in MemBlock
    BY <1>2, <1>3 DEF OneLess, MemBlock
  <2>3. ResetEntry(e) \in MemBlock
    BY <1>1, <1>4 DEF ResetEntry, MemBlock
  <2>4. FirstFreed(e) \in MemBlock
    BY <1>1, <1>2, <1>3, <1>4 DEF FirstFreed, MemBlock, BlockOrNull
  <2> QED BY <2>1, <2>2, <2>3, <2>4
<1> QED BY <1>4, <1>5, <1>6

\* A call that returns no lists.
LEMMA AnsweredNothing ==
    ASSUME NEW call, NEW rc, Returns(call, rc)
    PROVE  Answered' /\ last'.rc = rc
BY DEF Returns, Answered

\* A new block in use.
LEMMA HoldsOne ==
    ASSUME Held(held), NEW c \in Caller, NEW b \in Block \ DOMAIN held, NEW size \in Sizes,
           NEW tracked \in BOOLEAN, Holds(c, b, size, tracked)
    PROVE  LET r == [caller_addr |-> c, size |-> size, tracked |-> tracked, age |-> 0]
           IN  /\ r \in Holding /\ OneMore(held, held', b, r) /\ Held(held')
               /\ ~tracked => /\ SameTracked(held, held')
                              /\ \A y \in Tracking(held) : held'[y].age = held[y].age
<1> DEFINE r == [caller_addr |-> c, size |-> size, tracked |-> tracked, age |-> 0]
<1>1. r \in Holding /\ r.tracked = tracked
  BY CountsAssumption DEF Holding
<1>2. OneMore(held, held', b, r)
  BY DEF Holds, OneMore
<1> HIDE DEF r
<1>3. Held(held') /\ (~tracked => SameTracked(held, held'))
  BY <1>1, <1>2, HoldOne
<1>4. \A y \in Tracking(held) : held'[y].age = held[y].age
  BY <1>2 DEF OneMore, Tracking
<1> QED BY <1>1, <1>2, <1>3, <1>4 DEF r

\* A block that is not recorded leaves the ledger alone.
LEMMA GiveUp ==
    ASSUME LedgerInv, ~lost, NEW c \in Caller, NEW b \in Block \ DOMAIN held,
           NEW size \in Sizes, Untracked(c, b, size), NEW t, NEW x,
           Ledger(t, x, allocated_memory, held)
    PROVE  /\ Held(held') /\ Ledger(t, x, allocated_memory', held')
           /\ allocated_memory' = allocated_memory
           /\ last_mem_block_index' = last_mem_block_index
           /\ Answered'
<1>1. Held(held) /\ FALSE \in BOOLEAN
  BY DEF LedgerInv
<1>2. /\ Held(held') /\ SameTracked(held, held')
      /\ \A y \in Tracking(held) : held'[y].age = held[y].age
  BY <1>1, HoldsOne DEF Untracked
<1>3. Answered'
  BY AnsweredNothing DEF Untracked
<1> QED BY <1>1, <1>2, <1>3, UntrackedLedger DEF Untracked

\* The same where the tables are lost.
LEMMA GiveUpTyped ==
    ASSUME LedgerInv, NEW c \in Caller, NEW b \in Block \ DOMAIN held,
           NEW size \in Sizes, Untracked(c, b, size)
    PROVE  /\ Held(held') /\ allocated_memory' = allocated_memory
           /\ last_mem_block_index' = last_mem_block_index /\ Answered'
<1>1. Held(held) /\ FALSE \in BOOLEAN
  BY DEF LedgerInv
<1>2. Held(held')
  BY <1>1, HoldsOne DEF Untracked
<1>3. Answered'
  BY AnsweredNothing DEF Untracked
<1> QED BY <1>1, <1>2, <1>3 DEF Untracked

\* A call before there is a table.
LEMMA AllocNoTableStep ==
    ASSUME LedgerInv, ~lost, NEW c \in Caller, NEW b \in Block \ DOMAIN held,
           NEW size \in Sizes, AllocNoTable(c, b, size)
    PROVE  LedgerInv'
<1>1. Untracked(c, b, size) /\ UNCHANGED <<mem_blocks, ext_mem_blocks, lost>>
  BY DEF AllocNoTable
<1>2. Ledger(mem_blocks, ext_mem_blocks, allocated_memory, held)
  BY DEF LedgerInv
<1> QED BY <1>1, <1>2, GiveUp DEF LedgerInv

\* What the search of entries up to the last one used answers.
LEMMA EntryScan ==
    ASSUME NEW t, MemTable(t), t # NoTable, last_mem_block_index \in DOMAIN t,
           NEW match, match \subseteq 0..last_mem_block_index
    PROVE  /\ ScanFrom(match, 0) \in Int
           /\ ScanFrom(match, 0) >= 0 => ScanFrom(match, 0) \in match /\ ScanFrom(match, 0) \in DOMAIN t
           /\ ScanFrom(match, 0) < 0 => match = {}
<1> DEFINE found == ScanFrom(match, 0)
<1>1. PICK n \in 0..MemBlocksMax : DOMAIN t = 0..(n - 1)
  BY TableDomain, CountsAssumption DEF MemTable
<1>2. match \subseteq DOMAIN t /\ match \subseteq Nat
  BY <1>1
<1>3. found \in Int
  BY <1>2, ScanFinds
<1>4. match # {} => found \in match
  BY <1>2, ScanFinds
<1>5. match = {} => found = -1
  BY <1>2, ScanFinds
<1> HIDE DEF found
<1>6. found >= 0 => found \in match /\ found \in DOMAIN t
  BY <1>2, <1>3, <1>4, <1>5
<1>7. found < 0 => match = {}
  BY <1>2, <1>3, <1>4
<1> QED BY <1>3, <1>6, <1>7 DEF found

\* Where entries are used.
LEMMA UsedEntries ==
    ASSUME NEW t, MemTable(t), t # NoTable, NEW k \in DOMAIN t, Entries(t, k)
    PROVE  /\ 0..k \subseteq DOMAIN t /\ 0 \in DOMAIN t
           /\ \A j \in DOMAIN t : t[j].caller_addr # Null \/ t[j].block # Null => j \in 0..k
<1>1. PICK n \in 0..MemBlocksMax : DOMAIN t = 0..(n - 1)
  BY TableDomain, CountsAssumption DEF MemTable
<1>2. 0..k \subseteq DOMAIN t /\ 0 \in DOMAIN t
  BY <1>1
<1>3. \A j \in DOMAIN t : j > k \/ j \in 0..k
  BY <1>1
<1> QED BY <1>2, <1>3 DEF Entries

\* The caller at i, or none.
FindsCaller(t, c, i) ==
    /\ i \in Int
    /\ i >= 0 => i \in DOMAIN t /\ t[i].caller_addr = c
    /\ i < 0 => \A j \in DOMAIN t : t[j].caller_addr # c

\* The search for a caller.
LEMMA CallerFound ==
    ASSUME NEW t, MemTable(t), Entries(t, last_mem_block_index), t # NoTable,
           last_mem_block_index \in DOMAIN t, NEW c, c # Null
    PROVE  FindsCaller(t, c, ns_dyn_mem_tracker_lib_find_caller_index(t, c))
<1> DEFINE match == {i \in 0..last_mem_block_index : t[i].caller_addr = c}
           found == ScanFrom(match, 0)
<1>1. match \subseteq 0..last_mem_block_index
  OBVIOUS
<1>2. \A j \in DOMAIN t : t[j].caller_addr = c => j \in match
  BY UsedEntries
<1>3. \A j \in match : t[j].caller_addr = c
  OBVIOUS
<1> HIDE DEF match
<1>4. /\ found \in Int
      /\ found >= 0 => found \in match /\ found \in DOMAIN t
      /\ found < 0 => match = {}
  BY <1>1, EntryScan
<1> HIDE DEF found
<1>5. FindsCaller(t, c, found)
  BY <1>2, <1>3, <1>4 DEF FindsCaller
<1> QED BY <1>5 DEF ns_dyn_mem_tracker_lib_find_caller_index, found, match

\* The block at i, or nowhere.
FindsBlock(t, b, i) ==
    /\ i \in Int
    /\ i >= 0 => i \in DOMAIN t /\ t[i].block = b
    /\ i < 0 => \A j \in DOMAIN t : t[j].block # b

\* The search for a block in the entries.
LEMMA BlockFound ==
    ASSUME NEW t, MemTable(t), Entries(t, last_mem_block_index), t # NoTable,
           last_mem_block_index \in DOMAIN t, NEW b, b # Null
    PROVE  FindsBlock(t, b, ns_dyn_mem_tracker_lib_find_block_index(t, b))
<1> DEFINE match == {i \in 0..last_mem_block_index : t[i].block = b}
           found == ScanFrom(match, 0)
<1>1. match \subseteq 0..last_mem_block_index
  OBVIOUS
<1>2. \A j \in DOMAIN t : t[j].block = b => j \in match
  BY UsedEntries
<1>3. \A j \in match : t[j].block = b
  OBVIOUS
<1> HIDE DEF match
<1>4. /\ found \in Int
      /\ found >= 0 => found \in match /\ found \in DOMAIN t
      /\ found < 0 => match = {}
  BY <1>1, EntryScan
<1> HIDE DEF found
<1>5. FindsBlock(t, b, found)
  BY <1>2, <1>3, <1>4 DEF FindsBlock
<1> QED BY <1>5 DEF ns_dyn_mem_tracker_lib_find_block_index, found, match

\* The search for a block in the extended table, from anywhere.
LEMMA ExtBlockFound ==
    ASSUME NEW x, ExtTable(x), NEW b, NEW start
    PROVE  FindsBlock(x, b, ns_dyn_mem_tracker_lib_ext_find_block_index(x, b, start))
<1> DEFINE match == {i \in DOMAIN x : x[i].block = b}
           found == ScanFrom(match, start)
<1>1. match \subseteq Nat /\ match \subseteq DOMAIN x
  BY RowsTyped, CountsAssumption DEF ExtTable
<1>2. \A j \in DOMAIN x : x[j].block = b => j \in match
  OBVIOUS
<1>3. \A j \in match : x[j].block = b
  OBVIOUS
<1> HIDE DEF match
<1>4. /\ match = {} => found = -1
      /\ match # {} => found \in match
      /\ found \in Int
  BY <1>1, ScanFinds
<1> HIDE DEF found
<1>5. FindsBlock(x, b, found)
  BY <1>1, <1>2, <1>3, <1>4 DEF FindsBlock
<1> QED BY <1>5 DEF ns_dyn_mem_tracker_lib_ext_find_block_index, found, match

\* A free row at i, or none.
FindsFree(t, i) ==
    /\ i \in Int
    /\ i >= 0 => i \in DOMAIN t /\ t[i].caller_addr = Null
    /\ i < 0 => \A j \in DOMAIN t : t[j].caller_addr # Null

\* The searches for a free row.
LEMMA FreeFound ==
    ASSUME NEW t, DOMAIN t \subseteq Nat, NEW start
    PROVE  /\ FindsFree(t, ns_dyn_mem_tracker_lib_find_free_index(t))
           /\ FindsFree(t, ns_dyn_mem_tracker_lib_ext_find_free_index(t, start))
<1> DEFINE match == {i \in DOMAIN t : t[i].caller_addr = Null}
<1>1. match \subseteq Nat /\ match \subseteq DOMAIN t
  OBVIOUS
<1>2. \A j \in DOMAIN t : t[j].caller_addr = Null => j \in match
  OBVIOUS
<1>3. \A j \in match : t[j].caller_addr = Null
  OBVIOUS
<1> HIDE DEF match
<1>4. ASSUME NEW s PROVE FindsFree(t, ScanFrom(match, s))
  <2> DEFINE found == ScanFrom(match, s)
  <2>1. /\ match = {} => found = -1
        /\ match # {} => found \in match
        /\ found \in Int
    BY <1>1, ScanFinds
  <2> HIDE DEF found
  <2>2. FindsFree(t, found)
    BY <1>1, <1>2, <1>3, <2>1 DEF FindsFree
  <2> QED BY <2>2 DEF found
<1> QED BY <1>4 DEF ns_dyn_mem_tracker_lib_find_free_index,
                    ns_dyn_mem_tracker_lib_ext_find_free_index, match

\* Entries stay apart when one is cleared or keeps its caller.
LEMMA EntriesPut ==
    ASSUME NEW t, NEW t2, NEW k, NEW i, NEW e, Entries(t, k), Puts(t, t2, i, e),
           \/ e.caller_addr = Null /\ e.block = Null
           \/ e.caller_addr = t[i].caller_addr /\ e.block \in {t[i].block, Null}
    PROVE  Entries(t2, k)
BY DEF Entries, Puts

\* And when a new caller gets a free one.
LEMMA EntriesNew ==
    ASSUME NEW t, NEW t2, NEW k \in Nat, NEW i \in Nat, NEW e, DOMAIN t \subseteq Nat,
           Entries(t, k), Puts(t, t2, i, e), e.caller_addr # Null,
           \A j \in DOMAIN t : t[j].caller_addr # e.caller_addr
    PROVE  Entries(t2, IF i > k THEN i ELSE k)
<1> DEFINE k2 == IF i > k THEN i ELSE k
<1>1. k2 \in Nat /\ i <= k2 /\ k <= k2
  OBVIOUS
<1>2. /\ i \in DOMAIN t /\ DOMAIN t2 = DOMAIN t /\ t2[i] = e
      /\ \A j \in DOMAIN t : j # i => t2[j] = t[j]
  BY DEF Puts
<1> HIDE DEF k2
<1>3. ASSUME NEW j \in DOMAIN t, j > k2 PROVE t2[j].caller_addr = Null
  <2>1. j \in Nat /\ j # i /\ j > k
    BY <1>1, <1>3
  <2> QED BY <1>2, <2>1 DEF Entries
<1>4. Entries(t2, k2)
  BY <1>2, <1>3 DEF Entries
<1> QED BY <1>4 DEF k2

\* Another block of a known caller is recorded.
LEMMA AllocNextStep ==
    ASSUME LedgerInv, ~lost, NEW c \in Caller, NEW b \in Block \ DOMAIN held,
           NEW size \in Sizes, mem_blocks # NoTable,
           NEW i, i \in DOMAIN mem_blocks, mem_blocks[i].caller_addr = c,
           NEW ext, ExtTable(ext), Blank(ext),
           Ledger(mem_blocks, ext, allocated_memory, held),
           AllocNext(i, ext, c, b, size)
    PROVE  LedgerInv'
<1>1. PICK free :
          /\ FindsFree(ext, free)
          /\ free >= 0
          /\ ext_mem_blocks' = [ext EXCEPT ![free] = NextRecord(b, c, size)]
          /\ mem_blocks' = [mem_blocks EXCEPT ![i] = Again(mem_blocks[i], size)]
          /\ Tracked(c, b, size)
          /\ UNCHANGED last_mem_block_index
  <2>1. DOMAIN ext \subseteq Nat
    BY RowsTyped, CountsAssumption DEF ExtTable
  <2>2. PICK start \in Starts(ext) :
          LET f == ns_dyn_mem_tracker_lib_ext_find_free_index(ext, start)
          IN  /\ f >= 0
              /\ ext_mem_blocks' = [ext EXCEPT ![f] =
                     [block |-> b, caller_addr |-> c, size |-> size]]
              /\ mem_blocks' = [mem_blocks EXCEPT ![i] = Again(mem_blocks[i], size)]
              /\ Tracked(c, b, size)
              /\ UNCHANGED last_mem_block_index
    BY DEF AllocNext
  <2>3. FindsFree(ext, ns_dyn_mem_tracker_lib_ext_find_free_index(ext, start))
    BY <2>1, FreeFound
  <2> QED BY <2>2, <2>3 DEF NextRecord
<1>2. free \in DOMAIN ext /\ ext[free].block = Null
  BY <1>1 DEF FindsFree, Blank
<1>3. /\ MemTable(mem_blocks) /\ Entries(mem_blocks, last_mem_block_index) /\ Held(held)
      /\ LastIndex(mem_blocks, last_mem_block_index, lost)
  BY DEF LedgerInv
<1>4. size \in UInt32Value
  BY WidthAssumption DEF UInt32Value
<1>5. mem_blocks[i] \in MemBlock
  BY <1>3, RowsTyped, CountsAssumption DEF MemTable
<1> DEFINE g == Again(mem_blocks[i], size)
           e == NextRecord(b, c, size)
<1>6. g \in MemBlock /\ e \in ExtBlock
  BY <1>4, <1>5, NewRows
<1>7. g.caller_addr = c /\ g.block = mem_blocks[i].block
  BY <1>5 DEF Again, MemBlock
<1>8. MemTable(mem_blocks') /\ Puts(mem_blocks, mem_blocks', i, g)
  BY <1>1, <1>3, <1>6, PutTable, CountsAssumption DEF MemTable
<1>9. ExtTable(ext_mem_blocks') /\ Puts(ext, ext_mem_blocks', free, e)
  BY <1>1, <1>2, <1>6, PutTable, CountsAssumption DEF ExtTable
<1>10. Tracked0(c, size) = [caller_addr |-> c, size |-> size, tracked |-> TRUE, age |-> 0]
  BY DEF Tracked0
<1>11. OneMore(held, held', b, Tracked0(c, size))
  <2>1. TRUE \in BOOLEAN /\ Holds(c, b, size, TRUE)
    BY <1>1 DEF Tracked
  <2> QED BY <1>3, <1>10, <2>1, HoldsOne
<1>12. Held(held') /\ Ledger(mem_blocks', ext_mem_blocks', Plus(allocated_memory, size), held')
  BY <1>2, <1>3, <1>8, <1>9, <1>11, AddNext
<1>13. allocated_memory' = Plus(allocated_memory, size) /\ Answered' /\ UNCHANGED lost
  BY <1>1, AnsweredNothing DEF Tracked
<1>14. Entries(mem_blocks', last_mem_block_index')
  BY <1>1, <1>3, <1>7, <1>8, EntriesPut
<1>15. Blank(ext_mem_blocks')
  <2>1. e.caller_addr = c /\ c # Null
    BY NullAssumption DEF NextRecord
  <2> QED BY <1>9, <2>1 DEF Blank, Puts
<1>16. LastIndex(mem_blocks', last_mem_block_index', lost')
  <2>1. DOMAIN mem_blocks' = DOMAIN mem_blocks /\ last_mem_block_index \in DOMAIN mem_blocks
    BY <1>3, <1>8 DEF Puts, LastIndex
  <2>2. mem_blocks' # NoTable
    BY <2>1, CountsAssumption, NoTableTyped
  <2> QED BY <1>1, <1>3, <2>1, <2>2 DEF LastIndex
<1>17. allocated_memory' \in UInt32Value
  BY <1>13, <1>4, CountsAssumption DEF LedgerInv, Plus, UInt32Value
<1>18. lost' \in BOOLEAN
  BY <1>13 DEF LedgerInv
<1> QED BY <1>8, <1>9, <1>12, <1>13, <1>14, <1>15, <1>16, <1>17, <1>18 DEF LedgerInv

\* It is not recorded.
LEMMA AllocNextFailsStep ==
    ASSUME LedgerInv, ~lost, NEW c \in Caller, NEW b \in Block \ DOMAIN held,
           NEW size \in Sizes, NEW old, NEW ext, ExtTable(ext),
           ext # NoTable \/ old = NoTable =>
               Blank(ext) /\ Ledger(mem_blocks, ext, allocated_memory, held),
           mem_blocks # NoTable, AllocNextFails(old, ext, c, b, size)
    PROVE  LedgerInv'
<1>1. /\ ext_mem_blocks' = ext /\ lost' = (ext = NoTable /\ old # NoTable)
      /\ Untracked(c, b, size) /\ mem_blocks' = mem_blocks
  BY DEF AllocNextFails
<1>2. /\ Held(held') /\ allocated_memory' = allocated_memory
      /\ last_mem_block_index' = last_mem_block_index /\ Answered'
  BY <1>1, GiveUpTyped
<1>3. Blank(ext)
  <2>1. Blank(NoTable)
    BY NoTableTyped, CountsAssumption DEF Blank
  <2> QED BY <2>1
<1>4. ASSUME ~lost' PROVE Ledger(mem_blocks', ext_mem_blocks', allocated_memory', held')
  <2>1. Ledger(mem_blocks, ext, allocated_memory, held)
    BY <1>1, <1>4
  <2> QED BY <1>1, <2>1, GiveUp
<1>5. /\ MemTable(mem_blocks') /\ Entries(mem_blocks', last_mem_block_index')
      /\ LastIndex(mem_blocks', last_mem_block_index', lost')
  BY <1>1, <1>2 DEF LedgerInv, LastIndex
<1>6. lost' \in BOOLEAN
  BY <1>1
<1> QED BY <1>1, <1>2, <1>3, <1>4, <1>5, <1>6 DEF LedgerInv

\* A known caller gets another block.
LEMMA AllocKnownCallerStep ==
    ASSUME LedgerInv, ~lost, NEW c \in Caller, NEW b \in Block \ DOMAIN held,
           NEW size \in Sizes, AllocKnownCaller(c, b, size)
    PROVE  LedgerInv'
<1> DEFINE i == ns_dyn_mem_tracker_lib_find_caller_index(mem_blocks, c)
           max == ExtBlocksMax
<1>1. /\ MemTable(mem_blocks) /\ Entries(mem_blocks, last_mem_block_index)
      /\ ExtTable(ext_mem_blocks) /\ Blank(ext_mem_blocks)
      /\ Ledger(mem_blocks, ext_mem_blocks, allocated_memory, held)
      /\ LastIndex(mem_blocks, last_mem_block_index, lost)
  BY DEF LedgerInv
<1>2. mem_blocks # NoTable /\ i >= 0 /\ c # Null
  BY NullAssumption DEF AllocKnownCaller
<1>3. FindsCaller(mem_blocks, c, i)
  BY <1>1, <1>2, CallerFound DEF LastIndex
<1>4. i \in DOMAIN mem_blocks /\ mem_blocks[i].caller_addr = c
  BY <1>2, <1>3 DEF FindsCaller
<1>5. PICK ext \in Made(ext_mem_blocks, max, EmptyExtBlock) :
          \/ AllocNext(i, ext, c, b, size)
          \/ ext = NoTable /\ AllocNextFails(NoTable, ext, c, b, size)
          \/ /\ ext # NoTable
             /\ \E more \in Grown(ext, max, EmptyExtBlock) :
                  \/ AllocNext(i, more, c, b, size)
                  \/ AllocNextFails(ext, more, c, b, size)
  BY DEF AllocKnownCaller
<1> HIDE DEF i
<1>6. max \in Nat /\ EmptyExtBlock \in ExtBlock
  BY CountsAssumption, NewRows
<1>7. ExtTable(ext) /\ Longer(ext_mem_blocks, ext, EmptyExtBlock)
  BY <1>1, <1>6, MadeTable DEF ExtTable
<1>8. Blank(ext) /\ Ledger(mem_blocks, ext, allocated_memory, held)
  BY <1>1, <1>7, LongerExt
<1>9. CASE AllocNext(i, ext, c, b, size)
  BY <1>2, <1>4, <1>7, <1>8, <1>9, AllocNextStep
<1>10. CASE ext = NoTable /\ AllocNextFails(NoTable, ext, c, b, size)
  BY <1>2, <1>7, <1>8, <1>10, AllocNextFailsStep
<1>11. ASSUME ext # NoTable, NEW more \in Grown(ext, max, EmptyExtBlock),
              \/ AllocNext(i, more, c, b, size)
              \/ AllocNextFails(ext, more, c, b, size)
       PROVE  LedgerInv'
  <2>1. /\ ExtTable(more)
        /\ more # NoTable => Longer(ext, more, EmptyExtBlock)
    BY <1>6, <1>7, GrownTable DEF ExtTable
  <2>2. more # NoTable => Blank(more) /\ Ledger(mem_blocks, more, allocated_memory, held)
    BY <1>8, <2>1, LongerExt
  <2>3. CASE AllocNext(i, more, c, b, size)
    <3>1. more # NoTable
      <4>1. DOMAIN more \subseteq Nat
        BY <2>1, RowsTyped, CountsAssumption DEF ExtTable
      <4>2. PICK start : ns_dyn_mem_tracker_lib_ext_find_free_index(more, start) >= 0
        BY <2>3 DEF AllocNext
      <4>3. FindsFree(more, ns_dyn_mem_tracker_lib_ext_find_free_index(more, start))
        BY <4>1, FreeFound
      <4>4. DOMAIN more # {}
        BY <4>2, <4>3 DEF FindsFree
      <4> QED BY <4>4, NoTableTyped, CountsAssumption
    <3> QED BY <1>2, <1>4, <2>1, <2>2, <2>3, <3>1, AllocNextStep
  <2>4. CASE AllocNextFails(ext, more, c, b, size)
    BY <1>2, <1>11, <2>1, <2>2, <2>4, AllocNextFailsStep
  <2> QED BY <1>11, <2>3, <2>4
<1> QED BY <1>5, <1>9, <1>10, <1>11

\* The first block of a caller is recorded in table t.
LEMMA AllocFirstStep ==
    ASSUME LedgerInv, ~lost, NEW c \in Caller, NEW b \in Block \ DOMAIN held,
           NEW size \in Sizes, NEW t, MemTable(t), Entries(t, last_mem_block_index),
           Ledger(t, ext_mem_blocks, allocated_memory, held),
           last_mem_block_index \in DOMAIN t \/ last_mem_block_index = 0,
           \A j \in DOMAIN t : t[j].caller_addr # c,
           AllocFirst(t, c, b, size)
    PROVE  LedgerInv'
<1> DEFINE k == last_mem_block_index
           e == FirstEntry(b, c, size)
           free == ns_dyn_mem_tracker_lib_find_free_index(t)
<1>1. DOMAIN t \subseteq Nat
  BY RowsTyped, CountsAssumption DEF MemTable
<1>2. FindsFree(t, free)
  BY <1>1, FreeFound
<1>3. /\ free >= 0
      /\ mem_blocks' = [t EXCEPT ![free] = e]
      /\ last_mem_block_index' = IF free > k THEN free ELSE k
      /\ Tracked(c, b, size) /\ ext_mem_blocks' = ext_mem_blocks
  BY DEF AllocFirst, FirstEntry
<1> HIDE DEF free
<1>4. free \in DOMAIN t /\ free \in Nat /\ t[free].caller_addr = Null /\ t[free].block = Null
  BY <1>1, <1>2, <1>3 DEF FindsFree, Entries
<1>5. Held(held) /\ k \in Nat
  BY DEF LedgerInv, LastIndex
<1>6. e \in MemBlock /\ e.caller_addr = c /\ c # Null
  BY NewRows, NullAssumption DEF FirstEntry
<1> HIDE DEF e
<1>7. MemTable(mem_blocks') /\ Puts(t, mem_blocks', free, e)
  BY <1>3, <1>4, <1>6, PutTable, CountsAssumption DEF MemTable
<1>8. Tracked0(c, size) = [caller_addr |-> c, size |-> size, tracked |-> TRUE, age |-> 0]
  BY DEF Tracked0
<1>9. OneMore(held, held', b, Tracked0(c, size))
  <2>1. TRUE \in BOOLEAN /\ Holds(c, b, size, TRUE)
    BY <1>3 DEF Tracked
  <2> QED BY <1>5, <1>8, <2>1, HoldsOne
<1>10. Held(held') /\ Ledger(mem_blocks', ext_mem_blocks, Plus(allocated_memory, size), held')
  BY <1>4, <1>5, <1>7, <1>9, AddFirst DEF e
<1>11. allocated_memory' = Plus(allocated_memory, size) /\ Answered' /\ UNCHANGED lost
  BY <1>3, AnsweredNothing DEF Tracked
<1>12. Entries(mem_blocks', last_mem_block_index')
  BY <1>1, <1>3, <1>4, <1>5, <1>6, <1>7, EntriesNew
<1>13. LastIndex(mem_blocks', last_mem_block_index', lost')
  <2>1. DOMAIN mem_blocks' = DOMAIN t
    BY <1>7 DEF Puts
  <2>2. mem_blocks' # NoTable
    BY <1>4, <2>1, CountsAssumption, NoTableTyped
  <2>3. last_mem_block_index' \in DOMAIN t /\ last_mem_block_index' \in Nat
    <3>1. CASE k \in DOMAIN t
      BY <1>3, <1>4, <1>5, <3>1
    <3>2. CASE k = 0
      BY <1>3, <1>4, <3>2
    <3> QED BY <3>1, <3>2
  <2> QED BY <2>1, <2>2, <2>3 DEF LastIndex
<1>14. allocated_memory' \in UInt32Value
  <2>1. size \in UInt32Value /\ allocated_memory \in UInt32Value
    BY WidthAssumption DEF UInt32Value, LedgerInv
  <2> QED BY <1>11, <2>1, CountsAssumption DEF Plus, UInt32Value
<1>15. ExtTable(ext_mem_blocks') /\ Blank(ext_mem_blocks') /\ lost' \in BOOLEAN
  BY <1>3, <1>11 DEF LedgerInv
<1> QED BY <1>3, <1>7, <1>10, <1>11, <1>12, <1>13, <1>14, <1>15 DEF LedgerInv

\* It is not recorded.
LEMMA AllocFirstFailsStep ==
    ASSUME LedgerInv, ~lost, NEW c \in Caller, NEW b \in Block \ DOMAIN held,
           NEW size \in Sizes, NEW t, MemTable(t),
           t # NoTable => /\ Entries(t, last_mem_block_index)
                          /\ last_mem_block_index \in DOMAIN t
                          /\ Ledger(t, ext_mem_blocks, allocated_memory, held),
           AllocFirstFails(t, c, b, size)
    PROVE  LedgerInv'
<1>1. /\ mem_blocks' = t /\ lost' = (t = NoTable)
      /\ Untracked(c, b, size) /\ ext_mem_blocks' = ext_mem_blocks
  BY DEF AllocFirstFails
<1>2. /\ Held(held') /\ allocated_memory' = allocated_memory
      /\ last_mem_block_index' = last_mem_block_index /\ Answered'
  BY <1>1, GiveUpTyped
<1>3. Entries(t, last_mem_block_index)
  <2>1. Entries(NoTable, last_mem_block_index)
    BY NoTableTyped, CountsAssumption DEF Entries
  <2> QED BY <2>1
<1>4. ASSUME ~lost' PROVE Ledger(mem_blocks', ext_mem_blocks', allocated_memory', held')
  <2>1. Ledger(t, ext_mem_blocks, allocated_memory, held)
    BY <1>1, <1>4
  <2> QED BY <1>1, <2>1, GiveUp
<1>5. LastIndex(mem_blocks', last_mem_block_index', lost') /\ lost' \in BOOLEAN
  BY <1>1, <1>2 DEF LedgerInv, LastIndex
<1>6. ExtTable(ext_mem_blocks') /\ Blank(ext_mem_blocks') /\ allocated_memory' \in UInt32Value
  BY <1>1, <1>2 DEF LedgerInv
<1> QED BY <1>1, <1>2, <1>3, <1>4, <1>5, <1>6 DEF LedgerInv

\* A new caller gets its first block.
LEMMA AllocNewCallerStep ==
    ASSUME LedgerInv, ~lost, NEW c \in Caller, NEW b \in Block \ DOMAIN held,
           NEW size \in Sizes, AllocNewCaller(c, b, size)
    PROVE  LedgerInv'
<1> DEFINE max == MemBlocksMax
           k == last_mem_block_index
           a == allocated_memory
           x == ext_mem_blocks
<1>1. /\ MemTable(mem_blocks) /\ Entries(mem_blocks, k) /\ Held(held)
      /\ Ledger(mem_blocks, x, a, held) /\ LastIndex(mem_blocks, k, lost)
  BY DEF LedgerInv
<1>2. PICK t \in Made(mem_blocks, max, EmptyMemBlock) :
        /\ t # NoTable
        /\ ns_dyn_mem_tracker_lib_find_caller_index(t, c) < 0
        /\ \/ AllocFirst(t, c, b, size)
           \/ \E more \in Grown(t, max, EmptyMemBlock) :
                   \/ AllocFirst(more, c, b, size)
                   \/ AllocFirstFails(more, c, b, size)
  BY DEF AllocNewCaller
<1>3. max \in Nat /\ EmptyMemBlock \in MemBlock /\ EmptyMemBlock.caller_addr = Null /\ c # Null
  BY CountsAssumption, NewRows, NullAssumption DEF EmptyMemBlock
<1>4. MemTable(t) /\ Longer(mem_blocks, t, EmptyMemBlock)
  BY <1>1, <1>3, MadeTable DEF MemTable
<1>5. Entries(t, k) /\ Ledger(t, x, a, held)
  BY <1>1, <1>4, LongerEntries, LongerLedger
<1>6. k \in DOMAIN t
  <2>1. CASE mem_blocks # NoTable
    BY <1>1, <1>4, <2>1 DEF LastIndex, Longer
  <2>2. CASE mem_blocks = NoTable
    <3>1. k = 0
      BY <1>1, <2>2 DEF LastIndex
    <3>2. PICK n \in 0..max : DOMAIN t = 0..(n - 1) /\ n # 0
      BY <1>2, <1>3, <1>4, TableDomain DEF MemTable
    <3> QED BY <1>3, <3>1, <3>2
  <2> QED BY <2>1, <2>2
<1>7. \A j \in DOMAIN t : t[j].caller_addr # c
  BY <1>2, <1>3, <1>4, <1>5, <1>6, CallerFound DEF FindsCaller
<1>8. CASE AllocFirst(t, c, b, size)
  BY <1>4, <1>5, <1>6, <1>7, <1>8, AllocFirstStep
<1>9. ASSUME NEW more \in Grown(t, max, EmptyMemBlock),
             AllocFirst(more, c, b, size) \/ AllocFirstFails(more, c, b, size)
      PROVE  LedgerInv'
  <2>1. MemTable(more) /\ (more # NoTable => Longer(t, more, EmptyMemBlock))
    BY <1>3, <1>4, GrownTable DEF MemTable
  <2>2. more # NoTable => /\ Entries(more, k) /\ Ledger(more, x, a, held)
                          /\ k \in DOMAIN more
    BY <1>1, <1>5, <1>6, <2>1, LongerEntries, LongerLedger DEF Longer
  <2>3. CASE AllocFirst(more, c, b, size)
    <3>1. more # NoTable
      <4>1. DOMAIN more \subseteq Nat
        BY <2>1, RowsTyped, CountsAssumption DEF MemTable
      <4>2. FindsFree(more, ns_dyn_mem_tracker_lib_find_free_index(more))
        BY <4>1, FreeFound
      <4>3. DOMAIN more # {}
        BY <2>3, <4>2 DEF FindsFree, AllocFirst
      <4> QED BY <4>3, NoTableTyped, CountsAssumption
    <3>2. \A j \in DOMAIN more : more[j].caller_addr # c
      BY <1>3, <1>7, <2>1, <3>1 DEF Longer
    <3> QED BY <2>1, <2>2, <2>3, <3>1, <3>2, AllocFirstStep
  <2>4. CASE AllocFirstFails(more, c, b, size)
    BY <2>1, <2>2, <2>4, AllocFirstFailsStep
  <2> QED BY <1>9, <2>3, <2>4
<1> QED BY <1>2, <1>8, <1>9

-----------------------------------------------------------------------------
(* ns_dyn_mem_tracker_lib_free *)

\* A block is no longer in use.
LEMMA ReleasesOne ==
    ASSUME Held(held), NEW b \in DOMAIN held, Releases(b)
    PROVE  /\ b \in Block /\ b # Null /\ Held(held')
           /\ OneMore(held', held, b, held[b])
           /\ ~held[b].tracked => /\ SameTracked(held, held')
                                  /\ \A y \in Tracking(held) : held'[y].age = held[y].age
<1>1. b \in Block /\ b # Null
  BY NullAssumption DEF Held
<1>2. DOMAIN held' = DOMAIN held \ {b} /\ \A y \in DOMAIN held' : held'[y] = held[y]
  BY DEF Releases
<1>3. Held(held')
  BY <1>2 DEF Held
<1>4. OneMore(held', held, b, held[b])
  BY <1>2 DEF OneMore
<1>5. ~held[b].tracked => Tracking(held') = Tracking(held)
  BY <1>2 DEF Tracking
<1>6. ~held[b].tracked => \A y \in Tracking(held) : held'[y] = held[y]
  BY <1>2 DEF Tracking
<1> QED BY <1>1, <1>3, <1>4, <1>5, <1>6 DEF SameTracked

\* The call says whether the block was recorded.
FreeTells(b) == ~lost => (last'.rc = 0 <=> held[b].tracked)

\* Before there is a table nothing is recorded.
LEMMA FreeNoTableStep ==
    ASSUME LedgerInv, NEW b \in DOMAIN held, Releases(b), UNCHANGED lost, FreeNoTable(b)
    PROVE  LedgerInv'
<1>1. mem_blocks = NoTable /\ Returns("free", 0) /\ UNCHANGED tables
  BY DEF FreeNoTable
<1>2. Held(held) /\ (~lost => Ledger(mem_blocks, ext_mem_blocks, allocated_memory, held))
  BY DEF LedgerInv
<1>3. ASSUME ~lost
      PROVE  Ledger(mem_blocks, ext_mem_blocks, allocated_memory, held')
  <2>1. DOMAIN mem_blocks = {}
    BY <1>1, NoTableTyped, CountsAssumption
  <2>2. Ledger(mem_blocks, ext_mem_blocks, allocated_memory, held)
    BY <1>2, <1>3
  <2>3. Tracking(held) = {}
    BY <2>1, <2>2 DEF Ledger, HasEntry
  <2>4. ~held[b].tracked
    BY <2>3 DEF Tracking
  <2>5. /\ Held(held') /\ SameTracked(held, held')
        /\ \A y \in Tracking(held) : held'[y].age = held[y].age
    BY <1>2, <2>4, ReleasesOne
  <2> QED BY <1>2, <2>2, <2>5, UntrackedLedger
<1>4. Held(held')
  BY <1>2, ReleasesOne
<1>5. Answered'
  BY <1>1, AnsweredNothing
<1> QED BY <1>1, <1>3, <1>4, <1>5 DEF LedgerInv, tables

\* A block that was not recorded is freed.
LEMMA FreeUnknownStep ==
    ASSUME LedgerInv, NEW b \in DOMAIN held, Releases(b), UNCHANGED lost,
           mem_blocks # NoTable, FreeUnknown(b)
    PROVE  LedgerInv' /\ FreeTells(b)
<1> DEFINE t == mem_blocks
           x == ext_mem_blocks
           k == last_mem_block_index
<1>1. /\ ns_dyn_mem_tracker_lib_find_block_index(t, b) < 0
      /\ Returns("free", -1) /\ UNCHANGED tables
  BY DEF FreeUnknown
<1>2. PICK start : \A e \in DOMAIN x : ~FoundExt(b, start, e)
  BY DEF FreeUnknown
<1>3. /\ Held(held) /\ MemTable(t) /\ ExtTable(x) /\ Entries(t, k) /\ LastIndex(t, k, lost)
      /\ ~lost => Ledger(t, x, allocated_memory, held)
  BY DEF LedgerInv
<1>4. b # Null /\ Held(held')
  BY <1>3, ReleasesOne
<1>5. ASSUME ~lost PROVE ~held[b].tracked
  <2>1. Ledger(t, x, allocated_memory, held)
    BY <1>3, <1>5
  <2> SUFFICES ASSUME b \in Tracking(held) PROVE FALSE
    BY DEF Tracking
  <2>2. \A j \in DOMAIN t : t[j].block # b
    BY <1>1, <1>3, <1>4, BlockFound DEF FindsBlock, LastIndex
  <2>3. PICK j \in DOMAIN x : x[j].block = b
    BY <2>1, <2>2 DEF Ledger, Records, AllThere
  <2> DEFINE e == ns_dyn_mem_tracker_lib_ext_find_block_index(x, b, start)
  <2>4. FindsBlock(x, b, e)
    BY <1>3, ExtBlockFound
  <2> HIDE DEF e
  <2>5. e \in DOMAIN x /\ x[e].block = b
    BY <2>3, <2>4 DEF FindsBlock
  <2>6. x[e].caller_addr = held[b].caller_addr /\ held[b].caller_addr # Null
    BY <1>3, <1>4, <2>1, <2>5, OwnersAreCallers DEF Ledger, Records, TrueRows
  <2>7. PICK i \in DOMAIN t : t[i].caller_addr = x[e].caller_addr
    BY <2>1, <2>6 DEF Ledger, HasEntry
  <2>8. FindsCaller(t, x[e].caller_addr, CallerOfExt(e))
    BY <1>3, <2>6, CallerFound DEF LastIndex, CallerOfExt
  <2>9. CallerOfExt(e) >= 0
    BY <2>7, <2>8 DEF FindsCaller
  <2>10. FoundExt(b, start, e)
    BY <1>1, <2>9 DEF FoundExt, e
  <2> QED BY <1>2, <2>5, <2>10
<1>6. ASSUME ~lost
      PROVE  Ledger(t, x, allocated_memory, held')
  <2>1. ~held[b].tracked /\ Ledger(t, x, allocated_memory, held)
    BY <1>3, <1>5, <1>6
  <2>2. /\ SameTracked(held, held')
        /\ \A y \in Tracking(held) : held'[y].age = held[y].age
    BY <1>3, <2>1, ReleasesOne
  <2> QED BY <1>3, <1>4, <2>1, <2>2, UntrackedLedger
<1>7. Answered' /\ last'.rc = -1
  BY <1>1, AnsweredNothing
<1> QED BY <1>1, <1>4, <1>5, <1>6, <1>7 DEF LedgerInv, tables, FreeTells

\* The block of an entry is freed.
LEMMA FreeFirstStep ==
    ASSUME LedgerInv, NEW b \in DOMAIN held, Releases(b), UNCHANGED lost,
           mem_blocks # NoTable, FreeFirst(b)
    PROVE  LedgerInv' /\ FreeTells(b)
<1> DEFINE t == mem_blocks
           x == ext_mem_blocks
           k == last_mem_block_index
           a == allocated_memory
           i == ns_dyn_mem_tracker_lib_find_block_index(t, b)
<1>1. /\ i >= 0 /\ allocated_memory' = Minus(a, t[i].size)
      /\ mem_blocks' = [t EXCEPT ![i] = FirstFreed(t[i])]
      /\ Returns("free", 0) /\ ext_mem_blocks' = x /\ last_mem_block_index' = k
  BY DEF FreeFirst
<1>2. /\ Held(held) /\ MemTable(t) /\ ExtTable(x) /\ Entries(t, k) /\ LastIndex(t, k, lost)
      /\ ~lost => Ledger(t, x, a, held)
  BY DEF LedgerInv
<1>3. b \in Block /\ b # Null /\ Held(held') /\ OneMore(held', held, b, held[b])
  BY <1>2, ReleasesOne
<1>4. FindsBlock(t, b, i)
  BY <1>2, <1>3, BlockFound DEF LastIndex
<1> HIDE DEF i
<1>5. i \in DOMAIN t /\ t[i].block = b
  BY <1>1, <1>4 DEF FindsBlock
<1>6. t[i] \in MemBlock
  BY <1>2, <1>5, RowsTyped, CountsAssumption DEF MemTable
<1> DEFINE g == FirstFreed(t[i])
<1>7. g \in MemBlock
  <2>1. 0 \in UInt32Value
    BY CountsAssumption DEF UInt32Value
  <2> QED BY <1>6, <2>1, NewRows
<1>8. /\ g.block = Null
      /\ g.caller_addr = Null \/ g.caller_addr = t[i].caller_addr
  BY <1>6 DEF FirstFreed, EmptyMemBlock, MemBlock
<1> HIDE DEF g
<1>9. MemTable(mem_blocks') /\ Puts(t, mem_blocks', i, g)
  BY <1>1, <1>2, <1>5, <1>7, PutTable, CountsAssumption DEF MemTable, g
<1>10. Entries(mem_blocks', k)
  BY <1>2, <1>8, <1>9, EntriesPut
<1>11. ~lost => held[b].tracked /\ Ledger(mem_blocks', x, Minus(a, t[i].size), held')
  BY <1>2, <1>3, <1>5, <1>9, DropFirst DEF g
<1>12. Answered' /\ last'.rc = 0
  BY <1>1, AnsweredNothing
<1>13. allocated_memory' \in UInt32Value
  <2>1. t[i].size \in UInt32Value /\ a \in UInt32Value
    BY <1>6 DEF MemBlock, LedgerInv
  <2> QED BY <1>1, <2>1, CountsAssumption DEF Minus, UInt32Value
<1>14. LastIndex(mem_blocks', k, lost)
  <2>1. DOMAIN mem_blocks' = DOMAIN t
    BY <1>9 DEF Puts
  <2>2. mem_blocks' # NoTable
    BY <1>5, <2>1, CountsAssumption, NoTableTyped
  <2> QED BY <1>2, <2>1, <2>2 DEF LastIndex
<1>15. Blank(x) /\ lost' = lost /\ lost \in BOOLEAN
  BY DEF LedgerInv
<1> QED BY <1>1, <1>2, <1>3, <1>9, <1>10, <1>11, <1>12, <1>13, <1>14, <1>15
        DEF LedgerInv, FreeTells

\* Two fields of an entry are written.
LEMMA LessTable ==
    ASSUME NEW t, MemTable(t), NEW i, i \in DOMAIN t, NEW size \in UInt32Value
    PROVE  LET less == [t EXCEPT ![i].ref_count = Minus(@, 1),
                                 ![i].total_size = Minus(@, size)]
           IN  MemTable(less) /\ Puts(t, less, i, OneLess(t[i], size))
<1> DEFINE e == t[i]
           one == [e EXCEPT !.ref_count = Minus(@, 1)]
           two == [one EXCEPT !.total_size = Minus(@, size)]
           t1 == [t EXCEPT ![i] = one]
           less == [t1 EXCEPT ![i] = two]
<1>1. t[i] \in MemBlock
  BY RowsTyped, CountsAssumption DEF MemTable
<1>2. two = OneLess(e, size) /\ OneLess(e, size) \in MemBlock
  BY <1>1, NewRows DEF OneLess
<1>3. one \in MemBlock
  <2>1. Minus(e.ref_count, 1) \in UInt32Value
    BY <1>1, CountsAssumption DEF MemBlock, Minus, UInt32Value
  <2> QED BY <1>1, <2>1 DEF MemBlock
<1> HIDE DEF one, two
<1>4. MemTable(t1) /\ Puts(t, t1, i, one) /\ i \in DOMAIN t1
  BY <1>3, PutTable, CountsAssumption DEF MemTable
<1>5. MemTable(less) /\ Puts(t1, less, i, two)
  BY <1>2, <1>4, PutTable, CountsAssumption DEF MemTable
<1>6. Puts(t, less, i, two)
  BY <1>4, <1>5 DEF Puts
<1>7. t1[i] = one
  BY <1>4 DEF Puts
<1>8. [t EXCEPT ![i].ref_count = Minus(@, 1), ![i].total_size = Minus(@, size)] = less
  BY <1>7 DEF one, two
<1> QED BY <1>2, <1>5, <1>6, <1>8

\* A further block of a caller is freed.
LEMMA FreeNextStep ==
    ASSUME LedgerInv, NEW b \in DOMAIN held, Releases(b), UNCHANGED lost,
           mem_blocks # NoTable, FreeNext(b)
    PROVE  LedgerInv' /\ FreeTells(b)
<1> DEFINE t == mem_blocks
           x == ext_mem_blocks
           k == last_mem_block_index
           a == allocated_memory
           Less(i, size) == [t EXCEPT ![i].ref_count = Minus(@, 1),
                                      ![i].total_size = Minus(@, size)]
<1>1. PICK start \in Starts(x), e \in DOMAIN x :
          /\ FoundExt(b, start, e)
          /\ mem_blocks' = [Less(CallerOfExt(e), x[e].size) EXCEPT
                                ![0] = ResetEntry(Less(CallerOfExt(e), x[e].size)[0])]
          /\ ext_mem_blocks' = [x EXCEPT ![e] = EmptyExtBlock]
          /\ allocated_memory' = Minus(a, x[e].size)
          /\ Returns("free", 0)
          /\ last_mem_block_index' = k
  BY DEF FreeNext, ExtFreed
<1> DEFINE i == CallerOfExt(e)
           less == Less(i, x[e].size)
<1>2. /\ Held(held) /\ MemTable(t) /\ ExtTable(x) /\ Entries(t, k) /\ LastIndex(t, k, lost)
      /\ Blank(x)
      /\ ~lost => Ledger(t, x, a, held)
  BY DEF LedgerInv
<1>3. b \in Block /\ b # Null /\ Held(held') /\ OneMore(held', held, b, held[b])
  BY <1>2, ReleasesOne
<1>4. FindsBlock(x, b, e) /\ i >= 0
  BY <1>1, <1>2, ExtBlockFound DEF FoundExt
<1>5. x[e] \in ExtBlock /\ e \in Nat
  BY <1>1, <1>2, RowsTyped, CountsAssumption DEF ExtTable
<1>6. x[e].block = b /\ x[e].size \in UInt32Value /\ x[e].caller_addr # Null
  BY <1>1, <1>2, <1>3, <1>4, <1>5 DEF FindsBlock, ExtBlock, Blank
<1>7. FindsCaller(t, x[e].caller_addr, i)
  BY <1>2, <1>6, CallerFound DEF LastIndex, CallerOfExt
<1> HIDE DEF i
<1>8. i \in DOMAIN t /\ t[i].caller_addr = x[e].caller_addr
  BY <1>4, <1>7 DEF FindsCaller
<1>9. MemTable(less) /\ Puts(t, less, i, OneLess(t[i], x[e].size))
  BY <1>2, <1>6, <1>8, LessTable
<1>10. mem_blocks' = [less EXCEPT ![0] = ResetEntry(less[0])]
  BY <1>1 DEF i
<1> HIDE DEF less, Less
<1>11. t[i] \in MemBlock
  BY <1>2, <1>8, RowsTyped, CountsAssumption DEF MemTable
<1>12. /\ OneLess(t[i], x[e].size).caller_addr = t[i].caller_addr
       /\ OneLess(t[i], x[e].size).block = t[i].block
  BY <1>11 DEF OneLess, MemBlock
<1>13. Entries(less, k)
  BY <1>2, <1>9, <1>12, EntriesPut
<1>14. EmptyExtBlock \in ExtBlock /\ EmptyExtBlock.block = Null
  BY NewRows DEF EmptyExtBlock
<1>15. ExtTable(ext_mem_blocks') /\ Puts(x, ext_mem_blocks', e, EmptyExtBlock)
  BY <1>1, <1>2, <1>14, PutTable, CountsAssumption DEF ExtTable
<1>16. Blank(ext_mem_blocks')
  BY <1>2, <1>14, <1>15 DEF Blank, Puts
<1>17. ~lost => held[b].tracked /\ Ledger(less, ext_mem_blocks', Minus(a, x[e].size), held')
  BY <1>1, <1>2, <1>3, <1>6, <1>8, <1>9, <1>15, DropNext
<1>18. 0 \in DOMAIN less /\ DOMAIN less = DOMAIN t
  <2>1. 0 \in DOMAIN t
    BY <1>2, UsedEntries DEF LastIndex
  <2> QED BY <1>9, <2>1 DEF Puts
<1>19. ResetEntry(less[0]) \in MemBlock
  <2>1. less[0] \in MemBlock
    BY <1>9, <1>18, RowsTyped, CountsAssumption DEF MemTable
  <2> QED BY <1>6, <2>1, NewRows
<1>20. MemTable(mem_blocks') /\ Puts(less, mem_blocks', 0, ResetEntry(less[0]))
  BY <1>9, <1>10, <1>18, <1>19, PutTable, CountsAssumption DEF MemTable
<1>21. Entries(mem_blocks', k)
  BY <1>3, <1>9, <1>13, <1>18, <1>20, ResetLedger
<1>22. ~lost => Ledger(mem_blocks', ext_mem_blocks', Minus(a, x[e].size), held')
  BY <1>3, <1>9, <1>17, <1>18, <1>20, ResetLedger
<1>23. Answered' /\ last'.rc = 0
  BY <1>1, AnsweredNothing
<1>24. allocated_memory' \in UInt32Value
  <2>1. a \in UInt32Value
    BY DEF LedgerInv
  <2> QED BY <1>1, <1>6, <2>1, CountsAssumption DEF Minus, UInt32Value
<1>25. LastIndex(mem_blocks', k, lost)
  <2>1. DOMAIN mem_blocks' = DOMAIN t
    BY <1>18, <1>20 DEF Puts
  <2>2. mem_blocks' # NoTable
    BY <1>18, <2>1, CountsAssumption, NoTableTyped
  <2> QED BY <1>2, <2>1, <2>2 DEF LastIndex
<1>26. lost' = lost /\ lost \in BOOLEAN
  BY DEF LedgerInv
<1> QED BY <1>1, <1>3, <1>15, <1>16, <1>17, <1>20, <1>21, <1>22, <1>23, <1>24, <1>25, <1>26
        DEF LedgerInv, FreeTells

\* Any call of ns_dyn_mem_tracker_lib_free.
LEMMA FreeStep ==
    ASSUME LedgerInv, NEW b \in DOMAIN held, ns_dyn_mem_tracker_lib_free(b)
    PROVE  LedgerInv' /\ (mem_blocks # NoTable => FreeTells(b))
<1>1. Releases(b) /\ UNCHANGED lost
  BY DEF ns_dyn_mem_tracker_lib_free
<1>2. CASE FreeNoTable(b)
  BY <1>1, <1>2, FreeNoTableStep DEF FreeNoTable
<1>3. CASE mem_blocks # NoTable /\ FreeFirst(b)
  BY <1>1, <1>3, FreeFirstStep
<1>4. CASE mem_blocks # NoTable /\ FreeNext(b)
  BY <1>1, <1>4, FreeNextStep
<1>5. CASE mem_blocks # NoTable /\ FreeUnknown(b)
  BY <1>1, <1>5, FreeUnknownStep
<1> QED BY <1>2, <1>3, <1>4, <1>5 DEF ns_dyn_mem_tracker_lib_free

\* Any call of ns_dyn_mem_tracker_lib_alloc.
LEMMA AllocStep ==
    ASSUME LedgerInv, NEW c \in Caller, NEW b \in Block, NEW size \in Sizes,
           ns_dyn_mem_tracker_lib_alloc(c, b, size)
    PROVE  LedgerInv' /\ DOMAIN held \subseteq DOMAIN held'
<1>1. ~lost /\ b \in Block \ DOMAIN held
  BY DEF ns_dyn_mem_tracker_lib_alloc
<1>2. DOMAIN held \subseteq DOMAIN held'
  <2>1. \E tracked : Holds(c, b, size, tracked)
    BY DEF ns_dyn_mem_tracker_lib_alloc, AllocNoTable, AllocKnownCaller, AllocNewCaller,
           AllocNext, AllocNextFails, AllocFirst, AllocFirstFails, Tracked, Untracked
  <2> QED BY <2>1 DEF Holds
<1>3. CASE AllocNoTable(c, b, size)
  BY <1>1, <1>2, <1>3, AllocNoTableStep
<1>4. CASE AllocKnownCaller(c, b, size)
  BY <1>1, <1>2, <1>4, AllocKnownCallerStep
<1>5. CASE AllocNewCaller(c, b, size)
  BY <1>1, <1>2, <1>5, AllocNewCallerStep
<1> QED BY <1>2, <1>3, <1>4, <1>5 DEF ns_dyn_mem_tracker_lib_alloc

-----------------------------------------------------------------------------
(* ns_dyn_mem_tracker_lib_step *)

\* A table whose entries change.
LEMMA ChangedTable ==
    ASSUME NEW t, MemTable(t), NEW t2, DOMAIN t2 = DOMAIN t,
           t2 = [i \in DOMAIN t2 |-> t2[i]], \A i \in DOMAIN t : t2[i] \in MemBlock
    PROVE  /\ MemTable(t2)
           /\ t2 = NoTable <=> t = NoTable
           /\ \A k, gone : LastIndex(t, k, gone) => LastIndex(t2, k, gone)
<1>1. PICK n \in 0..MemBlocksMax : DOMAIN t = 0..(n - 1) /\ (n = 0 <=> t = NoTable)
  BY TableDomain, CountsAssumption DEF MemTable
<1>2. t2 \in [0..(n - 1) -> MemBlock]
  BY <1>1
<1>3. MemTable(t2)
  BY <1>2 DEF MemTable, IsTable
<1>4. DOMAIN NoTable = {}
  BY NoTableTyped, CountsAssumption
<1>5. t = NoTable => t2 = NoTable
  <2> SUFFICES ASSUME t = NoTable PROVE t2 = NoTable
    OBVIOUS
  <2>1. DOMAIN t2 = {}
    BY <1>4
  <2>2. PICK m \in 0..MemBlocksMax : DOMAIN t2 = 0..(m - 1) /\ (m = 0 <=> t2 = NoTable)
    BY <1>3, TableDomain, CountsAssumption DEF MemTable
  <2>3. m # 0 => 0 \in 0..(m - 1)
    OBVIOUS
  <2> QED BY <2>1, <2>2, <2>3
<1>6. t2 = NoTable => t = NoTable
  <2> SUFFICES ASSUME t2 = NoTable PROVE t = NoTable
    OBVIOUS
  <2>1. DOMAIN t = {}
    BY <1>4
  <2>2. n # 0 => 0 \in 0..(n - 1)
    OBVIOUS
  <2> QED BY <1>1, <2>1, <2>2
<1> QED BY <1>3, <1>5, <1>6 DEF LastIndex

\* An older block is still in use as before.
LEMMA AgedHolding ==
    ASSUME NEW r \in Holding
    PROVE  /\ Aged(r) \in Holding
           /\ Aged(r).caller_addr = r.caller_addr /\ Aged(r).size = r.size
           /\ Aged(r).tracked = r.tracked
           /\ Aged(r).age \in Nat /\ r.age \in Nat /\ r.age <= Aged(r).age
           /\ Aged(r).age = r.age + 1 \/ Aged(r).age = MaxAge
<1>1. MaxAge \in Nat /\ r.age \in 0..MaxAge
  BY CountsAssumption DEF Holding
<1> DEFINE n == IF r.age < MaxAge THEN r.age + 1 ELSE r.age
<1>2. n \in 0..MaxAge /\ n \in Nat /\ r.age \in Nat /\ r.age <= n /\ (n = r.age + 1 \/ n = MaxAge)
  BY <1>1
<1>3. Aged(r) = [r EXCEPT !.age = n]
  BY DEF Aged
<1> HIDE DEF n
<1> QED BY <1>2, <1>3 DEF Holding

\* A lifetime that wraps does not pass the age.
LEMMA LifetimeBehind ==
    ASSUME NEW l \in UInt32Value, NEW age \in Nat, NEW older \in Nat, l <= age,
           older = age + 1 \/ older = MaxAge
    PROVE  Plus(l, 1) \in UInt32Value /\ Plus(l, 1) <= older
<1>1. UInt32 \in Nat \ {0} /\ MaxAge \in Nat /\ MaxAge >= UInt32 - 1
  BY CountsAssumption, WidthAssumption
<1>2. l \in Nat /\ l < UInt32
  BY <1>1 DEF UInt32Value
<1>3. CASE l + 1 < UInt32
  <2>1. Plus(l, 1) = l + 1
    BY <1>1, <1>2, <1>3 DEF Plus
  <2> QED BY <1>1, <1>2, <1>3, <2>1 DEF UInt32Value
<1>4. CASE l + 1 = UInt32
  <2>1. Plus(l, 1) = 0
    BY <1>1, <1>2, <1>4 DEF Plus
  <2> QED BY <1>1, <2>1 DEF UInt32Value
<1> QED BY <1>1, <1>2, <1>3, <1>4

\* Time passes.
LEMMA StepStep ==
    ASSUME LedgerInv, ns_dyn_mem_tracker_lib_step
    PROVE  LedgerInv' /\ DOMAIN held' = DOMAIN held
<1> DEFINE t == mem_blocks
           t2 == mem_blocks'
           k == last_mem_block_index
           h == held
           h2 == held'
           Older(i) == [t[i] EXCEPT !.lifetime = Plus(t[i].lifetime, 1)]
<1>1. /\ t2 = [i \in DOMAIN t |-> IF i <= k /\ t[i].block # Null THEN Older(i) ELSE t[i]]
      /\ h2 = [b \in DOMAIN h |-> Aged(h[b])]
      /\ Returns("step", 0)
      /\ UNCHANGED <<ext_mem_blocks, last_mem_block_index, allocated_memory, lost>>
  BY DEF ns_dyn_mem_tracker_lib_step
<1>2. /\ MemTable(t) /\ Held(h) /\ Entries(t, k) /\ LastIndex(t, k, lost)
      /\ ~lost => Ledger(t, ext_mem_blocks, allocated_memory, h)
  BY DEF LedgerInv
<1>3. \A i \in DOMAIN t : t[i] \in MemBlock
  BY <1>2, RowsTyped, CountsAssumption DEF MemTable
<1>4. ASSUME NEW e \in MemBlock
      PROVE  /\ e.lifetime \in UInt32Value /\ Plus(e.lifetime, 1) \in UInt32Value
             /\ [e EXCEPT !.lifetime = Plus(e.lifetime, 1)] \in MemBlock
  <2>1. e.lifetime \in UInt32Value
    BY DEF MemBlock
  <2>2. Plus(e.lifetime, 1) \in UInt32Value
    BY <2>1, CountsAssumption DEF Plus, UInt32Value
  <2> QED BY <2>1, <2>2 DEF MemBlock
<1>5. \A i \in DOMAIN t : Older(i) \in MemBlock
  BY <1>3, <1>4
<1>6. ASSUME NEW i \in DOMAIN t
      PROVE  /\ Older(i).block = t[i].block /\ Older(i).caller_addr = t[i].caller_addr
             /\ Older(i).size = t[i].size /\ Older(i).total_size = t[i].total_size
             /\ Older(i).ref_count = t[i].ref_count /\ Older(i).permanent = t[i].permanent
             /\ Older(i).lifetime = Plus(t[i].lifetime, 1)
  BY <1>3 DEF MemBlock
<1>7. /\ DOMAIN t2 = DOMAIN t /\ t2 = [i \in DOMAIN t2 |-> t2[i]]
      /\ \A i \in DOMAIN t : t2[i] = Older(i) \/ t2[i] = t[i]
  BY <1>1
<1> HIDE DEF Older
<1>8. \A i \in DOMAIN t : t2[i] \in MemBlock
  BY <1>3, <1>5, <1>7
<1>9. MemTable(t2) /\ LastIndex(t2, k, lost)
  BY <1>2, <1>7, <1>8, ChangedTable
<1>10. SameRows(t, t2)
  BY <1>6, <1>7 DEF SameRows
<1>11. /\ DOMAIN h2 = DOMAIN h /\ \A b \in DOMAIN h : h2[b] = Aged(h[b])
       /\ \A b \in DOMAIN h : h[b] \in Holding
  BY <1>1, <1>2 DEF Held
<1>12. Held(h2)
  BY <1>2, <1>11, AgedHolding DEF Held
<1>13. SameTracked(h, h2)
  BY <1>11, AgedHolding DEF SameTracked, Tracking
<1>14. ASSUME Ledger(t, ext_mem_blocks, allocated_memory, h) PROVE Youngest(t2, h2)
  <2> SUFFICES ASSUME NEW i \in DOMAIN t2, NEW b \in Owned(h2, t2[i].caller_addr)
               PROVE  /\ t2[i].lifetime <= h2[b].age
                      /\ t2[i].permanent => h2[b].age > to_permanent_steps_count
    BY DEF Youngest
  <2>1. b \in Owned(h, t[i].caller_addr) /\ i \in DOMAIN t /\ b \in DOMAIN h
    BY <1>7, <1>10, <1>13 DEF Owned, SameTracked, SameRows, Tracking
  <2>2. /\ t[i].lifetime <= h[b].age
        /\ t[i].permanent => h[b].age > to_permanent_steps_count
    BY <1>14, <2>1 DEF Ledger, Youngest
  <2>3. /\ h2[b].age \in Nat /\ h[b].age \in Nat /\ h[b].age <= h2[b].age
        /\ h2[b].age = h[b].age + 1 \/ h2[b].age = MaxAge
    BY <1>11, <2>1, AgedHolding
  <2>4. t[i].lifetime \in UInt32Value /\ t[i].lifetime \in Nat
    BY <1>3, <2>1, Unsigned DEF MemBlock
  <2>5. Plus(t[i].lifetime, 1) <= h2[b].age
    BY <2>2, <2>3, <2>4, LifetimeBehind
  <2>6. t[i].lifetime <= h2[b].age
    BY <2>2, <2>3, <2>4
  <2>7. t2[i].lifetime <= h2[b].age /\ t2[i].permanent = t[i].permanent
    BY <1>6, <1>7, <2>1, <2>5, <2>6
  <2>8. to_permanent_steps_count \in Nat
    BY CountsAssumption
  <2>9. t2[i].permanent => h2[b].age > to_permanent_steps_count
    BY <2>2, <2>3, <2>7, <2>8
  <2> QED BY <2>7, <2>9
<1>15. Entries(t2, k)
  BY <1>2, <1>10, <1>13, SameLedger
<1>16. ~lost => Ledger(t2, ext_mem_blocks, allocated_memory, h2)
  BY <1>2, <1>10, <1>13, <1>14, SameLedger
<1>17. Answered'
  BY <1>1, AnsweredNothing
<1> QED BY <1>1, <1>9, <1>11, <1>12, <1>15, <1>16, <1>17 DEF LedgerInv

-----------------------------------------------------------------------------
(* The loops of the two list updates, turn by turn.  They are recursive    *)
(* functions: there is a function of the first n turns for every n, and    *)
(* two such functions agree.                                               *)

\* g holds the first n turns of the snap shot's loop over t.
SnapUpto(g, t, n) ==
    g = [m \in 0..n |-> IF m = 0 THEN Cleared(max_snap_shot_allocators_count)
                        ELSE SnapTurn(g[m - 1], t[m - 1])]
SnapFirst(t, n) == CHOOSE g : SnapUpto(g, t, n)

\* Such functions agree.
LEMMA SnapAgree ==
    ASSUME NEW t, NEW n \in Nat, NEW n2 \in Nat, n <= n2, NEW g, NEW g2,
           SnapUpto(g, t, n), SnapUpto(g2, t, n2)
    PROVE  \A m \in 0..n : g[m] = g2[m]
<1> DEFINE T == {m \in 0..n : g[m] # g2[m]}
<1> SUFFICES ASSUME T # {} PROVE FALSE
  OBVIOUS
<1>1. T \subseteq Nat
  OBVIOUS
<1>2. PICK m \in T : \A j \in T : m <= j
  BY <1>1, NatLeast
<1>3. m \in 0..n /\ m \in 0..n2 /\ g[m] # g2[m]
  OBVIOUS
<1>4. /\ g[m] = IF m = 0 THEN Cleared(max_snap_shot_allocators_count)
                ELSE SnapTurn(g[m - 1], t[m - 1])
      /\ g2[m] = IF m = 0 THEN Cleared(max_snap_shot_allocators_count)
                 ELSE SnapTurn(g2[m - 1], t[m - 1])
  BY <1>3 DEF SnapUpto
<1>5. m # 0 => m - 1 \in 0..n /\ ~(m <= m - 1)
  BY <1>3
<1>6. m # 0 => g[m - 1] = g2[m - 1]
  BY <1>2, <1>5
<1> QED BY <1>3, <1>4, <1>6

\* They exist.
LEMMA SnapExist ==
    ASSUME NEW t, NEW n \in Nat
    PROVE  SnapUpto(SnapFirst(t, n), t, n)
<1> DEFINE T == {m \in Nat : ~ \E g : SnapUpto(g, t, m)}
<1> SUFFICES ASSUME T # {} PROVE FALSE
  BY DEF SnapFirst
<1>1. T \subseteq Nat
  OBVIOUS
<1>2. PICK m \in T : \A j \in T : m <= j
  BY <1>1, NatLeast
<1>3. m \in Nat /\ ~ \E g : SnapUpto(g, t, m)
  OBVIOUS
<1>4. CASE m = 0
  <2> DEFINE g == [i \in 0..m |-> Cleared(max_snap_shot_allocators_count)]
  <2>1. SnapUpto(g, t, m)
    BY <1>4 DEF SnapUpto
  <2> QED BY <1>3, <2>1
<1>5. CASE m # 0
  <2>1. m - 1 \in Nat /\ ~(m <= m - 1)
    BY <1>3, <1>5
  <2>2. PICK g : SnapUpto(g, t, m - 1)
    BY <1>2, <2>1
  <2>3. \A i \in 0..(m - 1) : g[i] = IF i = 0 THEN Cleared(max_snap_shot_allocators_count)
                                     ELSE SnapTurn(g[i - 1], t[i - 1])
    BY <2>2 DEF SnapUpto
  <2> DEFINE g2 == [i \in 0..m |-> IF i = m THEN SnapTurn(g[m - 1], t[m - 1]) ELSE g[i]]
  <2>4. \A i \in 0..(m - 1) : g2[i] = g[i] /\ i # m
    BY <1>3
  <2>5. \A i \in 0..m : i = m \/ i \in 0..(m - 1)
    BY <1>3
  <2>6. \A i \in 0..m : i # 0 => i - 1 \in 0..(m - 1)
    BY <1>3
  <2>7. g2 = [i \in 0..m |-> g2[i]] /\ g2[m] = SnapTurn(g[m - 1], t[m - 1])
    BY <1>3
  <2> HIDE DEF g2
  <2>8. \A i \in 0..m : g2[i] = IF i = 0 THEN Cleared(max_snap_shot_allocators_count)
                                ELSE SnapTurn(g2[i - 1], t[i - 1])
    BY <1>3, <1>5, <2>3, <2>4, <2>5, <2>6, <2>7
  <2>9. SnapUpto(g2, t, m)
    BY <2>7, <2>8 DEF SnapUpto
  <2> QED BY <1>3, <2>9
<1> QED BY <1>4, <1>5

\* The snap shot's loop, turn by turn.
LEMMA SnapTurnsAre ==
    ASSUME NEW t
    PROVE  /\ SnapTurns(t)[0] = Cleared(max_snap_shot_allocators_count)
           /\ \A n \in Nat : SnapTurns(t)[n + 1] = SnapTurn(SnapTurns(t)[n], t[n])
<1> DEFINE Are(f) == f = [n \in Nat |-> IF n = 0 THEN Cleared(max_snap_shot_allocators_count)
                                        ELSE SnapTurn(f[n - 1], t[n - 1])]
           f0 == [n \in Nat |-> SnapFirst(t, n)[n]]
<1>1. ASSUME NEW n \in Nat
      PROVE  f0[n] = IF n = 0 THEN Cleared(max_snap_shot_allocators_count)
                     ELSE SnapTurn(f0[n - 1], t[n - 1])
  <2> DEFINE g == SnapFirst(t, n)
  <2>1. SnapUpto(g, t, n)
    BY SnapExist
  <2>2. f0[n] = g[n]
    OBVIOUS
  <2> HIDE DEF g
  <2>3. g[n] = IF n = 0 THEN Cleared(max_snap_shot_allocators_count)
               ELSE SnapTurn(g[n - 1], t[n - 1])
    BY <2>1 DEF SnapUpto
  <2>4. ASSUME n # 0 PROVE g[n - 1] = f0[n - 1]
    <3>1. n - 1 \in Nat /\ n - 1 <= n /\ n - 1 \in 0..(n - 1)
      BY <2>4
    <3>2. SnapUpto(SnapFirst(t, n - 1), t, n - 1)
      BY <3>1, SnapExist
    <3>3. SnapFirst(t, n - 1)[n - 1] = g[n - 1]
      BY <2>1, <3>1, <3>2, SnapAgree
    <3> QED BY <3>1, <3>3
  <2> HIDE DEF f0
  <2> QED BY <2>2, <2>3, <2>4
<1>2. f0 = [n \in Nat |-> f0[n]]
  OBVIOUS
<1> HIDE DEF f0
<1>3. Are(f0)
  BY <1>1, <1>2
<1>4. SnapTurns(t) = CHOOSE f : Are(f)
  BY DEF SnapTurns
<1>5. Are(SnapTurns(t))
  BY <1>3, <1>4
<1> DEFINE f == SnapTurns(t)
<1>6. \A n \in Nat : f[n] = IF n = 0 THEN Cleared(max_snap_shot_allocators_count)
                            ELSE SnapTurn(f[n - 1], t[n - 1])
  BY <1>5
<1> HIDE DEF f
<1>7. \A n \in Nat : n + 1 \in Nat /\ n + 1 # 0 /\ (n + 1) - 1 = n
  OBVIOUS
<1>8. f[0] = Cleared(max_snap_shot_allocators_count)
  BY <1>6
<1>9. \A n \in Nat : f[n + 1] = SnapTurn(f[n], t[n])
  BY <1>6, <1>7
<1> QED BY <1>8, <1>9 DEF f

\* What the lists' loop starts from.
ListStart(t) ==
    [blocks       |-> t,
     top          |-> Cleared(top_allocators_count),
     permanent    |-> Cleared(permanent_allocators_count),
     to_permanent |-> Cleared(to_permanent_allocators_count),
     permanents   |-> 0,
     to_permanents |-> 0]

\* g holds the first n turns of the lists' loop over t.
ListUpto(g, t, n) ==
    g = [m \in 0..n |-> IF m = 0 THEN ListStart(t)
                        ELSE ListTurn(g[m - 1], m - 1)]
ListFirst(t, n) == CHOOSE g : ListUpto(g, t, n)

\* Such functions agree.
LEMMA ListAgree ==
    ASSUME NEW t, NEW n \in Nat, NEW n2 \in Nat, n <= n2, NEW g, NEW g2,
           ListUpto(g, t, n), ListUpto(g2, t, n2)
    PROVE  \A m \in 0..n : g[m] = g2[m]
<1> DEFINE T == {m \in 0..n : g[m] # g2[m]}
<1> SUFFICES ASSUME T # {} PROVE FALSE
  OBVIOUS
<1>1. T \subseteq Nat
  OBVIOUS
<1>2. PICK m \in T : \A j \in T : m <= j
  BY <1>1, NatLeast
<1>3. m \in 0..n /\ m \in 0..n2 /\ g[m] # g2[m]
  OBVIOUS
<1>4. /\ g[m] = IF m = 0 THEN ListStart(t)
                ELSE ListTurn(g[m - 1], m - 1)
      /\ g2[m] = IF m = 0 THEN ListStart(t)
                 ELSE ListTurn(g2[m - 1], m - 1)
  BY <1>3 DEF ListUpto
<1>5. m # 0 => m - 1 \in 0..n /\ ~(m <= m - 1)
  BY <1>3
<1>6. m # 0 => g[m - 1] = g2[m - 1]
  BY <1>2, <1>5
<1> QED BY <1>3, <1>4, <1>6

\* They exist.
LEMMA ListExist ==
    ASSUME NEW t, NEW n \in Nat
    PROVE  ListUpto(ListFirst(t, n), t, n)
<1> DEFINE T == {m \in Nat : ~ \E g : ListUpto(g, t, m)}
<1> SUFFICES ASSUME T # {} PROVE FALSE
  BY DEF ListFirst
<1>1. T \subseteq Nat
  OBVIOUS
<1>2. PICK m \in T : \A j \in T : m <= j
  BY <1>1, NatLeast
<1>3. m \in Nat /\ ~ \E g : ListUpto(g, t, m)
  OBVIOUS
<1>4. CASE m = 0
  <2> DEFINE g == [i \in 0..m |-> ListStart(t)]
  <2>1. ListUpto(g, t, m)
    BY <1>4 DEF ListUpto
  <2> QED BY <1>3, <2>1
<1>5. CASE m # 0
  <2>1. m - 1 \in Nat /\ ~(m <= m - 1)
    BY <1>3, <1>5
  <2>2. PICK g : ListUpto(g, t, m - 1)
    BY <1>2, <2>1
  <2>3. \A i \in 0..(m - 1) : g[i] = IF i = 0 THEN ListStart(t)
                                     ELSE ListTurn(g[i - 1], i - 1)
    BY <2>2 DEF ListUpto
  <2> DEFINE g2 == [i \in 0..m |-> IF i = m THEN ListTurn(g[m - 1], m - 1) ELSE g[i]]
  <2>4. \A i \in 0..(m - 1) : g2[i] = g[i] /\ i # m
    BY <1>3
  <2>5. \A i \in 0..m : i = m \/ i \in 0..(m - 1)
    BY <1>3
  <2>6. \A i \in 0..m : i # 0 => i - 1 \in 0..(m - 1)
    BY <1>3
  <2>7. g2 = [i \in 0..m |-> g2[i]] /\ g2[m] = ListTurn(g[m - 1], m - 1)
    BY <1>3
  <2> HIDE DEF g2
  <2>8. \A i \in 0..m : g2[i] = IF i = 0 THEN ListStart(t)
                                ELSE ListTurn(g2[i - 1], i - 1)
    BY <1>3, <1>5, <2>3, <2>4, <2>5, <2>6, <2>7
  <2>9. ListUpto(g2, t, m)
    BY <2>7, <2>8 DEF ListUpto
  <2> QED BY <1>3, <2>9
<1> QED BY <1>4, <1>5

\* The lists' loop, turn by turn.
LEMMA ListTurnsAre ==
    ASSUME NEW t
    PROVE  /\ ListTurns(t)[0] = ListStart(t)
           /\ \A n \in Nat : ListTurns(t)[n + 1] = ListTurn(ListTurns(t)[n], n)
<1> DEFINE Are(f) == f = [n \in Nat |-> IF n = 0 THEN ListStart(t)
                                        ELSE ListTurn(f[n - 1], n - 1)]
           f0 == [n \in Nat |-> ListFirst(t, n)[n]]
<1>1. ASSUME NEW n \in Nat
      PROVE  f0[n] = IF n = 0 THEN ListStart(t)
                     ELSE ListTurn(f0[n - 1], n - 1)
  <2> DEFINE g == ListFirst(t, n)
  <2>1. ListUpto(g, t, n)
    BY ListExist
  <2>2. f0[n] = g[n]
    OBVIOUS
  <2> HIDE DEF g
  <2>3. g[n] = IF n = 0 THEN ListStart(t)
               ELSE ListTurn(g[n - 1], n - 1)
    BY <2>1 DEF ListUpto
  <2>4. ASSUME n # 0 PROVE g[n - 1] = f0[n - 1]
    <3>1. n - 1 \in Nat /\ n - 1 <= n /\ n - 1 \in 0..(n - 1)
      BY <2>4
    <3>2. ListUpto(ListFirst(t, n - 1), t, n - 1)
      BY <3>1, ListExist
    <3>3. ListFirst(t, n - 1)[n - 1] = g[n - 1]
      BY <2>1, <3>1, <3>2, ListAgree
    <3> QED BY <3>1, <3>3
  <2> HIDE DEF f0
  <2> QED BY <2>2, <2>3, <2>4
<1>2. f0 = [n \in Nat |-> f0[n]]
  OBVIOUS
<1> HIDE DEF f0
<1>3. Are(f0)
  BY <1>1, <1>2
<1>4. ListTurns(t) = CHOOSE f : Are(f)
  BY DEF ListTurns, ListStart
<1>5. Are(ListTurns(t))
  BY <1>3, <1>4
<1> DEFINE f == ListTurns(t)
<1>6. \A n \in Nat : f[n] = IF n = 0 THEN ListStart(t)
                            ELSE ListTurn(f[n - 1], n - 1)
  BY <1>5
<1> HIDE DEF f
<1>7. \A n \in Nat : n + 1 \in Nat /\ n + 1 # 0 /\ (n + 1) - 1 = n
  OBVIOUS
<1>8. f[0] = ListStart(t)
  BY <1>6
<1>9. \A n \in Nat : f[n + 1] = ListTurn(f[n], n)
  BY <1>6, <1>7
<1> QED BY <1>8, <1>9 DEF f

-----------------------------------------------------------------------------
(* The lists of allocators *)

Keys == {"alloc_count", "total_memory"}
AllocatorList(n) == [0..(n - 1) -> Allocator]

\* What allocators are ranked by is a number.
LEMMA KeysAreNumbers ==
    ASSUME NEW key \in Keys, NEW a \in Allocator
    PROVE  a[key] \in Nat
<1>1. \A v \in UInt32Value : v \in Nat
  BY Unsigned
<1>2. CASE key = "alloc_count"
  BY <1>1, <1>2 DEF Allocator
<1>3. CASE key = "total_memory"
  BY <1>1, <1>3 DEF Allocator
<1> QED BY <1>2, <1>3 DEF Keys

\* list2 is list with a at position p, and those from p one place later.
Inserts(list, list2, p, a) ==
    /\ p \in DOMAIN list /\ DOMAIN list2 = DOMAIN list
    /\ list2[p] = a
    /\ \A i \in DOMAIN list : i < p => list2[i] = list[i]
    /\ \A i \in DOMAIN list : i > p => i - 1 \in DOMAIN list /\ list2[i] = list[i - 1]

\* An allocator is ranked: where it goes, if anywhere.
LEMMA RankedFacts ==
    ASSUME NEW n \in Nat, NEW list \in AllocatorList(n), NEW a \in Allocator,
           NEW key \in Keys
    PROVE  /\ Ranked(list, a, key) \in AllocatorList(n)
           /\ n <= UInt8 =>
                \/ /\ Ranked(list, a, key) = list
                   /\ \A i \in DOMAIN list : list[i][key] > a[key]
                \/ \E p \in DOMAIN list :
                      /\ Inserts(list, Ranked(list, a, key), p, a)
                      /\ a[key] >= list[p][key]
                      /\ \A i \in DOMAIN list : i < p => list[i][key] > a[key]
<1> DEFINE lower == {i \in DOMAIN list : a[key] >= list[i][key]}
           at == Min(lower)
           size == Cardinality(DOMAIN list)
           count == (size - at - 1) % UInt8
           list2 == [i \in DOMAIN list |->
                        IF i = at THEN a
                        ELSE IF i > at /\ i <= at + count THEN list[i - 1]
                        ELSE list[i]]
<1>1. DOMAIN list = 0..(n - 1) /\ \A i \in 0..(n - 1) : list[i] \in Allocator
  BY DEF AllocatorList
<1>2. size = n
  BY <1>1, FS_Interval
<1>3. \A i \in DOMAIN list : list[i][key] \in Nat /\ a[key] \in Nat
  BY <1>1, KeysAreNumbers
<1>4. Ranked(list, a, key) = IF lower = {} THEN list ELSE list2
  BY DEF Ranked
<1>5. \A i \in DOMAIN list : i \in lower <=> a[key] >= list[i][key]
  OBVIOUS
<1>6. lower \subseteq DOMAIN list /\ lower \subseteq Nat
  BY <1>1
<1>7. CASE lower = {}
  <2>1. Ranked(list, a, key) = list
    BY <1>4, <1>7
  <2>2. \A i \in DOMAIN list : list[i][key] > a[key]
    BY <1>3, <1>5, <1>7
  <2> QED BY <2>1, <2>2
<1>8. CASE lower # {}
  <2>1. at \in lower /\ \A i \in lower : at <= i
    BY <1>6, <1>8, MinIsLeast
  <2>2. at \in 0..(n - 1) /\ at \in DOMAIN list /\ a[key] >= list[at][key]
    BY <1>1, <1>5, <1>6, <2>1
  <2>3. UInt8 \in Nat \ {0} /\ n - at - 1 \in Nat
    BY <2>2, CountsAssumption
  <2>4. count \in Nat /\ (n <= UInt8 => count = n - at - 1)
    <3>1. count = (n - at - 1) % UInt8
      BY <1>2
    <3> DEFINE m == n - at - 1
    <3>2. m \in Nat /\ (n <= UInt8 => m < UInt8)
      BY <2>2, <2>3
    <3> HIDE DEF m
    <3>3. m % UInt8 \in Nat /\ (m < UInt8 => m % UInt8 = m)
      BY <2>3, <3>2
    <3> QED BY <3>1, <3>2, <3>3 DEF m
  <2>5. Ranked(list, a, key) = list2
    BY <1>4, <1>8
  <2>6. /\ DOMAIN list2 = DOMAIN list
        /\ \A i \in DOMAIN list : list2[i] = IF i = at THEN a
                        ELSE IF i > at /\ i <= at + count THEN list[i - 1]
                        ELSE list[i]
        /\ list2 = [i \in DOMAIN list |-> list2[i]]
    OBVIOUS
  <2> HIDE DEF list2, lower, at, size, count
  <2>7. \A i \in DOMAIN list : i > at => i - 1 \in DOMAIN list
    BY <1>1, <2>2
  <2>8. \A i \in DOMAIN list : list2[i] \in Allocator
    BY <1>1, <2>6, <2>7
  <2>9. list2 \in AllocatorList(n)
    BY <1>1, <2>6, <2>8 DEF AllocatorList
  <2>10. \A i \in DOMAIN list : i < at => list[i][key] > a[key]
    <3> SUFFICES ASSUME NEW i \in DOMAIN list, i < at PROVE list[i][key] > a[key]
      OBVIOUS
    <3>1. i \in Nat /\ at \in Nat
      BY <1>1, <2>2
    <3>2. i \notin lower
      BY <2>1, <3>1
    <3> QED BY <1>3, <1>5, <3>2
  <2>11. ASSUME n <= UInt8 PROVE Inserts(list, list2, at, a)
    <3>1. count = n - at - 1
      BY <2>4, <2>11
    <3>2. \A i \in DOMAIN list : /\ i > at => i # at /\ i <= at + count
                                 /\ i < at => i # at /\ ~(i > at)
      BY <1>1, <2>2, <3>1
    <3>3. /\ list2[at] = a
          /\ \A i \in DOMAIN list : i < at => list2[i] = list[i]
          /\ \A i \in DOMAIN list : i > at => list2[i] = list[i - 1]
      BY <2>2, <2>6, <3>2
    <3> QED BY <2>2, <2>6, <2>7, <3>3 DEF Inserts
  <2> QED BY <2>2, <2>5, <2>9, <2>10, <2>11
<1> QED BY <1>7, <1>8

\* The list has the largest of all, largest first, and free places behind.
Best(list, key, all) ==
    LET named == {i \in DOMAIN list : list[i].caller_addr # Null}
    IN  /\ \A i, j \in DOMAIN list : i < j => list[i][key] >= list[j][key]
        /\ {list[i] : i \in named} \subseteq all
        /\ \A i, j \in named : list[i].caller_addr = list[j].caller_addr => i = j
        /\ \A a \in all : \/ \E i \in named : list[i] = a
                          \/ \A i \in DOMAIN list : i \in named /\ list[i][key] >= a[key]
FreeBehind(list, key) ==
    \A i \in DOMAIN list : list[i].caller_addr = Null =>
        /\ list[i][key] = 0
        /\ \A j \in DOMAIN list : i < j => list[j].caller_addr = Null

\* An empty list.
LEMMA ClearedList ==
    ASSUME NEW n \in Nat, NEW key \in Keys
    PROVE  /\ Cleared(n) \in AllocatorList(n)
           /\ Best(Cleared(n), key, {})
           /\ FreeBehind(Cleared(n), key)
<1> DEFINE e == [caller_addr |-> Null, alloc_count |-> 0, total_memory |-> 0, min_lifetime |-> 0]
           list == Cleared(n)
<1>1. e.caller_addr = Null /\ e[key] = 0
  BY DEF Keys
<1>2. e \in Allocator
  BY CountsAssumption DEF Allocator, UInt32Value, CallerOrNull
<1>3. list = [i \in 0..(n - 1) |-> e]
  BY DEF Cleared
<1> HIDE DEF e, list
<1>4. list \in AllocatorList(n) /\ \A i \in DOMAIN list : list[i] = e
  BY <1>2, <1>3 DEF AllocatorList
<1>5. Best(list, key, {})
  BY <1>1, <1>4 DEF Best
<1>6. FreeBehind(list, key)
  BY <1>1, <1>4 DEF FreeBehind
<1> QED BY <1>4, <1>5, <1>6 DEF list

\* Ranking another allocator keeps the largest.
LEMMA RankedBest ==
    ASSUME NEW n \in Nat, n <= UInt8, NEW list \in AllocatorList(n), NEW a \in Allocator,
           NEW key \in Keys, NEW all, Best(list, key, all), FreeBehind(list, key),
           a.caller_addr # Null, \A o \in all : o[key] \in Nat /\ o.caller_addr # a.caller_addr
    PROVE  /\ Best(Ranked(list, a, key), key, all \cup {a})
           /\ FreeBehind(Ranked(list, a, key), key)
<1> DEFINE list2 == Ranked(list, a, key)
           Named(l) == {i \in DOMAIN l : l[i].caller_addr # Null}
<1>1. DOMAIN list = 0..(n - 1) /\ \A i \in DOMAIN list : list[i][key] \in Nat /\ a[key] \in Nat
  BY KeysAreNumbers DEF AllocatorList
<1>2. /\ \A i, j \in DOMAIN list : i < j => list[i][key] >= list[j][key]
      /\ \A i \in Named(list) : list[i] \in all
      /\ \A i, j \in Named(list) : list[i].caller_addr = list[j].caller_addr => i = j
      /\ \A o \in all : \/ \E i \in Named(list) : list[i] = o
                        \/ \A i \in DOMAIN list : i \in Named(list) /\ list[i][key] >= o[key]
  BY DEF Best
<1>3. /\ \A i \in DOMAIN list : list[i].caller_addr = Null => list[i][key] = 0
      /\ \A i, j \in DOMAIN list : i < j /\ list[i].caller_addr = Null => list[j].caller_addr = Null
  BY DEF FreeBehind
<1>4. ASSUME list2 = list, \A i \in DOMAIN list : list[i][key] > a[key]
      PROVE  Best(list2, key, all \cup {a}) /\ FreeBehind(list2, key)
  <2>1. \A i \in DOMAIN list : i \in Named(list) /\ list[i][key] >= a[key]
    BY <1>1, <1>3, <1>4
  <2>2. Best(list, key, all \cup {a})
    BY <1>2, <2>1 DEF Best
  <2> QED BY <1>4, <2>2
<1>5. ASSUME NEW p \in DOMAIN list, Inserts(list, list2, p, a), a[key] >= list[p][key],
             \A i \in DOMAIN list : i < p => list[i][key] > a[key]
      PROVE  Best(list2, key, all \cup {a}) /\ FreeBehind(list2, key)
  <2> HIDE DEF list2
  <2>1. /\ DOMAIN list2 = DOMAIN list /\ list2[p] = a
        /\ \A i \in DOMAIN list : i < p => list2[i] = list[i]
        /\ \A i \in DOMAIN list : i > p => i - 1 \in DOMAIN list /\ list2[i] = list[i - 1]
    BY <1>5 DEF Inserts
  <2>2. \A i \in DOMAIN list : i < p => list[i].caller_addr # Null
    BY <1>1, <1>3, <1>5
  <2>3. \A i, j \in DOMAIN list : i <= j => list[i][key] >= list[j][key]
    <3> SUFFICES ASSUME NEW i \in DOMAIN list, NEW j \in DOMAIN list, i <= j
                 PROVE  list[i][key] >= list[j][key]
      OBVIOUS
    <3>1. i = j \/ i < j
      BY <1>1
    <3> QED BY <1>1, <1>2, <3>1
  <2>4. \A i \in DOMAIN list : i < p \/ i = p \/ i > p
    BY <1>1
  <2>5. \A i \in DOMAIN list : i > p => i - 1 >= p /\ i - 1 \in Nat
    BY <1>1
  \* where the keys are
  <2>6. ASSUME NEW i \in DOMAIN list, NEW j \in DOMAIN list, i < j
        PROVE  list2[i][key] >= list2[j][key]
    <3>1. CASE j < p
      <4>1. i < p
        BY <1>1, <2>6, <3>1
      <4> QED BY <2>1, <2>6, <2>3, <1>2, <3>1, <4>1
    <3>2. CASE j = p
      <4>1. i < p
        BY <2>6, <3>2
      <4> QED BY <1>1, <1>5, <2>1, <3>2, <4>1
    <3>3. CASE j > p
      <4>1. j - 1 \in DOMAIN list /\ list2[j] = list[j - 1] /\ j - 1 >= p
        BY <2>1, <2>5, <3>3
      <4>2. CASE i < p
        <5>1. i <= j - 1
          BY <1>1, <2>6
        <5> QED BY <2>1, <2>3, <4>1, <4>2, <5>1
      <4>3. CASE i = p
        <5>1. list[p][key] >= list[j - 1][key]
          BY <1>1, <2>3, <4>1
        <5> QED BY <1>1, <1>5, <2>1, <4>1, <4>3, <5>1
      <4>4. CASE i > p
        <5>1. i - 1 \in DOMAIN list /\ list2[i] = list[i - 1] /\ i - 1 <= j - 1
          BY <1>1, <2>1, <2>6, <4>4
        <5> QED BY <2>3, <4>1, <5>1
      <4> QED BY <2>4, <4>2, <4>3, <4>4
    <3> QED BY <2>4, <3>1, <3>2, <3>3
  \* the old places of named allocators
  <2>7. ASSUME NEW i \in DOMAIN list, i # p
        PROVE  \E o \in DOMAIN list : /\ list2[i] = list[o]
                                      /\ o = IF i < p THEN i ELSE i - 1
    BY <1>1, <2>1, <2>4, <2>7
  <2>8. \A i \in Named(list2) : list2[i] \in all \cup {a}
    BY <1>2, <2>1, <2>7
  <2>9. ASSUME NEW i \in Named(list2), NEW j \in Named(list2),
               list2[i].caller_addr = list2[j].caller_addr
        PROVE  i = j
    <3>1. \A l \in Named(list2) : l # p => list2[l].caller_addr # a.caller_addr
      BY <1>2, <2>1, <2>7
    <3>2. i = p <=> j = p
      BY <2>1, <2>9, <3>1
    <3>3. CASE i # p /\ j # p
      <4>1. PICK o \in DOMAIN list : list2[i] = list[o] /\ o = IF i < p THEN i ELSE i - 1
        BY <2>1, <2>7, <3>3
      <4>2. PICK q \in DOMAIN list : list2[j] = list[q] /\ q = IF j < p THEN j ELSE j - 1
        BY <2>1, <2>7, <3>3
      <4>3. o = q
        BY <1>2, <2>1, <2>9, <4>1, <4>2
      <4> QED BY <1>1, <2>1, <3>3, <4>1, <4>2, <4>3
    <3> QED BY <3>2, <3>3
  \* the new place of an old allocator, if it is not the last
  <2>10. ASSUME NEW o \in DOMAIN list, o # n - 1
         PROVE  \E i \in DOMAIN list : list2[i] = list[o]
    <3>1. CASE o < p
      BY <2>1, <3>1
    <3>2. CASE ~(o < p)
      <4>1. o + 1 \in DOMAIN list /\ o + 1 > p /\ (o + 1) - 1 = o
        BY <1>1, <2>10, <3>2
      <4> QED BY <2>1, <4>1
    <3> QED BY <3>1, <3>2
  <2>11. \A i \in DOMAIN list : i # n - 1 => i < n - 1
    BY <1>1
  <2>12. n - 1 \in DOMAIN list
    BY <1>1
  <2>13. ASSUME list[n - 1].caller_addr # Null
         PROVE  \A i \in DOMAIN list : i \in Named(list2) /\ list2[i][key] >= list[n - 1][key]
    <3>1. \A i \in DOMAIN list : list[i].caller_addr # Null
      BY <1>3, <2>11, <2>12, <2>13
    <3>2. \A i \in DOMAIN list : list[i][key] >= list[n - 1][key]
      BY <1>1, <2>3, <2>12
    <3>3. a[key] >= list[n - 1][key]
      BY <1>1, <1>5, <2>12, <3>2
    <3> QED BY <2>1, <2>7, <3>1, <3>2, <3>3
  <2>14. ASSUME NEW o \in all \cup {a}
         PROVE  \/ \E i \in Named(list2) : list2[i] = o
                \/ \A i \in DOMAIN list2 : i \in Named(list2) /\ list2[i][key] >= o[key]
    <3>1. CASE o = a
      BY <2>1, <3>1
    <3>2. CASE \E i \in Named(list) : list[i] = o
      <4>1. PICK i \in Named(list) : list[i] = o
        BY <3>2
      <4>2. CASE i # n - 1
        BY <2>1, <2>10, <4>1, <4>2
      <4>3. CASE i = n - 1
        BY <2>1, <2>13, <4>1, <4>3
      <4> QED BY <4>2, <4>3
    <3>3. CASE o \in all /\ \A i \in DOMAIN list : i \in Named(list) /\ list[i][key] >= o[key]
      <4>1. \A i \in DOMAIN list : i \in Named(list2)
        BY <2>12, <2>13, <3>3
      <4>2. a[key] >= o[key]
        <5>1. list[p][key] >= o[key] /\ o[key] \in Nat
          BY <3>3
        <5> QED BY <1>1, <1>5, <5>1
      <4>3. \A i \in DOMAIN list : list2[i][key] >= o[key]
        BY <2>1, <2>7, <3>3, <4>2
      <4> QED BY <2>1, <4>1, <4>3
    <3> QED BY <1>2, <2>14, <3>1, <3>2, <3>3
  <2>15. Best(list2, key, all \cup {a})
    BY <2>1, <2>6, <2>8, <2>9, <2>14 DEF Best
  <2>16. \A i \in DOMAIN list : list2[i].caller_addr = Null =>
             i > p /\ i - 1 \in DOMAIN list /\ list2[i] = list[i - 1]
    BY <2>1, <2>2, <2>4
  <2>17. ASSUME NEW i \in DOMAIN list, NEW j \in DOMAIN list, i < j, list2[i].caller_addr = Null
         PROVE  list2[j].caller_addr = Null
    <3>1. i > p /\ i - 1 \in DOMAIN list /\ list2[i] = list[i - 1]
      BY <2>16, <2>17
    <3>2. j > p /\ i - 1 < j - 1
      BY <1>1, <2>17, <3>1
    <3>3. j - 1 \in DOMAIN list /\ list2[j] = list[j - 1]
      BY <2>1, <3>2
    <3> QED BY <1>3, <2>17, <3>1, <3>2, <3>3
  <2>18. FreeBehind(list2, key)
    BY <1>3, <2>1, <2>16, <2>17 DEF FreeBehind
  <2> QED BY <2>15, <2>18
<1>6. \/ /\ list2 = list
         /\ \A i \in DOMAIN list : list[i][key] > a[key]
      \/ \E p \in DOMAIN list :
            /\ Inserts(list, list2, p, a)
            /\ a[key] >= list[p][key]
            /\ \A i \in DOMAIN list : i < p => list[i][key] > a[key]
  BY RankedFacts
<1> HIDE DEF list2
<1>7. Best(list2, key, all \cup {a}) /\ FreeBehind(list2, key)
  BY <1>4, <1>5, <1>6
<1> QED BY <1>7 DEF list2

\* Entries below n with a block, and their allocators.
RecordedBelow(t, n) == {i \in DOMAIN t : i < n /\ t[i].block # Null}
AllocatorsOf(t, S) == {AllocatorOf(t[i]) : i \in S}

\* An entry's allocator.
LEMMA EntryAllocator ==
    ASSUME NEW e \in MemBlock
    PROVE  /\ AllocatorOf(e) \in Allocator
           /\ AllocatorOf(e).caller_addr = e.caller_addr
           /\ \A key \in Keys : AllocatorOf(e)[key] \in Nat
<1>1. AllocatorOf(e) \in Allocator /\ AllocatorOf(e).caller_addr = e.caller_addr
  BY DEF AllocatorOf, Allocator, MemBlock
<1> QED BY <1>1, KeysAreNumbers

\* No list of allocators of some entries names the caller of another.
LEMMA OthersNotListed ==
    ASSUME NEW t, MemTable(t), NEW k, Entries(t, k), NEW S, S \subseteq DOMAIN t,
           NEW n \in DOMAIN t, n \notin S, t[n].block # Null,
           NEW list, NEW key, Best(list, key, AllocatorsOf(t, S))
    PROVE  /\ t[n].caller_addr # Null
           /\ \A o \in AllocatorsOf(t, S) : o.caller_addr # t[n].caller_addr
           /\ ~Listed(list, t[n].caller_addr)
<1>1. \A i \in DOMAIN t : t[i] \in MemBlock
  BY RowsTyped, CountsAssumption DEF MemTable
<1>2. t[n].caller_addr # Null
  BY DEF Entries
<1>3. ASSUME NEW o \in AllocatorsOf(t, S) PROVE o.caller_addr # t[n].caller_addr
  <2>1. PICK i \in S : o = AllocatorOf(t[i])
    BY DEF AllocatorsOf
  <2>2. o.caller_addr = t[i].caller_addr /\ i # n /\ i \in DOMAIN t
    BY <1>1, <2>1, EntryAllocator
  <2> QED BY <1>2, <2>2 DEF Entries
<1>4. \A i \in DOMAIN list : list[i].caller_addr # Null => list[i] \in AllocatorsOf(t, S)
  BY DEF Best
<1>5. ~Listed(list, t[n].caller_addr)
  BY <1>2, <1>3, <1>4 DEF Listed
<1> QED BY <1>2, <1>3, <1>5

\* The snap shot's list after n turns.
SnapGood(t, n) ==
    LET list == SnapTurns(t)[n]
    IN  /\ list \in AllocatorList(max_snap_shot_allocators_count)
        /\ max_snap_shot_allocators_count <= UInt8 =>
              /\ Best(list, "total_memory", AllocatorsOf(t, RecordedBelow(t, n)))
              /\ FreeBehind(list, "total_memory")

\* One more turn.
LEMMA SnapOneTurn ==
    ASSUME NEW t, MemTable(t), NEW k, Entries(t, k), NEW n \in DOMAIN t, SnapGood(t, n)
    PROVE  SnapGood(t, n + 1)
<1> DEFINE list == SnapTurns(t)[n]
           list2 == SnapTurns(t)[n + 1]
           e == t[n]
           a == AllocatorOf(e)
           max == max_snap_shot_allocators_count
           key == "total_memory"
           S == RecordedBelow(t, n)
           S2 == RecordedBelow(t, n + 1)
<1>1. n \in Nat /\ e \in MemBlock /\ DOMAIN t \subseteq Nat
  BY RowsTyped, CountsAssumption DEF MemTable
<1>2. list2 = IF e.block = Null \/ Listed(list, e.caller_addr) THEN list
              ELSE Ranked(list, a, key)
  BY <1>1, SnapTurnsAre DEF SnapTurn
<1>3. /\ list \in AllocatorList(max)
      /\ max <= UInt8 => Best(list, key, AllocatorsOf(t, S)) /\ FreeBehind(list, key)
  BY DEF SnapGood
<1>4. max \in Nat /\ key \in Keys /\ a \in Allocator /\ a.caller_addr = e.caller_addr
  BY <1>1, EntryAllocator, CountsAssumption DEF Keys
<1>5. \A i \in DOMAIN t : i < n + 1 <=> i < n \/ i = n
  BY <1>1
<1>6. S \subseteq DOMAIN t /\ n \notin S
  BY <1>1 DEF RecordedBelow
<1>7. S2 = IF e.block = Null THEN S ELSE S \cup {n}
  BY <1>5 DEF RecordedBelow
<1> HIDE DEF list, list2, S, S2
<1>8. CASE e.block = Null
  <2>1. list2 = list /\ S2 = S
    BY <1>2, <1>7, <1>8
  <2> QED BY <1>3, <2>1 DEF SnapGood, list2, S2
<1>9. CASE e.block # Null
  <2>1. AllocatorsOf(t, S2) = AllocatorsOf(t, S) \cup {a}
    BY <1>7, <1>9 DEF AllocatorsOf
  <2>2. Ranked(list, a, key) \in AllocatorList(max)
    BY <1>3, <1>4, RankedFacts
  <2>3. list2 \in AllocatorList(max)
    BY <1>2, <1>3, <2>2
  <2>4. ASSUME max <= UInt8
        PROVE  Best(list2, key, AllocatorsOf(t, S2)) /\ FreeBehind(list2, key)
    <3>1. Best(list, key, AllocatorsOf(t, S)) /\ FreeBehind(list, key)
      BY <1>3, <2>4
    <3>2. /\ e.caller_addr # Null
          /\ \A o \in AllocatorsOf(t, S) : o.caller_addr # e.caller_addr
          /\ ~Listed(list, e.caller_addr)
      BY <1>6, <1>9, <3>1, OthersNotListed
    <3>3. \A o \in AllocatorsOf(t, S) : o[key] \in Nat
      BY <1>4, <1>6, EntryAllocator, RowsTyped, CountsAssumption DEF AllocatorsOf, MemTable
    <3>4. list2 = Ranked(list, a, key)
      BY <1>2, <1>9, <3>2
    <3> QED BY <1>3, <1>4, <2>1, <2>4, <3>1, <3>2, <3>3, <3>4, RankedBest
  <2> QED BY <2>3, <2>4 DEF SnapGood, list2, S2
<1> QED BY <1>8, <1>9

\* All turns.
LEMMA SnapLoop ==
    ASSUME NEW t, MemTable(t), NEW k \in DOMAIN t, t # NoTable, Entries(t, k)
    PROVE  SnapGood(t, k + 1)
<1> DEFINE T == {n \in 0..(k + 1) : ~SnapGood(t, n)}
<1>1. k \in Nat /\ 0..k \subseteq DOMAIN t /\ DOMAIN t \subseteq Nat
  BY UsedEntries, RowsTyped, CountsAssumption DEF MemTable
<1> SUFFICES ASSUME T # {} PROVE FALSE
  BY <1>1
<1>2. T \subseteq Nat
  BY <1>1
<1>3. PICK n \in T : \A j \in T : n <= j
  BY <1>2, NatLeast
<1>4. n \in 0..(k + 1) /\ ~SnapGood(t, n)
  OBVIOUS
<1>5. SnapGood(t, 0)
  <2>1. RecordedBelow(t, 0) = {}
    BY <1>1 DEF RecordedBelow
  <2>2. AllocatorsOf(t, RecordedBelow(t, 0)) = {}
    BY <2>1 DEF AllocatorsOf
  <2>3. "total_memory" \in Keys /\ max_snap_shot_allocators_count \in Nat
    BY CountsAssumption DEF Keys
  <2> QED BY <2>2, <2>3, SnapTurnsAre, ClearedList DEF SnapGood
<1>6. n # 0
  BY <1>4, <1>5
<1>7. n - 1 \in 0..k /\ n - 1 \in 0..(k + 1) /\ ~(n <= n - 1) /\ (n - 1) + 1 = n
  BY <1>1, <1>4, <1>6
<1>8. SnapGood(t, n - 1)
  BY <1>3, <1>7
<1>9. SnapGood(t, (n - 1) + 1)
  BY <1>1, <1>7, <1>8, SnapOneTurn
<1> QED BY <1>4, <1>7, <1>9

\* A list of allocators holds allocators.
LEMMA ListRange ==
    ASSUME NEW n, NEW list \in AllocatorList(n)
    PROVE  Range(list) \subseteq Allocator
BY DEF AllocatorList, Range

\* Lists without overflow of the uint8_t counters.
ListsShort ==
    /\ top_allocators_count <= UInt8
    /\ max_snap_shot_allocators_count <= UInt8

\* A snap shot is taken.
LEMMA SnapStep ==
    ASSUME LedgerInv, ns_dyn_mem_tracker_lib_max_snap_shot_update
    PROVE  LedgerInv' /\ (ListsShort => ListsHoldLargest')
<1> DEFINE t == mem_blocks
           k == last_mem_block_index
           list == SnapTurns(t)[k + 1]
<1>1. /\ t # NoTable
      /\ last' = [call |-> "snap_shot_update", rc |-> 0,
                  lists |-> [max_snap_shot_allocators |-> list]]
      /\ UNCHANGED <<tables, held, lost>>
  BY DEF ns_dyn_mem_tracker_lib_max_snap_shot_update, Writes
<1>2. MemTable(t) /\ Entries(t, k) /\ k \in DOMAIN t /\ DOMAIN t \subseteq Nat
  BY <1>1, RowsTyped, CountsAssumption DEF LedgerInv, LastIndex, MemTable
<1>3. SnapGood(t, k + 1)
  BY <1>1, <1>2, SnapLoop
<1>4. list \in AllocatorList(max_snap_shot_allocators_count)
  BY <1>3 DEF SnapGood
<1>5. Range(list) \subseteq Allocator
  BY <1>4, ListRange
<1>6. RecordedBelow(t, k + 1) = Recorded(t)
  <2>1. \A j \in DOMAIN t : t[j].block # Null => j < k + 1
    BY <1>1, <1>2, UsedEntries
  <2> QED BY <2>1 DEF RecordedBelow, Recorded
<1>7. ListsShort => Best(list, "total_memory", AllocatorsOf(t, Recorded(t)))
  BY <1>3, <1>6 DEF SnapGood, ListsShort
<1> HIDE DEF list
<1>8. Answered'
  BY <1>1, <1>5 DEF Answered
<1>9. LedgerInv'
  BY <1>1, <1>8 DEF LedgerInv, tables
<1>10. ASSUME ListsShort PROVE ListsHoldLargest'
  <2>1. mem_blocks' = mem_blocks
    BY <1>1 DEF tables
  <2>2. last'.lists.max_snap_shot_allocators = list /\ last'.call = "snap_shot_update"
    BY <1>1
  <2>3. Best(last'.lists.max_snap_shot_allocators, "total_memory",
             AllocatorsOf(mem_blocks', Recorded(mem_blocks')))
    BY <1>7, <1>10, <2>1, <2>2
  <2>4. LargestOf(last.lists.max_snap_shot_allocators, "total_memory", Recorded(mem_blocks))'
    BY <2>3 DEF LargestOf, Best, AllocatorsOf
  <2> QED BY <2>2, <2>4 DEF ListsHoldLargest
<1> QED BY <1>9, <1>10

-----------------------------------------------------------------------------
(* ns_dyn_mem_tracker_lib_allocator_lists_update *)

LoopState(D) ==
    [blocks : [D -> MemBlock],
     top : AllocatorList(top_allocators_count),
     permanent : AllocatorList(permanent_allocators_count),
     to_permanent : AllocatorList(to_permanent_allocators_count),
     permanents : Nat, to_permanents : Nat]

\* Only flags differ, and a caller turns permanent after its time only.
OnlyFlags(t, t2) ==
    /\ SameRows(t, t2)
    /\ \A i \in DOMAIN t :
          /\ t2[i].lifetime = t[i].lifetime
          /\ t2[i].permanent => t[i].permanent \/ t[i].lifetime > to_permanent_steps_count

\* Entries below n that are not permanent.
PassingBelow(t, n) == {i \in RecordedBelow(t, n) : ~t[i].permanent}

\* The lists after n turns.
ListGood(t, n) ==
    LET s == ListTurns(t)[n]
    IN  /\ s \in LoopState(DOMAIN t)
        /\ OnlyFlags(t, s.blocks)
        /\ top_allocators_count <= UInt8 =>
              /\ Best(s.top, "alloc_count", AllocatorsOf(t, PassingBelow(s.blocks, n)))
              /\ FreeBehind(s.top, "alloc_count")

\* The next place of a list is written.
LEMMA ListPut ==
    ASSUME NEW n \in Nat, NEW list \in AllocatorList(n), NEW p \in Nat, NEW a \in Allocator
    PROVE  [list EXCEPT ![p] = a] \in AllocatorList(n)
BY DEF AllocatorList

\* Flags of an entry are written.
LEMMA FlagPut ==
    ASSUME NEW D, NEW t, DOMAIN t = D, NEW u \in [D -> MemBlock], OnlyFlags(t, u),
           NEW i \in D, NEW e \in MemBlock,
           e.block = u[i].block, e.caller_addr = u[i].caller_addr, e.size = u[i].size,
           e.total_size = u[i].total_size, e.ref_count = u[i].ref_count,
           e.lifetime = u[i].lifetime,
           e.permanent => u[i].permanent \/ u[i].lifetime > to_permanent_steps_count
    PROVE  /\ [u EXCEPT ![i] = e] \in [D -> MemBlock]
           /\ OnlyFlags(t, [u EXCEPT ![i] = e])
           /\ [u EXCEPT ![i] = e][i] = e
           /\ \A j \in D : j # i => [u EXCEPT ![i] = e][j] = u[j]
<1> DEFINE u2 == [u EXCEPT ![i] = e]
<1>1. u2 \in [D -> MemBlock] /\ u2[i] = e /\ \A j \in D : j # i => u2[j] = u[j]
  OBVIOUS
<1> HIDE DEF u2
<1>2. OnlyFlags(t, u2)
  BY <1>1 DEF OnlyFlags, SameRows
<1> QED BY <1>1, <1>2 DEF u2

\* A turn over entry n of u makes u2 of it.
OneTurn(D, u, u2, n) ==
    /\ DOMAIN u = D /\ DOMAIN u2 = D /\ n \in D
    /\ \A j \in D : j # n => u2[j] = u[j]
    /\ u2[n].block = u[n].block
PassesOrNot(u, u2, n) ==
    /\ u[n].block = Null \/ u2[n].permanent => PassingBelow(u2, n + 1) = PassingBelow(u, n)
    /\ ~(u[n].block = Null \/ u2[n].permanent) =>
           PassingBelow(u2, n + 1) = PassingBelow(u, n) \cup {n}

\* The entries to be listed after one more turn.
LEMMA PassingNext ==
    ASSUME NEW D, D \subseteq Nat, NEW u, NEW u2, NEW n, OneTurn(D, u, u2, n)
    PROVE  PassesOrNot(u, u2, n)
<1>1. n \in Nat /\ \A j \in D : j < n + 1 <=> j < n \/ j = n
  BY DEF OneTurn
<1>2. n \notin PassingBelow(u, n) /\ \A j \in D : j < n => j # n
  BY <1>1 DEF PassingBelow, RecordedBelow
<1> QED BY <1>1, <1>2 DEF PassingBelow, RecordedBelow, OneTurn, PassesOrNot

\* One more turn.
LEMMA ListOneTurn ==
    ASSUME NEW t, MemTable(t), NEW k, Entries(t, k), NEW n \in DOMAIN t, ListGood(t, n)
    PROVE  ListGood(t, n + 1)
<1> DEFINE D == DOMAIN t
           s == ListTurns(t)[n]
           s2 == ListTurns(t)[n + 1]
           e == s.blocks[n]
           a == AllocatorOf(e)
           key == "alloc_count"
           max == top_allocators_count
           S == PassingBelow(s.blocks, n)
<1>1. n \in Nat /\ t[n] \in MemBlock /\ D \subseteq Nat
  BY RowsTyped, CountsAssumption DEF MemTable
<1>2. /\ s \in LoopState(D) /\ OnlyFlags(t, s.blocks)
      /\ max <= UInt8 => Best(s.top, key, AllocatorsOf(t, S)) /\ FreeBehind(s.top, key)
  BY DEF ListGood
<1>3. s2 = ListTurn(s, n)
  BY <1>1, ListTurnsAre
<1> HIDE DEF s, s2
<1>4. /\ s.blocks \in [D -> MemBlock] /\ e \in MemBlock /\ s.permanents \in Nat
      /\ s.to_permanents \in Nat /\ s.top \in AllocatorList(max)
      /\ s.permanent \in AllocatorList(permanent_allocators_count)
      /\ s.to_permanent \in AllocatorList(to_permanent_allocators_count)
  BY <1>2 DEF LoopState
<1>5. /\ max \in Nat /\ permanent_allocators_count \in Nat
      /\ to_permanent_allocators_count \in Nat /\ key \in Keys
      /\ a \in Allocator /\ a.caller_addr = e.caller_addr
  BY <1>4, EntryAllocator, CountsAssumption DEF Keys
<1>6. a = AllocatorOf(t[n]) /\ e.block = t[n].block /\ e.caller_addr = t[n].caller_addr
  BY <1>2 DEF OnlyFlags, SameRows, AllocatorOf
<1>7. S \subseteq D /\ n \notin S
  BY <1>1, <1>4 DEF PassingBelow, RecordedBelow
<1>8. \A m \in Nat : (m + 1) % UInt8 \in Nat
  BY CountsAssumption
<1> HIDE DEF a, S
\* Turns that change nothing, flags, or the list of the largest.
<1>9. ASSUME s2 \in LoopState(D), OnlyFlags(t, s2.blocks), s2.top = s.top,
             \A j \in D : j # n => s2.blocks[j] = s.blocks[j],
             \/ s.blocks[n].block = Null
             \/ s2.blocks[n].permanent
             \/ e.block # Null /\ Listed(s.top, e.caller_addr)
      PROVE  ListGood(t, n + 1)
  <2>1. ASSUME max <= UInt8
        PROVE  Best(s2.top, key, AllocatorsOf(t, PassingBelow(s2.blocks, n + 1)))
               /\ FreeBehind(s2.top, key)
    <3>1. Best(s.top, key, AllocatorsOf(t, S)) /\ FreeBehind(s.top, key)
      BY <1>2, <2>1
    <3>2. ~(e.block # Null /\ Listed(s.top, e.caller_addr))
      BY <1>6, <1>7, <3>1, OthersNotListed
    <3>3. DOMAIN s.blocks = D /\ DOMAIN s2.blocks = D /\ s2.blocks[n].block = s.blocks[n].block
      BY <1>2, <1>9 DEF OnlyFlags, SameRows
    <3>4. PassingBelow(s2.blocks, n + 1) = S
      <4>1. OneTurn(D, s.blocks, s2.blocks, n)
        BY <1>9, <3>3 DEF OneTurn
      <4>2. PassesOrNot(s.blocks, s2.blocks, n)
        BY <1>1, <4>1, PassingNext
      <4>3. s.blocks[n].block = Null \/ s2.blocks[n].permanent
        BY <1>9, <3>2
      <4> QED BY <4>2, <4>3 DEF S, PassesOrNot
    <3> QED BY <1>9, <3>1, <3>4
  <2> QED BY <1>9, <2>1 DEF ListGood, s2
<1>10. CASE e.block = Null \/ Listed(s.top, e.caller_addr)
  <2>1. s2 = s
    BY <1>3, <1>10 DEF ListTurn
  <2> QED BY <1>2, <1>9, <1>10, <2>1
<1>11. CASE ~(e.block = Null \/ Listed(s.top, e.caller_addr)) /\ e.permanent
  <2>1. CASE e.permanent_printed \/ s.permanents >= permanent_allocators_count
    <3>1. s2 = s
      BY <1>3, <1>11, <2>1 DEF ListTurn
    <3> QED BY <1>2, <1>9, <1>11, <3>1
  <2>2. CASE ~(e.permanent_printed \/ s.permanents >= permanent_allocators_count)
    <3> DEFINE e2 == [e EXCEPT !.permanent_printed = TRUE]
               u2 == [s.blocks EXCEPT ![n] = e2]
               list == [s.permanent EXCEPT ![s.permanents] = a]
    <3>1. s2 = [s EXCEPT !.permanent[s.permanents] = a,
                         !.permanents = (s.permanents + 1) % UInt8,
                         !.blocks[n].permanent_printed = TRUE]
      BY <1>3, <1>11, <2>2 DEF ListTurn, a
    <3>2. s2 \in [blocks : {u2}, top : {s.top}, permanent : {list},
                  to_permanent : {s.to_permanent},
                  permanents : {(s.permanents + 1) % UInt8}, to_permanents : {s.to_permanents}]
      BY <1>2, <3>1 DEF LoopState
    <3>3. /\ e2 \in MemBlock /\ e2.block = e.block /\ e2.caller_addr = e.caller_addr
          /\ e2.size = e.size /\ e2.total_size = e.total_size /\ e2.ref_count = e.ref_count
          /\ e2.lifetime = e.lifetime /\ e2.permanent = e.permanent
      BY <1>4 DEF MemBlock
    <3> HIDE DEF e2
    <3>4. /\ u2 \in [D -> MemBlock] /\ OnlyFlags(t, u2) /\ u2[n] = e2
          /\ \A j \in D : j # n => u2[j] = s.blocks[j]
      BY <1>2, <1>4, <3>3, FlagPut
    <3>5. list \in AllocatorList(permanent_allocators_count)
      BY <1>4, <1>5, ListPut
    <3>6. (s.permanents + 1) % UInt8 \in Nat
      BY <1>4, <1>8
    <3> HIDE DEF u2, list
    <3>7. s2 \in LoopState(D) /\ s2.blocks = u2 /\ s2.top = s.top
      BY <1>4, <3>2, <3>4, <3>5, <3>6 DEF LoopState
    <3> QED BY <1>9, <1>11, <3>3, <3>4, <3>7
  <2> QED BY <2>1, <2>2
<1>12. CASE /\ ~(e.block = Null \/ Listed(s.top, e.caller_addr)) /\ ~e.permanent
            /\ e.lifetime > to_permanent_steps_count
            /\ s.to_permanents < to_permanent_allocators_count
  <2> DEFINE e2 == [e EXCEPT !.permanent = TRUE]
             u2 == [s.blocks EXCEPT ![n] = e2]
             list == [s.to_permanent EXCEPT ![s.to_permanents] = a]
  <2>1. s2 = [s EXCEPT !.to_permanent[s.to_permanents] = a,
                       !.to_permanents = (s.to_permanents + 1) % UInt8,
                       !.blocks[n].permanent = TRUE]
    BY <1>3, <1>12 DEF ListTurn, a
  <2>2. s2 \in [blocks : {u2}, top : {s.top}, permanent : {s.permanent}, to_permanent : {list},
                permanents : {s.permanents},
                to_permanents : {(s.to_permanents + 1) % UInt8}]
    BY <1>2, <2>1 DEF LoopState
  <2>3. /\ e2 \in MemBlock /\ e2.block = e.block /\ e2.caller_addr = e.caller_addr
        /\ e2.size = e.size /\ e2.total_size = e.total_size /\ e2.ref_count = e.ref_count
        /\ e2.lifetime = e.lifetime /\ e2.permanent
    BY <1>4 DEF MemBlock
  <2> HIDE DEF e2
  <2>4. /\ u2 \in [D -> MemBlock] /\ OnlyFlags(t, u2) /\ u2[n] = e2
        /\ \A j \in D : j # n => u2[j] = s.blocks[j]
    BY <1>2, <1>4, <1>12, <2>3, FlagPut
  <2>5. list \in AllocatorList(to_permanent_allocators_count)
    BY <1>4, <1>5, ListPut
  <2>6. (s.to_permanents + 1) % UInt8 \in Nat
    BY <1>4, <1>8
  <2> HIDE DEF u2, list
  <2>7. s2 \in LoopState(D) /\ s2.blocks = u2 /\ s2.top = s.top
    BY <1>4, <2>2, <2>4, <2>5, <2>6 DEF LoopState
  <2> QED BY <1>9, <2>3, <2>4, <2>7
<1>13. CASE /\ ~(e.block = Null \/ Listed(s.top, e.caller_addr)) /\ ~e.permanent
            /\ ~(/\ e.lifetime > to_permanent_steps_count
                 /\ s.to_permanents < to_permanent_allocators_count)
  <2> DEFINE list == Ranked(s.top, a, key)
  <2>1. s2 = [s EXCEPT !.top = list]
    BY <1>3, <1>13 DEF ListTurn, a
  <2>2. list \in AllocatorList(max)
    BY <1>4, <1>5, RankedFacts
  <2>3. s2 \in LoopState(D) /\ s2.blocks = s.blocks /\ s2.top = list
    BY <1>2, <2>1, <2>2 DEF LoopState
  <2> HIDE DEF list
  <2>4. ASSUME max <= UInt8
        PROVE  Best(s2.top, key, AllocatorsOf(t, PassingBelow(s2.blocks, n + 1)))
               /\ FreeBehind(s2.top, key)
    <3>1. Best(s.top, key, AllocatorsOf(t, S)) /\ FreeBehind(s.top, key)
      BY <1>2, <2>4
    <3>2. /\ t[n].caller_addr # Null
          /\ \A o \in AllocatorsOf(t, S) : o.caller_addr # t[n].caller_addr
      BY <1>6, <1>7, <1>13, <3>1, OthersNotListed
    <3>3. \A o \in AllocatorsOf(t, S) : o[key] \in Nat
      BY <1>5, <1>7, EntryAllocator, RowsTyped, CountsAssumption DEF AllocatorsOf, MemTable
    <3>4. PassingBelow(s2.blocks, n + 1) = S \cup {n}
      <4>1. OneTurn(D, s.blocks, s2.blocks, n)
        BY <1>4, <2>3 DEF OneTurn
      <4>2. PassesOrNot(s.blocks, s2.blocks, n)
        BY <1>1, <4>1, PassingNext
      <4>3. ~(s.blocks[n].block = Null \/ s2.blocks[n].permanent)
        BY <1>13, <2>3
      <4> QED BY <4>2, <4>3 DEF S, PassesOrNot
    <3>5. AllocatorsOf(t, S \cup {n}) = AllocatorsOf(t, S) \cup {a}
      BY <1>6 DEF AllocatorsOf
    <3>6. Best(list, key, AllocatorsOf(t, S) \cup {a}) /\ FreeBehind(list, key)
      BY <1>4, <1>5, <1>6, <2>4, <3>1, <3>2, <3>3, RankedBest DEF list
    <3> QED BY <2>3, <3>4, <3>5, <3>6
  <2> QED BY <1>2, <2>3, <2>4 DEF ListGood, s2
<1> QED BY <1>10, <1>11, <1>12, <1>13

\* All turns.
LEMMA ListLoop ==
    ASSUME NEW t, MemTable(t), NEW k \in DOMAIN t, t # NoTable, Entries(t, k)
    PROVE  ListGood(t, k + 1)
<1> DEFINE T == {n \in 0..(k + 1) : ~ListGood(t, n)}
<1>1. k \in Nat /\ 0..k \subseteq DOMAIN t /\ DOMAIN t \subseteq Nat
  BY UsedEntries, RowsTyped, CountsAssumption DEF MemTable
<1> SUFFICES ASSUME T # {} PROVE FALSE
  BY <1>1
<1>2. T \subseteq Nat
  BY <1>1
<1>3. PICK n \in T : \A j \in T : n <= j
  BY <1>2, NatLeast
<1>4. n \in 0..(k + 1) /\ ~ListGood(t, n)
  OBVIOUS
<1>5. ListGood(t, 0)
  <2> DEFINE s == ListTurns(t)[0]
  <2>1. s = ListStart(t)
    BY ListTurnsAre
  <2> HIDE DEF s
  <2>2. s.blocks = t /\ s.top = Cleared(top_allocators_count)
    BY <2>1 DEF ListStart
  <2>3. PassingBelow(t, 0) = {}
    BY <1>1 DEF PassingBelow, RecordedBelow
  <2>4. AllocatorsOf(t, PassingBelow(t, 0)) = {}
    BY <2>3 DEF AllocatorsOf
  <2>5. /\ "alloc_count" \in Keys /\ top_allocators_count \in Nat
        /\ permanent_allocators_count \in Nat /\ to_permanent_allocators_count \in Nat
    BY CountsAssumption DEF Keys
  <2>6. /\ Cleared(top_allocators_count) \in AllocatorList(top_allocators_count)
        /\ Best(s.top, "alloc_count", {}) /\ FreeBehind(s.top, "alloc_count")
        /\ Cleared(permanent_allocators_count) \in AllocatorList(permanent_allocators_count)
        /\ Cleared(to_permanent_allocators_count) \in AllocatorList(to_permanent_allocators_count)
    BY <2>2, <2>5, ClearedList
  <2>7. t \in [DOMAIN t -> MemBlock]
    BY TableDomain, CountsAssumption DEF MemTable
  <2>8. s \in LoopState(DOMAIN t)
    BY <2>1, <2>6, <2>7 DEF LoopState, ListStart
  <2>9. OnlyFlags(t, s.blocks)
    BY <2>2 DEF OnlyFlags, SameRows
  <2> QED BY <2>2, <2>4, <2>6, <2>8, <2>9 DEF ListGood, s
<1>6. n # 0
  BY <1>4, <1>5
<1>7. n - 1 \in 0..k /\ n - 1 \in 0..(k + 1) /\ ~(n <= n - 1) /\ (n - 1) + 1 = n
  BY <1>1, <1>4, <1>6
<1>8. ListGood(t, n - 1)
  BY <1>3, <1>7
<1>9. ListGood(t, (n - 1) + 1)
  BY <1>1, <1>7, <1>8, ListOneTurn
<1> QED BY <1>4, <1>7, <1>9

\* permanent_printed is set in every entry.
LEMMA PrintedSet ==
    ASSUME NEW t, MemTable(t), NEW u \in [DOMAIN t -> MemBlock], OnlyFlags(t, u)
    PROVE  LET u2 == ns_dyn_mem_tracker_lib_permanent_printed_value_set(u, FALSE)
           IN  /\ u2 \in [DOMAIN t -> MemBlock] /\ OnlyFlags(t, u2)
               /\ \A i \in DOMAIN t : u2[i].permanent = u[i].permanent
<1> DEFINE D == DOMAIN t
           New(e) == [e EXCEPT !.permanent_printed = FALSE]
           u2 == ns_dyn_mem_tracker_lib_permanent_printed_value_set(u, FALSE)
<1>1. \A e \in MemBlock :
         /\ New(e) \in MemBlock /\ New(e).block = e.block /\ New(e).caller_addr = e.caller_addr
         /\ New(e).size = e.size /\ New(e).total_size = e.total_size
         /\ New(e).ref_count = e.ref_count /\ New(e).lifetime = e.lifetime
         /\ New(e).permanent = e.permanent
  BY DEF MemBlock
<1>2. u2 = [i \in D |-> IF i <= last_mem_block_index THEN New(u[i]) ELSE u[i]]
  BY DEF ns_dyn_mem_tracker_lib_permanent_printed_value_set
<1> HIDE DEF New, u2
<1>3. /\ u2 = [i \in D |-> u2[i]] /\ DOMAIN u2 = D
      /\ \A i \in D : u2[i] = New(u[i]) \/ u2[i] = u[i]
  BY <1>2
<1>4. \A i \in D : u[i] \in MemBlock
  OBVIOUS
<1>5. \A i \in D :
         /\ u2[i] \in MemBlock /\ u2[i].block = u[i].block /\ u2[i].caller_addr = u[i].caller_addr
         /\ u2[i].size = u[i].size /\ u2[i].total_size = u[i].total_size
         /\ u2[i].ref_count = u[i].ref_count /\ u2[i].lifetime = u[i].lifetime
         /\ u2[i].permanent = u[i].permanent
  BY <1>1, <1>3, <1>4
<1>6. u2 \in [D -> MemBlock]
  BY <1>3, <1>5
<1>7. OnlyFlags(t, u2)
  BY <1>3, <1>5 DEF OnlyFlags, SameRows
<1> QED BY <1>5, <1>6, <1>7 DEF u2

\* The lists are updated.
LEMMA ListsStep ==
    ASSUME LedgerInv, ns_dyn_mem_tracker_lib_allocator_lists_update
    PROVE  LedgerInv' /\ (ListsShort => ListsHoldLargest')
<1> DEFINE t == mem_blocks
           t2 == mem_blocks'
           k == last_mem_block_index
           s == ListTurns(t)[k + 1]
           D == DOMAIN t
<1>1. /\ t # NoTable
      /\ last' = [call |-> "lists_update", rc |-> 0,
                  lists |-> [top_allocators |-> s.top,
                             permanent_allocators |-> s.permanent,
                             to_permanent_allocators |-> s.to_permanent]]
      /\ \/ t2 = ns_dyn_mem_tracker_lib_permanent_printed_value_set(s.blocks, FALSE)
         \/ t2 = s.blocks
      /\ UNCHANGED <<ext_mem_blocks, last_mem_block_index, allocated_memory, held, lost>>
  BY DEF ns_dyn_mem_tracker_lib_allocator_lists_update, Writes
<1>2. /\ MemTable(t) /\ Entries(t, k) /\ k \in D /\ D \subseteq Nat /\ Held(held)
      /\ LastIndex(t, k, lost)
      /\ ~lost => Ledger(t, ext_mem_blocks, allocated_memory, held)
  BY <1>1, RowsTyped, CountsAssumption DEF LedgerInv, LastIndex, MemTable
<1>3. ListGood(t, k + 1)
  BY <1>1, <1>2, ListLoop
<1>4. /\ s \in LoopState(D) /\ OnlyFlags(t, s.blocks)
      /\ top_allocators_count <= UInt8 =>
            Best(s.top, "alloc_count", AllocatorsOf(t, PassingBelow(s.blocks, k + 1)))
  BY <1>3 DEF ListGood
<1> HIDE DEF s
<1>5. /\ s.blocks \in [D -> MemBlock] /\ s.top \in AllocatorList(top_allocators_count)
      /\ s.permanent \in AllocatorList(permanent_allocators_count)
      /\ s.to_permanent \in AllocatorList(to_permanent_allocators_count)
  BY <1>4 DEF LoopState
<1>6. /\ t2 \in [D -> MemBlock] /\ OnlyFlags(t, t2)
      /\ \A i \in D : t2[i].permanent = s.blocks[i].permanent
  <2> DEFINE u2 == ns_dyn_mem_tracker_lib_permanent_printed_value_set(s.blocks, FALSE)
  <2>1. /\ u2 \in [D -> MemBlock] /\ OnlyFlags(t, u2)
        /\ \A i \in D : u2[i].permanent = s.blocks[i].permanent
    BY <1>2, <1>4, <1>5, PrintedSet
  <2>2. t2 = u2 \/ t2 = s.blocks
    BY <1>1
  <2> HIDE DEF u2
  <2> QED BY <1>4, <1>5, <2>1, <2>2
<1>7. SameRows(t, t2) /\ DOMAIN t2 = D
  BY <1>6 DEF OnlyFlags
<1>8. MemTable(t2) /\ LastIndex(t2, k, lost)
  BY <1>2, <1>6, ChangedTable
<1>9. ASSUME Ledger(t, ext_mem_blocks, allocated_memory, held) PROVE Youngest(t2, held)
  <2> SUFFICES ASSUME NEW i \in D, NEW b \in Owned(held, t2[i].caller_addr)
               PROVE  /\ t2[i].lifetime <= held[b].age
                      /\ t2[i].permanent => held[b].age > to_permanent_steps_count
    BY <1>7 DEF Youngest
  <2>1. /\ t2[i].caller_addr = t[i].caller_addr /\ t2[i].lifetime = t[i].lifetime
        /\ t2[i].permanent => t[i].permanent \/ t[i].lifetime > to_permanent_steps_count
    BY <1>6 DEF OnlyFlags, SameRows
  <2>2. /\ t[i].lifetime <= held[b].age
        /\ t[i].permanent => held[b].age > to_permanent_steps_count
    BY <1>9, <2>1 DEF Ledger, Youngest
  <2>3. held[b].age \in Nat /\ t[i].lifetime \in Nat /\ to_permanent_steps_count \in Nat
    <3>1. t[i] \in MemBlock
      BY <1>2, RowsTyped, CountsAssumption DEF MemTable
    <3>2. t[i].lifetime \in Nat
      BY <3>1, Unsigned DEF MemBlock
    <3> QED BY <1>2, <3>2, CountsAssumption DEF Held, Holding, Owned, Tracking
  <2>4. t[i].lifetime > to_permanent_steps_count => held[b].age > to_permanent_steps_count
    BY <2>2, <2>3
  <2> QED BY <2>1, <2>2, <2>4
<1>10. SameTracked(held, held)
  BY DEF SameTracked
<1>11. Entries(t2, k) /\ (~lost => Ledger(t2, ext_mem_blocks, allocated_memory, held))
  BY <1>2, <1>7, <1>9, <1>10, SameLedger
<1>12. Answered'
  <2>1. /\ Range(s.top) \subseteq Allocator /\ Range(s.permanent) \subseteq Allocator
        /\ Range(s.to_permanent) \subseteq Allocator
    BY <1>5, ListRange
  <2> QED BY <1>1, <2>1 DEF Answered
<1>13. LedgerInv'
  BY <1>1, <1>8, <1>11, <1>12 DEF LedgerInv
<1>14. ASSUME ListsShort PROVE ListsHoldLargest'
  <2> DEFINE S == PassingBelow(s.blocks, k + 1)
             R == {i \in Recorded(t2) : ~t2[i].permanent}
  <2>1. Best(s.top, "alloc_count", AllocatorsOf(t, S))
    BY <1>4, <1>14 DEF ListsShort
  <2>2. DOMAIN s.blocks = D /\ \A i \in D : s.blocks[i].block = t[i].block /\ t2[i].block = t[i].block
    BY <1>4, <1>7 DEF OnlyFlags, SameRows
  <2>3. \A j \in D : t[j].block # Null => j < k + 1
    BY <1>1, <1>2, UsedEntries
  <2>4. S = R
    BY <1>6, <1>7, <2>2, <2>3 DEF PassingBelow, RecordedBelow, Recorded
  <2>5. \A i \in D : AllocatorOf(t2[i]) = AllocatorOf(t[i])
    BY <1>6 DEF OnlyFlags, SameRows, AllocatorOf
  <2>6. R \subseteq D
    BY <1>7 DEF Recorded
  <2>7. AllocatorsOf(t2, R) = AllocatorsOf(t, S)
    BY <2>4, <2>5, <2>6 DEF AllocatorsOf
  <2>8. last'.lists.top_allocators = s.top /\ last'.call = "lists_update"
    BY <1>1
  <2> HIDE DEF S
  <2>9. Best(last'.lists.top_allocators, "alloc_count",
             AllocatorsOf(mem_blocks', {i \in Recorded(mem_blocks') : ~mem_blocks'[i].permanent}))
    BY <2>1, <2>7, <2>8
  <2>10. LargestOf(last.lists.top_allocators, "alloc_count",
                   {i \in Recorded(mem_blocks) : ~mem_blocks[i].permanent})'
    BY <2>9 DEF LargestOf, Best, AllocatorsOf
  <2> QED BY <2>8, <2>10 DEF ListsHoldLargest
<1> QED BY <1>13, <1>14

-----------------------------------------------------------------------------
(* The theorems *)

\* Before any call.
LEMMA InitLedger == Init => LedgerInv
<1> SUFFICES ASSUME Init PROVE LedgerInv
  OBVIOUS
<1>1. DOMAIN NoTable = {} /\ MemTable(NoTable) /\ ExtTable(NoTable)
  BY NoTableTyped, CountsAssumption DEF MemTable, ExtTable
<1>2. mem_blocks = NoTable /\ ext_mem_blocks = NoTable /\ last_mem_block_index = 0
      /\ allocated_memory = 0 /\ held = << >> /\ ~lost /\ lost \in BOOLEAN
  BY DEF Init
<1>3. DOMAIN held = {}
  BY <1>2
<1>4. Tracking(held) = {} /\ Held(held)
  BY <1>3 DEF Tracking, Held
<1>5. AllBytes(held) = 0
  BY <1>4, SumEmpty DEF AllBytes, Weight
<1>6. Records(mem_blocks, ext_mem_blocks, held)
  BY <1>1, <1>2, <1>4 DEF Records, TrueRows, OnceEach, NoneTwice, AllThere
<1>7. HasEntry(mem_blocks, held) /\ Counts(mem_blocks, held) /\ Youngest(mem_blocks, held)
  BY <1>1, <1>2, <1>4 DEF HasEntry, Counts, Youngest
<1>8. 0 \in UInt32Value /\ 0 % UInt32 = 0
  BY CountsAssumption DEF UInt32Value
<1>9. Ledger(mem_blocks, ext_mem_blocks, allocated_memory, held)
  BY <1>2, <1>5, <1>6, <1>7, <1>8 DEF Ledger
<1>10. Answered
  BY DEF Init, Answered
<1>11. Entries(mem_blocks, last_mem_block_index) /\ Blank(ext_mem_blocks)
  BY <1>1, <1>2 DEF Entries, Blank
<1>12. LastIndex(mem_blocks, last_mem_block_index, lost)
  BY <1>2 DEF LastIndex
<1> QED BY <1>1, <1>2, <1>4, <1>8, <1>9, <1>10, <1>11, <1>12 DEF LedgerInv

\* Every call keeps the ledger.
LEMMA NextLedger == LedgerInv /\ [Next]_vars => LedgerInv'
<1> SUFFICES ASSUME LedgerInv, [Next]_vars PROVE LedgerInv'
  OBVIOUS
<1>1. ASSUME NEW c \in Caller, NEW b \in Block, NEW size \in Sizes,
             ns_dyn_mem_tracker_lib_alloc(c, b, size)
      PROVE  LedgerInv'
  BY <1>1, AllocStep
<1>2. ASSUME NEW b \in DOMAIN held, ns_dyn_mem_tracker_lib_free(b) PROVE LedgerInv'
  BY <1>2, FreeStep
<1>3. CASE NullBlock
  <2>1. Answered' /\ UNCHANGED <<tables, held, lost>>
    BY <1>3, AnsweredNothing DEF NullBlock
  <2> QED BY <2>1 DEF LedgerInv, tables
<1>4. CASE ns_dyn_mem_tracker_lib_step
  BY <1>4, StepStep
<1>5. CASE ns_dyn_mem_tracker_lib_allocator_lists_update
  BY <1>5, ListsStep
<1>6. CASE ns_dyn_mem_tracker_lib_max_snap_shot_update
  BY <1>6, SnapStep
<1>7. CASE UNCHANGED vars
  BY <1>7 DEF vars, tables, LedgerInv, Answered
<1> QED BY <1>1, <1>2, <1>3, <1>4, <1>5, <1>6, <1>7 DEF Next

\* The inductive invariant of nsdynmem_tracker_lib.c holds after any calls.
THEOREM Invariance == Spec => []IInv
<1>1. Init => LedgerInv
  BY InitLedger
<1>2. LedgerInv /\ [Next]_vars => LedgerInv'
  BY NextLedger
<1>3. SameInv
  BY IInvMeans
<1>4. IInv <=> LedgerInv
  BY <1>3 DEF SameInv
<1> QED BY <1>1, <1>2, <1>4, PTL DEF Spec

\* The fields of both tables keep the values of their C types and
\* last_mem_block_index stays inside mem_blocks, in every call of
\* nsdynmem_tracker_lib.c.
THEOREM TypeCorrect == Spec => []TypeOK
<1>1. IInv => TypeOK
  BY DEF IInv
<1> QED BY <1>1, Invariance, PTL

\* ns_dyn_mem_tracker_lib_alloc and _free record the tracked blocks, each once,
\* with its caller and size, and no other.
THEOREM RecordsStayExact == Spec => []RecordsExact
<1>1. IInv => RecordsExact
  BY DEF IInv
<1> QED BY <1>1, Invariance, PTL

\* The counts and sums of every caller, and allocated_memory, are those of the
\* blocks in use, though the sums wrap.
THEOREM TotalsStayExact == Spec => []TotalsExact
<1>1. IInv => TotalsExact
  BY DEF IInv
<1> QED BY <1>1, Invariance, PTL

\* ns_dyn_mem_tracker_lib_alloc never gives a caller a second entry, and
\* ns_dyn_mem_tracker_lib_free never clears the entry of one with blocks.
THEOREM OneEntryEach == Spec => []OneEntryPerCaller
<1>1. IInv => OneEntryPerCaller
  BY DEF IInv
<1> QED BY <1>1, Invariance, PTL

\* ns_dyn_mem_tracker_lib_step and the list updates never make a caller older
\* or more permanent than its youngest block.
THEOREM YoungestCounts == Spec => []YoungestBlockCounts
<1>1. IInv => YoungestBlockCounts
  BY DEF IInv
<1> QED BY <1>1, Invariance, PTL

\* ns_dyn_mem_tracker_lib_free answers 0 for a recorded block and -1 for one
\* that was not recorded, wherever the searches start.
THEOREM FreeFinds == Spec => FreeFindsRecord
<1> DEFINE Finds == \A b \in DOMAIN held \ DOMAIN held' :
               ~lost /\ mem_blocks # NoTable => (last'.rc = 0 <=> held[b].tracked)
<1>1. ASSUME LedgerInv, [Next]_vars PROVE [Finds]_vars
  <2> SUFFICES ASSUME NEW y \in DOMAIN held \ DOMAIN held', ~lost, mem_blocks # NoTable
               PROVE  last'.rc = 0 <=> held[y].tracked
    OBVIOUS
  <2>1. ASSUME NEW c \in Caller, NEW b \in Block, NEW size \in Sizes,
               ns_dyn_mem_tracker_lib_alloc(c, b, size)
        PROVE  FALSE
    BY <1>1, <2>1, AllocStep
  <2>2. ASSUME NEW b \in DOMAIN held, ns_dyn_mem_tracker_lib_free(b)
        PROVE  last'.rc = 0 <=> held[y].tracked
    <3>1. y = b
      BY <2>2 DEF ns_dyn_mem_tracker_lib_free, Releases
    <3>2. FreeTells(b)
      BY <1>1, <2>2, FreeStep
    <3> QED BY <3>1, <3>2 DEF FreeTells
  <2>3. ~NullBlock
    BY DEF NullBlock
  <2>4. ~ns_dyn_mem_tracker_lib_step
    BY <1>1, StepStep
  <2>5. ~ns_dyn_mem_tracker_lib_allocator_lists_update
    BY DEF ns_dyn_mem_tracker_lib_allocator_lists_update
  <2>6. ~ns_dyn_mem_tracker_lib_max_snap_shot_update
    BY DEF ns_dyn_mem_tracker_lib_max_snap_shot_update
  <2>7. ~UNCHANGED vars
    BY DEF vars
  <2> QED BY <1>1, <2>1, <2>2, <2>3, <2>4, <2>5, <2>6, <2>7 DEF Next
<1>2. Init => LedgerInv
  BY InitLedger
<1>3. LedgerInv /\ [Next]_vars => LedgerInv'
  BY NextLedger
<1>4. LedgerInv /\ [Next]_vars => [Finds]_vars
  BY <1>1
<1> QED BY <1>2, <1>3, <1>4, PTL DEF Spec, FreeFindsRecord

\* The lists of answer l about table t.
ListsFine(t, l) ==
    /\ l.call = "lists_update" =>
           Best(l.lists.top_allocators, "alloc_count",
                AllocatorsOf(t, {i \in Recorded(t) : ~t[i].permanent}))
    /\ l.call = "snap_shot_update" =>
           Best(l.lists.max_snap_shot_allocators, "total_memory",
                AllocatorsOf(t, Recorded(t)))
ListsMean == ListsHoldLargest <=> ListsFine(mem_blocks, last)

\* They are what ListsHoldLargest is about.
LEMMA ListsAre == ListsMean
BY DEF ListsMean, ListsHoldLargest, ListsFine, LargestOf, Best, AllocatorsOf

\* ns_dyn_mem_tracker_lib_allocator_lists_update and _max_snap_shot_update list
\* the largest allocators, in order, as long as the lists are no longer than
\* the uint8_t counters of ns_dyn_mem_tracker_lib_allocator_lists_update reach.
THEOREM LargestListed == ListsShort => (Spec => []ListsHoldLargest)
<1> SUFFICES ASSUME ListsShort PROVE Spec => []ListsHoldLargest
  OBVIOUS
<1>1. Init => LedgerInv /\ ListsHoldLargest
  BY InitLedger DEF Init, ListsHoldLargest
<1>2. ASSUME LedgerInv, ListsHoldLargest, [Next]_vars PROVE ListsHoldLargest'
  <2>1. ASSUME NEW call, NEW rc, Returns(call, rc), call \in {"alloc", "free", "step"}
        PROVE  ListsHoldLargest'
    BY <2>1 DEF Returns, ListsHoldLargest
  <2>2. ASSUME NEW c \in Caller, NEW b \in Block, NEW size \in Sizes,
               ns_dyn_mem_tracker_lib_alloc(c, b, size)
        PROVE  ListsHoldLargest'
    <3>1. \E rc : Returns("alloc", rc)
      BY <2>2 DEF ns_dyn_mem_tracker_lib_alloc, AllocNoTable, AllocKnownCaller, AllocNewCaller,
             AllocNext, AllocNextFails, AllocFirst, AllocFirstFails, Tracked, Untracked
    <3> QED BY <2>1, <3>1
  <2>3. ASSUME NEW b \in DOMAIN held, ns_dyn_mem_tracker_lib_free(b) PROVE ListsHoldLargest'
    <3>1. \E rc : Returns("free", rc)
      BY <2>3 DEF ns_dyn_mem_tracker_lib_free, FreeNoTable, FreeFirst, FreeNext, FreeUnknown
    <3> QED BY <2>1, <3>1
  <2>4. CASE NullBlock
    BY <2>1, <2>4 DEF NullBlock
  <2>5. CASE ns_dyn_mem_tracker_lib_step
    BY <2>1, <2>5 DEF ns_dyn_mem_tracker_lib_step
  <2>6. CASE ns_dyn_mem_tracker_lib_allocator_lists_update
    BY <1>2, <2>6, ListsStep
  <2>7. CASE ns_dyn_mem_tracker_lib_max_snap_shot_update
    BY <1>2, <2>7, SnapStep
  <2>8. CASE UNCHANGED vars
    <3>1. mem_blocks' = mem_blocks /\ last' = last
      BY <2>8 DEF vars, tables
    <3>2. ListsMean
      BY ListsAre
    <3>3. ListsMean'
      BY ListsAre, PTL
    <3> QED BY <1>2, <3>1, <3>2, <3>3 DEF ListsMean
  <2> QED BY <1>2, <2>2, <2>3, <2>4, <2>5, <2>6, <2>7, <2>8 DEF Next
<1>3. LedgerInv /\ [Next]_vars => LedgerInv'
  BY NextLedger
<1>4. LedgerInv /\ ListsHoldLargest /\ [Next]_vars => ListsHoldLargest'
  BY <1>2
<1> QED BY <1>1, <1>3, <1>4, PTL DEF Spec
=============================================================================
