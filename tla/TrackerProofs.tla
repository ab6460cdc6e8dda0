--------------------------- MODULE TrackerProofs ---------------------------
(***************************************************************************)
(* Proofs about ConnectionTracker: for every table size, retention and    *)
(* cleanup period the map and the queue name the same rows, the table     *)
(* stays within its capacity, and rows leave it for a reason and for good.*)
(***************************************************************************)
EXTENDS ConnectionTracker, FiniteSetTheorems, SequenceTheorems, TLAPS

Distinct(s) == \A i, j \in DOMAIN s : s[i] = s[j] => i = j

\* The ranks of the places that VecDeque::retain keeps are 1 to their number,
\* in the order of the places.
LEMMA RanksCount ==
    ASSUME NEW s, NEW n \in Nat, DOMAIN s = 1..n, NEW ids
    PROVE  /\ Cardinality(Places(s, ids)) \in 0..n
           /\ \A i \in Places(s, ids) :
                  Rank(s, ids, i) \in 1..Cardinality(Places(s, ids))
           /\ \A i, j \in Places(s, ids) : i < j => Rank(s, ids, i) < Rank(s, ids, j)
           /\ \A k \in 1..Cardinality(Places(s, ids)) :
                  \E i \in Places(s, ids) : Rank(s, ids, i) = k
<1> DEFINE P == Places(s, ids)
           Upto(i) == {j \in P : j <= i}
           m == Cardinality(P)
<1>1. P \subseteq 1..n
    BY DEF Places
<1>2. IsFiniteSet(P) /\ m \in 0..n
    <2>1. IsFiniteSet(1..n) /\ Cardinality(1..n) = n
        BY FS_Interval
    <2>2. IsFiniteSet(P) /\ m <= n
        BY <1>1, <2>1, FS_Subset
    <2> QED BY <2>2, FS_CardinalityType
<1>3. ASSUME NEW i \in P
      PROVE  /\ IsFiniteSet(Upto(i)) /\ Rank(s, ids, i) = Cardinality(Upto(i))
             /\ Rank(s, ids, i) \in 1..m
    <2>1. Upto(i) \in SUBSET P /\ Upto(i) # {}
        BY <1>1
    <2>2. IsFiniteSet(Upto(i)) /\ Cardinality(Upto(i)) <= m
        BY <1>2, <2>1, FS_Subset
    <2>3. Cardinality(Upto(i)) \in Nat /\ Cardinality(Upto(i)) # 0
        BY <2>1, <2>2, FS_CardinalityType, FS_EmptySet
    <2>4. Rank(s, ids, i) = Cardinality(Upto(i))
        BY DEF Rank
    <2> QED BY <1>2, <2>2, <2>3, <2>4
<1>4. ASSUME NEW i \in P, NEW j \in P, i < j
      PROVE  Rank(s, ids, i) < Rank(s, ids, j)
    <2>1. Upto(i) \in SUBSET Upto(j) /\ j \in Upto(j) /\ j \notin Upto(i)
        BY <1>1, <1>4
    <2>2. /\ Cardinality(Upto(i)) <= Cardinality(Upto(j))
          /\ Cardinality(Upto(i)) # Cardinality(Upto(j))
        BY <1>3, <2>1, FS_Subset
    <2>3. /\ Rank(s, ids, i) \in 1..m /\ Rank(s, ids, i) = Cardinality(Upto(i))
          /\ Rank(s, ids, j) \in 1..m /\ Rank(s, ids, j) = Cardinality(Upto(j))
        BY <1>3
    <2>4. Rank(s, ids, i) <= Rank(s, ids, j) /\ Rank(s, ids, i) # Rank(s, ids, j)
        BY <2>2, <2>3
    <2>5. \A a, b \in 1..m : a <= b /\ a # b => a < b
        BY <1>2
    <2> HIDE DEF m, Upto
    <2> QED BY <2>3, <2>4, <2>5
<1>5. ASSUME NEW k \in 1..m
      PROVE  \E i \in P : Rank(s, ids, i) = k
    <2> DEFINE rank == [i \in P |-> Rank(s, ids, i)]
    <2>1. rank \in [P -> 1..m]
        BY <1>3
    <2>2. \A i, j \in P : rank[i] = rank[j] => i = j
        <3>1. SUFFICES ASSUME NEW i \in P, NEW j \in P, i # j
                       PROVE  Rank(s, ids, i) # Rank(s, ids, j)
            OBVIOUS
        <3>2. i < j \/ j < i
            BY <1>1, <3>1
        <3>3. Rank(s, ids, i) \in 1..m /\ Rank(s, ids, j) \in 1..m
            BY <1>3
        <3> QED BY <1>2, <1>4, <3>2, <3>3
    <2>3. rank \in Injection(P, 1..m)
        BY <2>1, <2>2 DEF Injection, IsInjective
    <2>4. IsFiniteSet(1..m) /\ Cardinality(1..m) = m
        BY <1>2, FS_Interval
    <2>5. rank \in Surjection(P, 1..m)
        BY <2>3, <2>4, FS_Injection
    <2>6. PICK i \in P : rank[i] = k
        BY <2>5 DEF Surjection
    <2> QED BY <2>6
<1> QED BY <1>2, <1>3, <1>4, <1>5

\* VecDeque::retain: what it keeps, each once if it was there once.
LEMMA RetainKeeps ==
    ASSUME NEW S, NEW s \in Seq(S), NEW ids
    PROVE  /\ Retain(s, ids) \in Seq(S)
           /\ Len(Retain(s, ids)) <= Len(s)
           /\ RangeOf(Retain(s, ids)) = RangeOf(s) \intersect ids
           /\ Distinct(s) => Distinct(Retain(s, ids))
           /\ DOMAIN Retain(s, ids) = 1..Cardinality(Places(s, ids))
           /\ \A i \in Places(s, ids) : Retain(s, ids)[Rank(s, ids, i)] = s[i]
<1> DEFINE P == Places(s, ids)
           m == Cardinality(P)
           At(k) == CHOOSE i \in P : Rank(s, ids, i) = k
<1>1. Len(s) \in Nat /\ DOMAIN s = 1..Len(s) /\ \A i \in DOMAIN s : s[i] \in S
    BY LenProperties, ElementOfSeq
<1>2. /\ m \in 0..Len(s)
      /\ \A i \in P : Rank(s, ids, i) \in 1..m
      /\ \A i, j \in P : i < j => Rank(s, ids, i) < Rank(s, ids, j)
      /\ \A k \in 1..m : \E i \in P : Rank(s, ids, i) = k
    BY <1>1, RanksCount
<1>3. P \subseteq DOMAIN s /\ \A i \in P : s[i] \in ids
    BY DEF Places
<1>4. ASSUME NEW k \in 1..m
      PROVE  At(k) \in P /\ Rank(s, ids, At(k)) = k
    BY <1>2
<1>5. ASSUME NEW i \in P
      PROVE  At(Rank(s, ids, i)) = i
    <2>1. Rank(s, ids, i) \in 1..m
        BY <1>2
    <2> DEFINE j == At(Rank(s, ids, i))
    <2>2. j \in P /\ Rank(s, ids, j) = Rank(s, ids, i)
        BY <1>4, <2>1
    <2> HIDE DEF j, P
    <2>3. ~(i < j) /\ ~(j < i)
        BY <1>2, <2>1, <2>2
    <2>4. i \in Int /\ j \in Int
        BY <1>1, <1>3, <2>2
    <2> QED BY <2>3, <2>4 DEF j
<1>6. Retain(s, ids) = [k \in 1..m |-> s[At(k)]]
    BY DEF Retain
<1> HIDE DEF At, P, m
<1>7. \A k \in 1..m : s[At(k)] \in S
    BY <1>1, <1>3, <1>4
<1>8. Retain(s, ids) \in [1..m -> S]
    BY <1>6, <1>7
<1>9. Retain(s, ids) \in Seq(S) /\ Len(Retain(s, ids)) <= Len(s)
    <2>1. m \in Nat /\ m <= Len(s)
        BY <1>1, <1>2
    <2>2. Retain(s, ids) \in Seq(S)
        BY <1>8, <2>1, SeqDef
    <2>3. Len(Retain(s, ids)) = m
        BY <1>8, <2>1, <2>2, LenProperties
    <2> QED BY <2>1, <2>2, <2>3
<1>10. DOMAIN Retain(s, ids) = 1..m
    BY <1>8
<1>11. RangeOf(Retain(s, ids)) = RangeOf(s) \intersect ids
    <2>1. ASSUME NEW x \in RangeOf(Retain(s, ids))
          PROVE  x \in RangeOf(s) \intersect ids
        <3>1. PICK k \in 1..m : x = s[At(k)]
            BY <1>6, <1>10 DEF RangeOf
        <3> QED BY <1>3, <1>4, <3>1 DEF RangeOf
    <2>2. ASSUME NEW x \in RangeOf(s) \intersect ids
          PROVE  x \in RangeOf(Retain(s, ids))
        <3>1. PICK i \in DOMAIN s : x = s[i]
            BY DEF RangeOf
        <3>2. i \in P
            BY <3>1 DEF P, Places
        <3>3. /\ Rank(s, ids, i) \in 1..m
              /\ Retain(s, ids)[Rank(s, ids, i)] = x
            BY <1>2, <1>5, <1>6, <3>1, <3>2
        <3> QED BY <1>10, <3>3 DEF RangeOf
    <2> QED BY <2>1, <2>2
<1>12. ASSUME Distinct(s), NEW k \in 1..m, NEW l \in 1..m,
              Retain(s, ids)[k] = Retain(s, ids)[l]
       PROVE  k = l
    <2>1. s[At(k)] = s[At(l)]
        BY <1>6, <1>12
    <2>2. At(k) = At(l)
        BY <1>3, <1>4, <1>12, <2>1 DEF Distinct
    <2> QED BY <1>4, <2>2
<1>13. ASSUME NEW i \in P
       PROVE  Retain(s, ids)[Rank(s, ids, i)] = s[i]
    <2>1. Rank(s, ids, i) \in 1..m
        BY <1>2
    <2> QED BY <1>5, <1>6, <2>1
<1>14. Distinct(s) => Distinct(Retain(s, ids))
    BY <1>10, <1>12 DEF Distinct
<1> QED BY <1>9, <1>10, <1>11, <1>13, <1>14 DEF P, m

\* register's while loop: the queue is cut to its capacity from the old end,
\* and what is left is the queue without the evicted ids.
LEMMA ShortenedKeeps ==
    ASSUME NEW S, NEW s \in Seq(S), Distinct(s), Len(s) <= MaxConnections + 1
    PROVE  /\ Shortened(s) \in Seq(S)
           /\ Len(Shortened(s)) <= MaxConnections
           /\ RangeOf(Shortened(s)) = RangeOf(s) \ Evicted(s)
           /\ Distinct(Shortened(s))
<1>1. /\ MaxConnections \in Nat /\ MaxConnections # 0
      /\ Len(s) \in Nat /\ DOMAIN s = 1..Len(s)
      /\ \A i \in 1..Len(s) : s[i] \in S
    BY TrackerAssumption, LenProperties, ElementOfSeq
<1>2. CASE Len(s) <= MaxConnections
    <2>1. Evicted(s) = {} /\ Shortened(s) = s
        BY <1>1, <1>2 DEF Evicted, Shortened
    <2> QED BY <1>2, <2>1
<1>3. CASE Len(s) = MaxConnections + 1
    <2>1. Shortened(s) = SubSeq(s, 2, Len(s))
        BY <1>1, <1>3 DEF Shortened
    <2>2. Evicted(s) = {s[1]}
        BY <1>1, <1>3 DEF Evicted
    <2>3. /\ SubSeq(s, 2, Len(s)) \in Seq(S)
          /\ Len(SubSeq(s, 2, Len(s))) = MaxConnections
          /\ \A i \in 1..MaxConnections : SubSeq(s, 2, Len(s))[i] = s[i + 1]
        BY <1>1, <1>3, SubSeqProperties
    <2>4. DOMAIN SubSeq(s, 2, Len(s)) = 1..MaxConnections
        BY <2>3, LenProperties
    <2> DEFINE t == SubSeq(s, 2, Len(s))
    <2> HIDE DEF t
    <2>5. Distinct(t)
        BY <1>1, <1>3, <2>3, <2>4 DEF Distinct, t
    <2>6. RangeOf(t) = RangeOf(s) \ {s[1]}
        <3>1. ASSUME NEW i \in 1..MaxConnections
              PROVE  t[i] \in RangeOf(s) \ {s[1]}
            <4>1. i + 1 \in DOMAIN s /\ 1 \in DOMAIN s /\ i + 1 # 1 /\ t[i] = s[i + 1]
                BY <1>1, <1>3, <2>3 DEF t
            <4> QED BY <4>1 DEF Distinct, RangeOf
        <3>2. ASSUME NEW i \in DOMAIN s, s[i] # s[1]
              PROVE  s[i] \in RangeOf(t)
            <4>1. i - 1 \in 1..MaxConnections /\ (i - 1) + 1 = i
                BY <1>1, <1>3, <3>2
            <4>2. t[i - 1] = s[i] /\ i - 1 \in DOMAIN t
                BY <2>3, <2>4, <4>1 DEF t
            <4> QED BY <4>2 DEF RangeOf
        <3> QED BY <2>4, <3>1, <3>2 DEF RangeOf, t
    <2>7. /\ Shortened(s) = t /\ t \in Seq(S) /\ Len(t) = MaxConnections
        BY <2>1, <2>3 DEF t
    <2>8. MaxConnections <= MaxConnections
        BY <1>1
    <2> QED BY <2>2, <2>5, <2>6, <2>7, <2>8
<1>4. \A k \in Nat : k <= MaxConnections + 1 => k <= MaxConnections \/ k = MaxConnections + 1
    BY <1>1
<1>5. Len(s) <= MaxConnections \/ Len(s) = MaxConnections + 1
    BY <1>1, <1>4
<1> QED BY <1>2, <1>3, <1>5

-----------------------------------------------------------------------------
\* The inductive invariant.  The bound needs the queue within it before a
\* register, and the agreement of map and queue needs new ids to be new, which
\* is why rows are kept apart from ids still being registered.
TInv == TrackerTypeOK /\ OrderMatchesConnections /\ WithinCapacity

LEMMA TrackerInitInv == TrackerInit => TInv
<1> SUFFICES ASSUME TrackerInit PROVE TInv
    OBVIOUS
<1>1. DOMAIN connections = {} /\ order = <<>> /\ next_id = 1 /\ registering = {}
    BY DEF TrackerInit
<1>2. /\ MaxConnections \in Nat /\ MaxId \in Nat /\ CleanupEvery \in Nat \ {0}
      /\ snapshot_count = 0
    BY TrackerAssumption DEF TrackerInit
<1>3. order \in Seq(1..MaxId) /\ Len(order) = 0 /\ DOMAIN order = {}
    BY <1>1
<1> QED BY <1>1, <1>2, <1>3 DEF TInv, TrackerTypeOK, OrderMatchesConnections,
           WithinCapacity, RangeOf, Issued

\* A row that a setter changes or that grows older is still a row.
LEMMA RowsStayRows ==
    ASSUME TrackerTypeOK
    PROVE  /\ NewRow \in Row
           /\ \A id : Clone(id) \in Row
           /\ \A row \in Row : Aged(row) \in Row
<1>1. Retention \in Nat
    BY TrackerAssumption
<1>2. NewRow \in Row
    BY <1>1 DEF NewRow, Row, Live, Terminal, NotClosed
<1>3. \A id : Clone(id) \in Row
    BY <1>2 DEF Clone, TrackerTypeOK
<1>4. \A row \in Row : Aged(row) \in Row
    BY <1>1 DEF Aged, Row
<1> QED BY <1>2, <1>3, <1>4

\* modify touches neither the queue nor the set of rows.
LEMMA ModifyKeepsInv ==
    ASSUME TInv, NEW id, NEW row \in Row, Modify(id, row)
    PROVE  TInv'
<1>1. /\ DOMAIN connections' = DOMAIN connections
      /\ \A i \in DOMAIN connections' : connections'[i] \in Row
    BY DEF Modify, TInv, TrackerTypeOK
<1>2. UNCHANGED <<order, next_id, registering, snapshot_count>>
    BY DEF Modify
<1>3. TrackerTypeOK'
    BY <1>1, <1>2 DEF TInv, TrackerTypeOK
<1>4. OrderMatchesConnections' /\ WithinCapacity'
    BY <1>1, <1>2 DEF TInv, OrderMatchesConnections, WithinCapacity, RangeOf, Issued
<1> QED BY <1>3, <1>4 DEF TInv

\* Every setter is modify with a row.
LEMMA SettersModify ==
    ASSUME TrackerTypeOK, NEW id, Setter(id)
    PROVE  \E row \in Row : Modify(id, row)
<1>1. Clone(id) \in Row /\ Retention \in Nat
    BY RowsStayRows, TrackerAssumption
<1>2. /\ [Clone(id) EXCEPT !.exe_name = "known"] \in Row
      /\ [Clone(id) EXCEPT !.proxy = "known"] \in Row
      /\ [Clone(id) EXCEPT !.outbound_target = "known"] \in Row
      /\ [Clone(id) EXCEPT !.proxy_protocol = "known"] \in Row
    BY <1>1 DEF Row
<1>3. [Clone(id) EXCEPT !.status = "connected"] \in Row
    BY <1>1 DEF Row, Live
<1>4. \A end \in Terminal : [Clone(id) EXCEPT !.status = end, !.closed_at = 0] \in Row
    <2>1. 0 \in 0..Retention
        BY <1>1
    <2> QED BY <1>1, <2>1 DEF Row
<1>5. "closed" \in Terminal /\ "error" \in Terminal
    BY DEF Terminal
<1>6. /\ [Clone(id) EXCEPT !.status = "closed", !.closed_at = 0] \in Row
      /\ [Clone(id) EXCEPT !.status = "error", !.closed_at = 0] \in Row
    BY <1>4, <1>5
<1> QED BY <1>2, <1>3, <1>6 DEF Setter, SetExeName, SetProxy, SetOutboundTarget, SetProxyProtocol,
           SetConnected, SetClosed, SetError

LEMMA TakeIdKeepsInv ==
    ASSUME TInv, TakeId
    PROVE  TInv'
<1>1. /\ next_id \in Nat /\ next_id <= MaxId /\ MaxId \in Nat
      /\ next_id' = next_id + 1
      /\ registering' = registering \union {next_id}
      /\ UNCHANGED <<connections, order, snapshot_count>>
    BY TrackerAssumption DEF TakeId, TInv, TrackerTypeOK
<1>2. TrackerTypeOK'
    BY <1>1 DEF TInv, TrackerTypeOK
<1>3. Issued \subseteq Issued'
    BY <1>1 DEF Issued
<1> QED BY <1>1, <1>2, <1>3 DEF TInv, OrderMatchesConnections, WithinCapacity, RangeOf

LEMMA InsertKeepsInv ==
    ASSUME TInv, NEW id \in registering, Insert(id)
    PROVE  TInv'
<1> DEFINE queue == Append(order, id)
           all == [i \in DOMAIN connections \union {id} |->
                      IF i = id THEN NewRow ELSE connections[i]]
<1>1. /\ registering' = registering \ {id}
      /\ order' = Shortened(queue)
      /\ connections' = [i \in DOMAIN all \ Evicted(queue) |-> all[i]]
      /\ UNCHANGED <<next_id, snapshot_count>>
    BY DEF Insert
<1>2. /\ id \in 1..MaxId /\ id \notin DOMAIN connections
      /\ order \in Seq(1..MaxId) /\ Len(order) <= MaxConnections
      /\ RangeOf(order) = DOMAIN connections /\ Distinct(order)
      /\ MaxConnections \in Nat /\ MaxId \in Nat /\ next_id \in Nat
    BY TrackerAssumption DEF TInv, TrackerTypeOK, OrderMatchesConnections, WithinCapacity,
       Issued, Distinct
<1>3. /\ queue \in Seq(1..MaxId)
      /\ Len(queue) = Len(order) + 1 /\ DOMAIN queue = 1..(Len(order) + 1)
      /\ Len(order) \in Nat /\ DOMAIN order = 1..Len(order)
      /\ \A i \in 1..Len(order) : queue[i] = order[i]
      /\ queue[Len(order) + 1] = id
    BY <1>2, AppendProperties, LenProperties
<1> HIDE DEF queue
<1>4. RangeOf(queue) = DOMAIN connections \union {id} /\ Distinct(queue)
    <2>1. \A i \in DOMAIN order : order[i] # id
        BY <1>2 DEF RangeOf
    <2>2. \A i \in DOMAIN queue : i \in DOMAIN order \/ i = Len(order) + 1
        BY <1>3
    <2>3. \A i \in DOMAIN order : i \in DOMAIN queue
        BY <1>3
    <2>4. Len(order) + 1 \in DOMAIN queue
        BY <1>3
    <2>5. Distinct(queue)
        BY <1>2, <1>3, <2>1, <2>2 DEF Distinct
    <2>6. RangeOf(queue) = RangeOf(order) \union {id}
        BY <1>3, <2>2, <2>3, <2>4 DEF RangeOf
    <2> QED BY <1>2, <2>5, <2>6
<1>5. /\ order' \in Seq(1..MaxId) /\ Len(order') <= MaxConnections
      /\ RangeOf(order') = RangeOf(queue) \ Evicted(queue)
      /\ Distinct(order')
    <2>1. Len(queue) <= MaxConnections + 1
        BY <1>2, <1>3
    <2> QED BY <1>1, <1>3, <1>4, <2>1, ShortenedKeeps
<1>6. DOMAIN connections' = RangeOf(order')
    BY <1>1, <1>4, <1>5
<1>7. \A i \in DOMAIN connections' : connections'[i] \in Row
    <2>1. NewRow \in Row /\ \A i \in DOMAIN connections : connections[i] \in Row
        BY RowsStayRows DEF TInv, TrackerTypeOK
    <2> QED BY <1>1, <2>1
<1>8. DOMAIN connections' \subseteq DOMAIN connections \union {id}
    BY <1>4, <1>5, <1>6
<1>9. TrackerTypeOK'
    BY <1>1, <1>2, <1>5, <1>7, <1>8 DEF TInv, TrackerTypeOK
<1>10. DOMAIN connections' \subseteq Issued'
    BY <1>1, <1>2, <1>8 DEF TInv, TrackerTypeOK, OrderMatchesConnections, Issued
<1>11. OrderMatchesConnections' /\ WithinCapacity'
    BY <1>5, <1>6, <1>10 DEF OrderMatchesConnections, WithinCapacity, RangeOf, Distinct
<1> QED BY <1>9, <1>11 DEF TInv

LEMMA SnapshotKeepsInv ==
    ASSUME TInv, Snapshot
    PROVE  TInv'
<1>1. snapshot_count' \in 0..(CleanupEvery - 1)
    BY TrackerAssumption DEF TInv, TrackerTypeOK, Snapshot
<1>2. UNCHANGED <<next_id, registering>>
    BY DEF Snapshot
<1>3. CASE UNCHANGED <<connections, order>>
    BY <1>1, <1>2, <1>3 DEF TInv, TrackerTypeOK, OrderMatchesConnections, WithinCapacity,
       RangeOf, Issued
<1>4. CASE /\ connections' = OnlyRows(Surviving)
           /\ order' = Retain(order, Surviving)
    <2>1. /\ order \in Seq(1..MaxId) /\ Len(order) <= MaxConnections
          /\ RangeOf(order) = DOMAIN connections /\ Distinct(order)
        BY DEF TInv, TrackerTypeOK, OrderMatchesConnections, WithinCapacity, Distinct
    <2>2. /\ order' \in Seq(1..MaxId) /\ Len(order') <= Len(order)
          /\ RangeOf(order') = RangeOf(order) \intersect Surviving
          /\ Distinct(order')
        BY <1>4, <2>1, RetainKeeps
    <2>3. /\ DOMAIN connections' = Surviving
          /\ \A id \in Surviving : connections'[id] = connections[id]
        BY <1>4 DEF OnlyRows
    <2>4. Surviving \subseteq DOMAIN connections
        BY DEF Surviving
    <2>5. RangeOf(order') = DOMAIN connections'
        BY <2>1, <2>2, <2>3, <2>4
    <2>6. Len(order') <= MaxConnections
        <3>1. Len(order) \in Nat /\ Len(order') \in Nat /\ MaxConnections \in Nat
            BY <2>1, <2>2, LenProperties, TrackerAssumption
        <3> QED BY <2>1, <2>2, <3>1
    <2>7. TrackerTypeOK'
        BY <1>1, <1>2, <2>2, <2>3, <2>4 DEF TInv, TrackerTypeOK
    <2>8. OrderMatchesConnections' /\ WithinCapacity'
        BY <1>2, <2>2, <2>3, <2>4, <2>5, <2>6 DEF TInv, OrderMatchesConnections,
           WithinCapacity, RangeOf, Distinct, Issued
    <2> QED BY <2>7, <2>8 DEF TInv
<1> QED BY <1>3, <1>4 DEF Snapshot

LEMMA TickKeepsInv ==
    ASSUME TInv, TrackerTick
    PROVE  TInv'
<1>1. /\ DOMAIN connections' = DOMAIN connections
      /\ \A id \in DOMAIN connections : connections'[id] = Aged(connections[id])
      /\ UNCHANGED <<order, next_id, registering, snapshot_count>>
    BY DEF TrackerTick
<1>2. \A id \in DOMAIN connections' : connections'[id] \in Row
    BY <1>1, RowsStayRows DEF TInv, TrackerTypeOK
<1>3. TrackerTypeOK'
    BY <1>1, <1>2 DEF TInv, TrackerTypeOK
<1> QED BY <1>1, <1>3 DEF TInv, OrderMatchesConnections, WithinCapacity, RangeOf, Issued

LEMMA TrackerStepInv == TInv /\ [TrackerNext]_trackerVars => TInv'
<1> SUFFICES ASSUME TInv, [TrackerNext]_trackerVars PROVE TInv'
    OBVIOUS
<1>1. CASE TakeId
    BY <1>1, TakeIdKeepsInv
<1>2. CASE \E id \in registering : Insert(id)
    BY <1>2, InsertKeepsInv
<1>3. CASE \E id \in Issued : Setter(id)
    BY <1>3, SettersModify, ModifyKeepsInv DEF TInv
<1>4. CASE Snapshot
    BY <1>4, SnapshotKeepsInv
<1>5. CASE TrackerTick
    BY <1>5, TickKeepsInv
<1>6. CASE UNCHANGED trackerVars
    BY <1>6 DEF trackerVars, TInv, TrackerTypeOK, OrderMatchesConnections, WithinCapacity,
       RangeOf, Issued
<1> QED BY <1>1, <1>2, <1>3, <1>4, <1>5, <1>6 DEF TrackerNext

\* The tracker's state keeps its type, the map and the queue the same rows, and
\* the queue its bound, whoever calls what in whatever order.
THEOREM TrackerInvariant == TrackerSpec => []TInv
<1> QED BY TrackerInitInv, TrackerStepInv, PTL DEF TrackerSpec

\* Type correctness of the connection table.
THEOREM TrackerTypeCorrect == TrackerSpec => []TrackerTypeOK
<1>1. TInv => TrackerTypeOK
    BY DEF TInv
<1> QED BY <1>1, TrackerInvariant, PTL

\* register, modify and snapshot keep the map and the queue in step.
THEOREM OrderStaysInStep == TrackerSpec => []OrderMatchesConnections
<1>1. TInv => OrderMatchesConnections
    BY DEF TInv
<1> QED BY <1>1, TrackerInvariant, PTL

\* register's while loop holds the table at MAX_CONNECTIONS.
THEOREM CapacityHolds == TrackerSpec => []WithinCapacity
<1>1. TInv => WithinCapacity
    BY DEF TInv
<1> QED BY <1>1, TrackerInvariant, PTL

-----------------------------------------------------------------------------
(* What a step may do to the rows and to their order.                      *)

\* register takes the lock with an id of its own, and pushes out at most the
\* oldest row, and only of a full table.
LEMMA InsertRows ==
    ASSUME TInv, NEW id \in registering, Insert(id)
    PROVE  /\ DOMAIN connections' \subseteq DOMAIN connections \union {id}
           /\ \A i \in DOMAIN connections \ DOMAIN connections' :
                  Len(order) = MaxConnections /\ i = order[1]
           /\ registering' # registering
<1> DEFINE queue == Append(order, id)
           all == [i \in DOMAIN connections \union {id} |->
                      IF i = id THEN NewRow ELSE connections[i]]
<1>1. /\ registering' = registering \ {id}
      /\ connections' = [i \in DOMAIN all \ Evicted(queue) |-> all[i]]
    BY DEF Insert
<1>2. /\ id \in 1..MaxId /\ order \in Seq(1..MaxId) /\ Len(order) <= MaxConnections
      /\ MaxConnections \in Nat \ {0} /\ MaxId \in Nat /\ next_id \in Nat
    BY TrackerAssumption DEF TInv, TrackerTypeOK, WithinCapacity
<1>3. /\ Len(queue) = Len(order) + 1 /\ Len(order) \in Nat
      /\ \A i \in 1..Len(order) : queue[i] = order[i]
    BY <1>2, AppendProperties, LenProperties
<1> HIDE DEF queue
<1>4. ASSUME NEW i \in DOMAIN connections \ DOMAIN connections'
      PROVE  Len(order) = MaxConnections /\ i = order[1]
    <2>1. PICK k \in 1..(Len(queue) - MaxConnections) : i = queue[k]
        BY <1>1, <1>4 DEF Evicted
    <2>2. k = 1 /\ Len(order) = MaxConnections
        BY <1>2, <1>3, <2>1
    <2> QED BY <1>2, <1>3, <2>1, <2>2
<1> QED BY <1>1, <1>4

\* modify, whatever it is called for, leaves the set of rows and their order.
LEMMA SetterRows ==
    ASSUME TrackerTypeOK, NEW id, Setter(id)
    PROVE  DOMAIN connections' = DOMAIN connections /\ order' = order
<1> QED BY SettersModify DEF Modify

LEMMA GoneStep ==
    ASSUME TInv, TrackerNext, NEW id \in Issued \ DOMAIN connections
    PROVE  id \notin DOMAIN connections'
<1>1. CASE TakeId
    BY <1>1 DEF TakeId
<1>2. CASE \E i \in registering : Insert(i)
    BY <1>2, InsertRows DEF Issued
<1>3. CASE \E i \in Issued : Setter(i)
    BY <1>3, SetterRows DEF TInv
<1>4. CASE Snapshot
    BY <1>4 DEF Snapshot, OnlyRows, Surviving
<1>5. CASE TrackerTick
    BY <1>5 DEF TrackerTick
<1> QED BY <1>1, <1>2, <1>3, <1>4, <1>5 DEF TrackerNext

\* modify does not bring an evicted row back, and no id is used twice.
THEOREM GoneStaysGone == TrackerSpec => GoneIsGone
<1>1. ASSUME TInv, [TrackerNext]_trackerVars
      PROVE  [\A id \in Issued \ DOMAIN connections :
                  id \notin DOMAIN connections']_trackerVars
    BY <1>1, GoneStep
<1> QED BY <1>1, TrackerInvariant, PTL DEF TrackerSpec, GoneIsGone

LEMMA LeaveStep ==
    ASSUME TInv, TrackerNext, NEW id \in DOMAIN connections \ DOMAIN connections'
    PROVE  \/ connections[id].closed_at = Retention
           \/ /\ Len(order) = MaxConnections
              /\ id = order[1]
              /\ registering' # registering
<1>1. CASE TakeId
    BY <1>1 DEF TakeId
<1>2. CASE \E i \in registering : Insert(i)
    BY <1>2, InsertRows
<1>3. CASE \E i \in Issued : Setter(i)
    BY <1>3, SetterRows DEF TInv
<1>4. CASE Snapshot
    <2>1. Expired(connections[id])
        BY <1>4 DEF Snapshot, OnlyRows, Surviving
    <2>2. connections[id].closed_at \in {NotClosed} \union 0..Retention /\ Retention \in Nat
        BY TrackerAssumption DEF TInv, TrackerTypeOK, Row
    <2> QED BY <2>1, <2>2 DEF Expired
<1>5. CASE TrackerTick
    BY <1>5 DEF TrackerTick
<1> QED BY <1>1, <1>2, <1>3, <1>4, <1>5 DEF TrackerNext

\* snapshot drops what was closed for the whole retention, register the oldest
\* row of a full table, and nothing else drops a row.
THEOREM RowsLeaveOnlyForAReason == TrackerSpec => RowsLeaveForAReason
<1>1. ASSUME TInv, [TrackerNext]_trackerVars
      PROVE  [\A id \in DOMAIN connections \ DOMAIN connections' :
                  \/ connections[id].closed_at = Retention
                  \/ /\ Len(order) = MaxConnections
                     /\ id = order[1]
                     /\ registering' # registering]_trackerVars
    BY <1>1, LeaveStep
<1> QED BY <1>1, TrackerInvariant, PTL DEF TrackerSpec, RowsLeaveForAReason

\* The number of places after the first d.
LEMMA CountAfter ==
    ASSUME NEW d \in Nat, NEW n \in Nat, d <= n
    PROVE  Cardinality((d + 1)..n) = n - d
<1>1. Cardinality((d + 1)..n) = IF d + 1 > n THEN 0 ELSE n - (d + 1) + 1
    BY FS_Interval
<1> QED BY <1>1

\* Retain keeps a sequence without its first d elements when those are all that
\* it drops.
LEMMA RetainRest ==
    ASSUME NEW S, NEW s \in Seq(S), NEW ids, NEW d \in 0..Len(s),
           Places(s, ids) = (d + 1)..Len(s)
    PROVE  /\ Retain(s, ids) \in Seq(S)
           /\ Len(Retain(s, ids)) = Len(s) - d
           /\ \A k \in 1..(Len(s) - d) : Retain(s, ids)[k] = s[k + d]
<1> DEFINE n == Len(s)
           P == Places(s, ids)
           m == Cardinality(P)
<1>1. /\ n \in Nat /\ DOMAIN s = 1..n /\ d \in Int /\ n - d \in Nat
      /\ d + 1 \in Int /\ \A i \in 1..n : s[i] \in S
    BY LenProperties, ElementOfSeq
<1>2. m = n - d
    <2>1. \A k \in Nat : \A e \in 0..k : e \in Nat /\ e <= k
        OBVIOUS
    <2>2. d \in Nat /\ d <= n
        BY <1>1, <2>1
    <2>3. Cardinality((d + 1)..n) = n - d
        BY <1>1, <2>2, CountAfter
    <2> QED BY <2>3
<1>3. ASSUME NEW i \in (d + 1)..n
      PROVE  Rank(s, ids, i) = i - d
    <2>1. {j \in P : j <= i} = (d + 1)..i
        BY <1>1
    <2>2. d \in Nat /\ i \in Nat /\ d <= i
        BY <1>1
    <2>3. Cardinality((d + 1)..i) = i - d
        BY <2>2, CountAfter
    <2> QED BY <2>1, <2>3 DEF Rank
<1>4. ASSUME NEW k \in 1..m
      PROVE  (CHOOSE i \in P : Rank(s, ids, i) = k) = k + d
    <2>1. k + d \in (d + 1)..n /\ k \in Int
        BY <1>1, <1>2
    <2>2. Rank(s, ids, k + d) = k
        BY <1>1, <1>3, <2>1
    <2>3. \A i \in P : Rank(s, ids, i) = k => i = k + d
        BY <1>1, <1>3, <2>1
    <2>4. k + d \in P
        BY <2>1
    <2> QED BY <2>2, <2>3, <2>4
<1>5. Retain(s, ids) = [k \in 1..m |-> s[CHOOSE i \in P : Rank(s, ids, i) = k]]
    BY DEF Retain
<1>6. Retain(s, ids) = [k \in 1..m |-> s[k + d]]
    BY <1>4, <1>5
<1>7. Retain(s, ids) \in [1..(n - d) -> S]
    <2>1. \A k \in 1..(n - d) : k + d \in 1..n
        BY <1>1
    <2> QED BY <1>1, <1>2, <1>6, <2>1
<1>8. Retain(s, ids) \in Seq(S) /\ Len(Retain(s, ids)) = n - d
    <2>1. Retain(s, ids) \in Seq(S)
        BY <1>1, <1>7, SeqDef
    <2>2. DOMAIN Retain(s, ids) = 1..(n - d)
        BY <1>7
    <2> HIDE DEF n
    <2>3. Len(Retain(s, ids)) \in Nat /\ DOMAIN Retain(s, ids) = 1..Len(Retain(s, ids))
        BY <2>1, LenProperties
    <2>4. \A a, b \in Nat : 1..a = 1..b => a = b
        BY FS_Interval
    <2> QED BY <1>1, <2>1, <2>2, <2>3, <2>4
<1> QED BY <1>2, <1>6, <1>8

\* What the window's difference algorithm needs of a step.
Follows(old, new) ==
    LET kept == Retain(old, RangeOf(new))
    IN  /\ SubSeq(new, 1, Len(kept)) = kept
        /\ \A i \in (Len(kept) + 1)..Len(new) : new[i] \notin RangeOf(old)

\* A queue that stays as it is keeps its order.
LEMMA SameFollows ==
    ASSUME NEW S, NEW s \in Seq(S)
    PROVE  Follows(s, s)
<1>1. Len(s) \in Nat /\ DOMAIN s = 1..Len(s)
    BY LenProperties
<1>2. Places(s, RangeOf(s)) = (0 + 1)..Len(s)
    BY <1>1 DEF Places, RangeOf
<1> DEFINE kept == Retain(s, RangeOf(s))
<1>3. kept \in Seq(S) /\ Len(kept) = Len(s) - 0 /\ \A k \in 1..(Len(s) - 0) : kept[k] = s[k + 0]
    BY <1>1, <1>2, RetainRest
<1> HIDE DEF kept
<1>4. Len(kept) = Len(s) /\ \A k \in 1..Len(s) : kept[k] = s[k]
    BY <1>1, <1>3
<1>5. kept = s
    BY <1>3, <1>4, SeqEqual
<1>6. SubSeq(s, 1, Len(s)) = s
    BY SubSeqFull
<1> QED BY <1>1, <1>5, <1>6 DEF Follows, kept

\* The cleanup of snapshot drops rows and moves none.
LEMMA RetainFollows ==
    ASSUME NEW S, NEW s \in Seq(S), NEW ids
    PROVE  Follows(s, Retain(s, ids))
<1> DEFINE new == Retain(s, ids)
<1>1. new \in Seq(S) /\ RangeOf(new) = RangeOf(s) \intersect ids
    BY RetainKeeps
<1>2. Places(s, RangeOf(new)) = Places(s, ids)
    BY <1>1 DEF Places, RangeOf
<1>3. Retain(s, RangeOf(new)) = new
    <2>1. \A i : Rank(s, RangeOf(new), i) = Rank(s, ids, i)
        BY <1>2 DEF Rank
    <2> HIDE DEF new
    <2> DEFINE again == Retain(s, RangeOf(new))
    <2>2. Len(s) \in Nat /\ DOMAIN s = 1..Len(s)
        BY LenProperties
    <2>3. \A k \in 1..Cardinality(Places(s, ids)) :
              \E i \in Places(s, ids) : Rank(s, ids, i) = k
        BY <2>2, RanksCount
    <2>4. /\ DOMAIN Retain(s, ids) = 1..Cardinality(Places(s, ids))
          /\ \A i \in Places(s, ids) : Retain(s, ids)[Rank(s, ids, i)] = s[i]
          /\ Retain(s, ids) \in Seq(S)
        BY RetainKeeps
    <2>5. /\ DOMAIN again = 1..Cardinality(Places(s, ids))
          /\ \A i \in Places(s, ids) : again[Rank(s, ids, i)] = s[i]
          /\ again \in Seq(S)
        BY <1>2, <2>1, RetainKeeps
    <2> HIDE DEF again
    <2>6. \A k \in 1..Cardinality(Places(s, ids)) : again[k] = Retain(s, ids)[k]
        BY <2>3, <2>4, <2>5
    <2>7. again = [k \in DOMAIN again |-> again[k]]
          /\ Retain(s, ids) = [k \in DOMAIN Retain(s, ids) |-> Retain(s, ids)[k]]
        <3>1. \A t \in Seq(S) : t = [k \in DOMAIN t |-> t[k]]
            BY SeqDef
        <3> QED BY <2>4, <2>5, <3>1
    <2>8. again = Retain(s, ids)
        BY <2>4, <2>5, <2>6, <2>7
    <2> QED BY <2>8 DEF new, again
<1> HIDE DEF new
<1>4. SubSeq(new, 1, Len(new)) = new /\ Len(new) \in Nat
    BY <1>1, SubSeqFull, LenProperties
<1> QED BY <1>3, <1>4 DEF Follows, new

\* A new id goes to the end, whatever the capacity pushes out in front.
LEMMA InsertFollows ==
    ASSUME TInv, NEW id \in registering, Insert(id)
    PROVE  Follows(order, order')
<1> DEFINE n == Len(order)
           queue == Append(order, id)
<1>1. /\ order \in Seq(1..MaxId) /\ id \in 1..MaxId /\ id \notin RangeOf(order)
      /\ Distinct(order) /\ n <= MaxConnections
      /\ MaxConnections \in Nat \ {0} /\ next_id \in Nat
    BY TrackerAssumption DEF TInv, TrackerTypeOK, OrderMatchesConnections, WithinCapacity,
       Issued, Distinct
<1>2. /\ n \in Nat /\ DOMAIN order = 1..n /\ \A i \in 1..n : order[i] \in 1..MaxId
      /\ \A i \in 1..n : order[i] # id
    BY <1>1, LenProperties, ElementOfSeq DEF RangeOf
<1>3. /\ queue \in Seq(1..MaxId) /\ Len(queue) = n + 1
      /\ \A i \in 1..n : queue[i] = order[i]
      /\ queue[n + 1] = id
    BY <1>1, AppendProperties
<1> DEFINE d == IF n = MaxConnections THEN 1 ELSE 0
<1> HIDE DEF n, queue
<1>4. /\ d \in 0..n /\ d \in Nat /\ n - d \in Nat
    BY <1>1, <1>2
<1>5. /\ order' \in Seq(1..MaxId) /\ Len(order') = n - d + 1
      /\ \A k \in 1..(n - d + 1) : order'[k] = queue[k + d]
    <2>1. order' = Shortened(queue)
        BY DEF Insert, queue
    <2>2. CASE n = MaxConnections
        <3>1. d = 1 /\ order' = SubSeq(queue, 2, n + 1)
            BY <1>1, <1>2, <1>3, <2>1, <2>2 DEF Shortened
        <3>2. \A i \in 2..(n + 1) : queue[i] \in 1..MaxId
            BY <1>1, <1>2, <1>3
        <3>3. /\ SubSeq(queue, 2, n + 1) \in Seq(1..MaxId)
              /\ Len(SubSeq(queue, 2, n + 1)) = IF 2 <= n + 1 THEN (n + 1) - 2 + 1 ELSE 0
              /\ \A k \in 1..((n + 1) - 2 + 1) : SubSeq(queue, 2, n + 1)[k] = queue[2 + k - 1]
            BY <1>2, <3>2, SubSeqProperties
        <3>4. /\ n \in Nat \ {0} /\ (n + 1) - 2 + 1 = n - d + 1 /\ 2 <= n + 1
              /\ \A k \in 1..(n - d + 1) : 2 + k - 1 = k + d
            BY <1>1, <1>2, <2>2, <3>1
        <3> HIDE DEF d
        <3> QED BY <3>1, <3>3, <3>4
    <2>3. CASE n # MaxConnections
        <3>1. d = 0 /\ order' = queue
            BY <1>1, <1>2, <1>3, <2>1, <2>3 DEF Shortened
        <3> HIDE DEF d
        <3> QED BY <1>2, <1>3, <3>1
    <2> QED BY <2>2, <2>3
<1> HIDE DEF d
<1>6. \A i \in 1..n : order[i] \in RangeOf(order') <=> i > d
    <2>1. Len(order') \in Nat /\ DOMAIN order' = 1..(n - d + 1)
        BY <1>5, LenProperties
    <2>2. ASSUME NEW i \in 1..n, i > d
          PROVE  order[i] \in RangeOf(order')
        <3>1. i - d \in 1..(n - d + 1) /\ (i - d) + d = i
            BY <1>2, <1>4, <2>2
        <3>2. order'[i - d] = order[i]
            BY <1>3, <1>5, <3>1
        <3> QED BY <2>1, <3>1, <3>2 DEF RangeOf
    <2>3. ASSUME NEW i \in 1..n, order[i] \in RangeOf(order')
          PROVE  i > d
        <3>1. PICK k \in 1..(n - d + 1) : order'[k] = order[i]
            BY <2>1, <2>3 DEF RangeOf
        <3>2. queue[k + d] = order[i] /\ k + d \in 1..(n + 1)
            BY <1>2, <1>4, <1>5, <3>1
        <3>3. k + d # n + 1
            BY <1>2, <1>3, <2>3, <3>2
        <3>4. k + d \in 1..n /\ order[k + d] = order[i]
            BY <1>2, <1>3, <3>2, <3>3
        <3>5. k + d = i
            BY <1>1, <1>2, <3>4 DEF Distinct
        <3> QED BY <1>2, <1>4, <3>5
    <2> QED BY <2>2, <2>3
<1>7. Places(order, RangeOf(order')) = (d + 1)..n
    BY <1>2, <1>4, <1>6 DEF Places
<1> DEFINE kept == Retain(order, RangeOf(order'))
<1>8. /\ kept \in Seq(1..MaxId) /\ Len(kept) = n - d
      /\ \A k \in 1..(n - d) : kept[k] = order[k + d]
    BY <1>1, <1>4, <1>7, RetainRest DEF n
<1> HIDE DEF kept
<1>9. SubSeq(order', 1, Len(kept)) = kept
    <2>1. \A i \in 1..(n - d) : order'[i] \in 1..MaxId
        <3>1. \A i \in 1..(n - d) : i \in 1..(n - d + 1)
            BY <1>4
        <3>2. \A i \in 1..Len(order') : order'[i] \in 1..MaxId
            BY <1>5, ElementOfSeq
        <3> QED BY <1>5, <3>1, <3>2
    <2>2. /\ SubSeq(order', 1, n - d) \in Seq(1..MaxId)
          /\ Len(SubSeq(order', 1, n - d)) = n - d
          /\ \A k \in 1..(n - d) : SubSeq(order', 1, n - d)[k] = order'[k]
        BY <1>4, <2>1, SubSeqProperties
    <2>3. \A k \in 1..(n - d) : order'[k] = kept[k]
        BY <1>2, <1>3, <1>4, <1>5, <1>8
    <2>4. SubSeq(order', 1, n - d) = kept
        BY <1>8, <2>2, <2>3, SeqEqual
    <2> QED BY <1>8, <2>4
<1>10. ASSUME NEW i \in (Len(kept) + 1)..Len(order')
       PROVE  order'[i] \notin RangeOf(order)
    <2>1. i = n - d + 1 /\ i + d = n + 1
        BY <1>2, <1>4, <1>5, <1>8
    <2>2. order'[i] = id
        BY <1>3, <1>4, <1>5, <2>1
    <2> QED BY <1>1, <2>2
<1> QED BY <1>9, <1>10 DEF Follows, kept

LEMMA OrderStep ==
    ASSUME TInv, TrackerNext
    PROVE  Follows(order, order')
<1>1. order \in Seq(1..MaxId)
    BY DEF TInv, TrackerTypeOK
<1>2. CASE order' = order
    BY <1>1, <1>2, SameFollows
<1>3. CASE \E id \in registering : Insert(id)
    BY <1>3, InsertFollows
<1>4. CASE Snapshot
    BY <1>1, <1>2, <1>4, RetainFollows DEF Snapshot
<1>5. CASE TakeId \/ TrackerTick
    BY <1>2, <1>5 DEF TakeId, TrackerTick
<1>6. CASE \E id \in Issued : Setter(id)
    BY <1>2, <1>6, SetterRows DEF TInv
<1> QED BY <1>3, <1>4, <1>5, <1>6 DEF TrackerNext

\* Between any two snapshots the rows that stay keep their order and new ones
\* come after them: what the window's difference algorithm is built on.
THEOREM SurvivorsStayInOrder == TrackerSpec => SurvivorsKeepOrder
<1>1. ASSUME TInv, [TrackerNext]_trackerVars
      PROVE  [LET kept == Retain(order, RangeOf(order'))
              IN  /\ SubSeq(order', 1, Len(kept)) = kept
                  /\ \A i \in (Len(kept) + 1)..Len(order') :
                         order'[i] \notin RangeOf(order)]_trackerVars
    BY <1>1, OrderStep DEF Follows
<1> QED BY <1>1, TrackerInvariant, PTL DEF TrackerSpec, SurvivorsKeepOrder
=============================================================================
