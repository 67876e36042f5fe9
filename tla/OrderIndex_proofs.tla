--------------------------- MODULE OrderIndex_proofs ---------------------------
(***************************************************************************)
(* The order-id table, for every hash function, every set of ids and every *)
(* table at least twice as large as the pool.                              *)
(*                                                                         *)
(* A search finds an entry as long as every bucket before it, from its     *)
(* home on, is taken (Reached).  While a cluster is being reinserted this  *)
(* fails for the entries whose turn has not come.  An empty bucket outside *)
(* the cluster lays the ring out as a line: buckets are then counted from  *)
(* the one behind it, no search and no turn of the loop passes the end of  *)
(* the line, and what holds between two turns can be said with < (Mending).*)
(***************************************************************************)
EXTENDS OrderIndexMachine, FunctionTheorems, FiniteSums_proofs

Bucket == 0 .. IndexCapacity - 1
Entry == [orderId : OrderIds, slot : OrderSlots]
Empty == [orderId |-> NoSlot, slot |-> NoSlot]
Table == [Bucket -> Entry \cup {Empty}]
Homes == [OrderIds -> Bucket]

Full(t, i) == t[i] # Empty
At(h, id, k) == (h[id] + k) % IndexCapacity

(* Each live id has one entry, with its slot, and there is no other entry. *)
Holds(t, lv) ==
  /\ \A i \in Bucket : Full(t, i) => lv[t[i].orderId] = t[i].slot
  /\ \A id \in OrderIds : lv[id] # NoSlot => \E i \in Bucket : Full(t, i) /\ t[i].orderId = id

Once(t) ==
  \A i, j \in Bucket : Full(t, i) /\ Full(t, j) /\ t[i].orderId = t[j].orderId => i = j

(* The k-th probe for the entry at i finds it, and no empty bucket before. *)
Reached(h, t, i) ==
  \E k \in Bucket : /\ At(h, t[i].orderId, k) = i
                    /\ \A j \in 0 .. k - 1 : Full(t, At(h, t[i].orderId, j))

AllReached(h, t) == \A i \in Bucket : Full(t, i) => Reached(h, t, i)

SlotsDiffer(lv) ==
  /\ lv \in [OrderIds -> OrderSlots \cup {NoSlot}]
  /\ \A a, b \in OrderIds : lv[a] = lv[b] /\ lv[a] # NoSlot => a = b

IndexInv ==
  /\ home \in Homes
  /\ table \in Table
  /\ Holds(table, slotOf) /\ Once(table) /\ AllReached(home, table)
  /\ SlotsDiffer(slotOf)

-----------------------------------------------------------------------------
(* Buckets. *)

(* A sum of two buckets goes around at most once.                          *)
LEMMA Around ==
  ASSUME NEW x \in Nat, x < 2 * IndexCapacity
  PROVE  x % IndexCapacity = IF x < IndexCapacity THEN x ELSE x - IndexCapacity
<1>1. IndexCapacity \in Nat \ {0}
  BY IndexAssumption
<1>2. /\ x % IndexCapacity \in 0 .. IndexCapacity - 1
      /\ x = IndexCapacity * (x \div IndexCapacity) + (x % IndexCapacity)
      /\ x \div IndexCapacity \in Nat
  BY <1>1, SMTT(30)
<1>3. x \div IndexCapacity \in {0, 1}
  BY <1>1, <1>2, SMTT(30)
<1> QED BY <1>1, <1>2, <1>3

(* A probe looks at a bucket.  No two of the probes of a search look at    *)
(* the same one, and together they look at all.                            *)
LEMMA Probes ==
  ASSUME NEW h \in Homes, NEW id \in OrderIds
  PROVE  /\ \A k \in Bucket : At(h, id, k) \in Bucket
         /\ \A j, k \in Bucket : At(h, id, j) = At(h, id, k) => j = k
         /\ \A i \in Bucket : \E k \in Bucket : At(h, id, k) = i
<1>1. IndexCapacity \in Nat \ {0} /\ h[id] \in Bucket
  BY IndexAssumption DEF Homes
<1>2. \A k \in Bucket : At(h, id, k) = IF h[id] + k < IndexCapacity THEN h[id] + k
                                       ELSE h[id] + k - IndexCapacity
  BY <1>1, Around DEF At, Bucket
<1>3. ASSUME NEW i \in Bucket  PROVE \E k \in Bucket : At(h, id, k) = i
  <2> DEFINE k == IF h[id] <= i THEN i - h[id] ELSE i - h[id] + IndexCapacity
  <2>1. k \in Bucket
    BY <1>1 DEF Bucket
  <2>2. At(h, id, k) = i
    BY <1>1, <1>2, <2>1 DEF Bucket
  <2> QED BY <2>1, <2>2
<1>4. \A k \in Bucket : At(h, id, k) \in Bucket
  BY <1>1, <1>2 DEF Bucket
<1>5. ASSUME NEW j \in Bucket, NEW k \in Bucket, At(h, id, j) = At(h, id, k)  PROVE j = k
  <2>1. /\ At(h, id, j) = IF h[id] + j < IndexCapacity THEN h[id] + j ELSE h[id] + j - IndexCapacity
        /\ At(h, id, k) = IF h[id] + k < IndexCapacity THEN h[id] + k ELSE h[id] + k - IndexCapacity
    BY <1>2
  <2>2. h[id] \in Int /\ j \in 0 .. IndexCapacity - 1 /\ k \in 0 .. IndexCapacity - 1
    BY <1>1 DEF Bucket
  <2>3. (IF h[id] + j < IndexCapacity THEN h[id] + j ELSE h[id] + j - IndexCapacity) =
        (IF h[id] + k < IndexCapacity THEN h[id] + k ELSE h[id] + k - IndexCapacity)
    BY <1>5, <2>1
  <2> QED BY <1>1, <2>2, <2>3
<1> QED BY <1>3, <1>4, <1>5

-----------------------------------------------------------------------------
(* Searching. *)

Ends(t, id, k) ==
  /\ k \in Bucket
  /\ t[At(home, id, k)].orderId \in {id, NoSlot}
  /\ \A j \in 0 .. k - 1 : t[At(home, id, j)].orderId \notin {id, NoSlot}

(* Ends is where a search of the code stops. *)
LEMMA EndsIs ==
  ASSUME NEW t, NEW id
  PROVE  \A k : k \in Index!EndOfSearch(t, id) <=> Ends(t, id, k)
BY DEF Index!EndOfSearch, Index!Bucket, Index!Probe, Ends, Bucket, At

(* A search ends at most once. *)
LEMMA OneEnd ==
  ASSUME NEW t, NEW id, NEW j, Ends(t, id, j), NEW k, Ends(t, id, k)
  PROVE  j = k
<1>1. j \in Nat /\ k \in Nat
  BY IndexAssumption DEF Ends, Bucket
<1>2. ASSUME NEW m \in Nat, NEW n \in Nat, Ends(t, id, m), Ends(t, id, n), m < n  PROVE FALSE
  <2>1. m \in 0 .. n - 1
    BY <1>2
  <2> QED BY <1>2, <2>1 DEF Ends
<1> QED BY <1>1, <1>2

(* Where it ends is what CHOOSE gives. *)
LEMMA TheEnd ==
  ASSUME NEW t, NEW id, NEW k, Ends(t, id, k)
  PROVE  /\ Index!EndOfSearch(t, id) # {}
         /\ (CHOOSE n \in Index!EndOfSearch(t, id) : TRUE) = k
<1>1. k \in Index!EndOfSearch(t, id)
  BY EndsIs
<1> DEFINE c == CHOOSE n \in Index!EndOfSearch(t, id) : TRUE
<1>2. c \in Index!EndOfSearch(t, id)
  BY <1>1
<1> HIDE DEF c
<1>3. Ends(t, id, c)
  BY <1>2, EndsIs
<1>4. c = k
  BY <1>3, OneEnd
<1> QED BY <1>1, <1>4 DEF c

(* A search returns the slot in the bucket it ends at. *)
LEMMA FindIs ==
  ASSUME NEW t, NEW id, NEW k, Ends(t, id, k)
  PROVE  Index!Find(t, id) = t[At(home, id, k)].slot
<1> DEFINE c == CHOOSE n \in Index!EndOfSearch(t, id) : TRUE
<1>1. Index!EndOfSearch(t, id) # {} => Index!Find(t, id) = t[Index!Probe(id, c)].slot
  BY DEF Index!Find
<1>2. Index!EndOfSearch(t, id) # {} /\ c = k
  BY TheEnd
<1> HIDE DEF c
<1> QED BY <1>1, <1>2 DEF Index!Probe, At

(* The ids and slots of a table. *)
LEMMA Entries ==
  ASSUME NEW t \in Table, NEW i \in Bucket
  PROVE  IF Full(t, i) THEN /\ t[i].orderId \in OrderIds /\ t[i].slot \in OrderSlots
                            /\ t[i].orderId # NoSlot /\ t[i].slot # NoSlot
         ELSE t[i].orderId = NoSlot /\ t[i].slot = NoSlot
BY IndexAssumption DEF Table, Full, Entry, Empty

(* A search for a live id ends at its entry; one for another id finds      *)
(* nothing.                                                                *)
LEMMA FindIsLive ==
  ASSUME NEW t \in Table, NEW lv, home \in Homes, Holds(t, lv), Once(t), AllReached(home, t),
         SlotsDiffer(lv), NEW id \in OrderIds
  PROVE  /\ Index!Find(t, id) = lv[id]
         /\ lv[id] # NoSlot => \E k : Ends(t, id, k) /\ t[At(home, id, k)].orderId = id
<1>1. id # NoSlot
  BY IndexAssumption
<1>2. \A k \in Bucket : At(home, id, k) \in Bucket
  BY Probes
<1>3. \A j, k \in Bucket : At(home, id, j) = At(home, id, k) => j = k
  BY Probes
<1>4. CASE lv[id] # NoSlot
  <2>1. PICK i \in Bucket : Full(t, i) /\ t[i].orderId = id
    BY <1>4 DEF Holds
  <2>2. PICK k \in Bucket : /\ At(home, id, k) = i
                            /\ \A j \in 0 .. k - 1 : Full(t, At(home, id, j))
    BY <2>1 DEF AllReached, Reached
  <2>3. ASSUME NEW j \in 0 .. k - 1  PROVE t[At(home, id, j)].orderId \notin {id, NoSlot}
    <3>1. j \in Bucket /\ j # k
      BY <2>2, IndexAssumption DEF Bucket
    <3>2. At(home, id, j) \in Bucket /\ At(home, id, j) # i /\ Full(t, At(home, id, j))
      BY <1>2, <1>3, <2>2, <2>3, <3>1
    <3> QED BY <2>1, <3>2, Entries DEF Once
  <2>4. Ends(t, id, k) /\ t[At(home, id, k)].orderId = id
    BY <2>1, <2>2, <2>3 DEF Ends
  <2>5. Index!Find(t, id) = t[At(home, id, k)].slot
    BY <2>4, FindIs
  <2>6. t[At(home, id, k)].slot = lv[id]
    BY <2>1, <2>2 DEF Holds
  <2> QED BY <2>4, <2>5, <2>6
<1>5. CASE lv[id] = NoSlot
  <2>1. ASSUME NEW k, Ends(t, id, k)  PROVE t[At(home, id, k)].slot = NoSlot
    <3>1. At(home, id, k) \in Bucket /\ t[At(home, id, k)].orderId \in {id, NoSlot}
      BY <1>2, <2>1 DEF Ends
    <3>2. ~ (Full(t, At(home, id, k)) /\ t[At(home, id, k)].orderId = id)
      BY <1>5, <3>1, Entries DEF Holds
    <3> QED BY <3>1, <3>2, Entries
  <2>2. CASE Index!EndOfSearch(t, id) = {}
    BY <1>5, <2>2 DEF Index!Find
  <2>3. CASE Index!EndOfSearch(t, id) # {}
    <3>1. PICK k : Ends(t, id, k)
      BY <2>3, EndsIs
    <3>2. Index!Find(t, id) = t[At(home, id, k)].slot
      BY <3>1, FindIs
    <3> QED BY <1>5, <2>1, <3>1, <3>2
  <2> QED BY <1>5, <2>2, <2>3
<1> QED BY <1>4, <1>5

-----------------------------------------------------------------------------
(* Room. *)

(* The entries are as many as the slots in use, and the pool is at most    *)
(* half the table: a bucket is empty.                                      *)
LEMMA HasRoom ==
  ASSUME NEW t \in Table, NEW lv, Holds(t, lv), Once(t), SlotsDiffer(lv)
  PROVE  /\ Cardinality({i \in Bucket : Full(t, i)}) = Cardinality({lv[id] : id \in OrderIds} \ {NoSlot})
         /\ \E i \in Bucket : ~ Full(t, i)
<1> DEFINE taken == {i \in Bucket : Full(t, i)}
           used == {lv[id] : id \in OrderIds} \ {NoSlot}
           f == [i \in taken |-> t[i].slot]
<1>1. \A i \in taken : /\ i \in Bucket /\ Full(t, i)
                       /\ t[i].orderId \in OrderIds /\ t[i].slot = lv[t[i].orderId] /\ t[i].slot # NoSlot
  BY Entries DEF Holds
<1>2. f \in [taken -> used]
  BY <1>1
<1>3. ASSUME NEW i \in taken, NEW j \in taken, f[i] = f[j]  PROVE i = j
  BY <1>1, <1>3 DEF SlotsDiffer, Once
<1>4. ASSUME NEW s \in used  PROVE \E i \in taken : f[i] = s
  <2>1. PICK id \in OrderIds : lv[id] = s /\ s # NoSlot
    OBVIOUS
  <2>2. PICK i \in Bucket : Full(t, i) /\ t[i].orderId = id
    BY <2>1 DEF Holds
  <2> QED BY <1>1, <2>1, <2>2
<1>5. IsFiniteSet(OrderSlots) /\ used \subseteq OrderSlots
  BY IndexAssumption DEF SlotsDiffer
<1>6. /\ IsFiniteSet(Bucket) /\ Cardinality(Bucket) = IndexCapacity
      /\ IndexCapacity \in Nat \ {0} /\ IndexCapacity >= 2 * Cardinality(OrderSlots)
  BY IndexAssumption, FS_Interval DEF Bucket
<1>7. taken \subseteq Bucket
  OBVIOUS
<1> HIDE DEF taken, used, f
<1>8. f \in Bijection(taken, used)
  <2>1. \A i, j \in taken : f[i] = f[j] => i = j
    BY <1>3
  <2>2. \A s \in used : \E i \in taken : f[i] = s
    BY <1>4
  <2> QED BY <1>2, <2>1, <2>2, Fun_IsBij
<1>9. /\ IsFiniteSet(taken) /\ IsFiniteSet(used)
      /\ Cardinality(used) \in Nat /\ Cardinality(used) <= Cardinality(OrderSlots)
      /\ Cardinality(OrderSlots) \in Nat
  BY <1>5, <1>6, <1>7, FS_Subset, FS_CardinalityType
<1>10. Cardinality(taken) = Cardinality(used)
  <2>1. ExistsBijection(taken, used)
    BY <1>8 DEF ExistsBijection
  <2> QED BY <1>9, <2>1, FS_Bijection
<1>11. taken # Bucket
  BY <1>6, <1>9, <1>10
<1> QED BY <1>7, <1>10, <1>11 DEF taken, used

(* An id without an entry goes to the first empty bucket on its way.       *)
LEMMA InsertsAt ==
  ASSUME NEW t \in Table, home \in Homes, NEW id \in OrderIds, NEW slot \in OrderSlots,
         \A i \in Bucket : Full(t, i) => t[i].orderId # id,
         \E i \in Bucket : ~ Full(t, i)
  PROVE  \E k \in Bucket :
           /\ ~ Full(t, At(home, id, k))
           /\ \A j \in 0 .. k - 1 : Full(t, At(home, id, j))
           /\ Index!Insert(t, id, slot) =
                [t EXCEPT ![At(home, id, k)] = [orderId |-> id, slot |-> slot]]
<1> DEFINE Out == {k \in Bucket : Full(t, At(home, id, k))}
<1>1. IndexCapacity \in Nat \ {0}
  BY IndexAssumption
<1>2. PICK k \in 0 .. IndexCapacity :
        (\A j \in 0 .. k - 1 : j \in Out) /\ (k < IndexCapacity => k \notin Out)
  <2> HIDE DEF Out
  <2> QED BY <1>1, FirstNotIn
<1>3. \A j \in 0 .. k - 1 : j \in Bucket /\ Full(t, At(home, id, j))
  BY <1>2
<1>4. k < IndexCapacity
  <2>1. PICK i \in Bucket : ~ Full(t, i)
    OBVIOUS
  <2>2. PICK j \in Bucket : At(home, id, j) = i
    BY Probes
  <2>3. j \notin 0 .. k - 1
    BY <1>3, <2>1, <2>2
  <2> QED BY <1>1, <1>2, <2>3 DEF Bucket
<1>5. k \in Bucket /\ ~ Full(t, At(home, id, k))
  <2>1. k \in Bucket
    BY <1>1, <1>4 DEF Bucket
  <2> QED BY <1>2, <1>4, <2>1
<1>6. \A j \in Bucket : At(home, id, j) \in Bucket
  BY Probes
<1>7. \A j \in 0 .. k - 1 : t[At(home, id, j)].orderId \notin {id, NoSlot}
  BY <1>3, <1>6, Entries
<1>8. Ends(t, id, k)
  BY <1>5, <1>6, <1>7, Entries DEF Ends
<1> DEFINE c == CHOOSE n \in Index!EndOfSearch(t, id) : TRUE
<1>9. c = k
  BY <1>8, TheEnd
<1>10. Index!CanInsert(t, id)
  BY <1>5, <1>8, EndsIs
     DEF Index!CanInsert, Index!Occupied, Index!Probe, Index!EmptyEntry, Full, Empty, At
<1>11. Index!Insert(t, id, slot) = [t EXCEPT ![Index!Probe(id, c)] = [orderId |-> id, slot |-> slot]]
  BY <1>10 DEF Index!Insert
<1> HIDE DEF c
<1>12. Index!Probe(id, c) = At(home, id, k)
  BY <1>9 DEF Index!Probe, At
<1> QED BY <1>3, <1>5, <1>11, <1>12

-----------------------------------------------------------------------------
(* Taking out and putting in. *)

Put(t, p, id, slot) == [t EXCEPT ![p] = [orderId |-> id, slot |-> slot]]
Take(t, p) == [t EXCEPT ![p] = Empty]

(* An entry put into an empty bucket. *)
LEMMA PutKeeps ==
  ASSUME NEW t \in Table, NEW p \in Bucket, ~ Full(t, p),
         NEW id \in OrderIds, NEW slot \in OrderSlots, Once(t),
         \A i \in Bucket : Full(t, i) => t[i].orderId # id,
         NEW u, u = Put(t, p, id, slot)
  PROVE  /\ u \in Table /\ Once(u)
         /\ Full(u, p) /\ u[p].orderId = id /\ u[p].slot = slot
         /\ \A i \in Bucket : i # p => u[i] = t[i]
<1>1. u[p] = [orderId |-> id, slot |-> slot] /\ \A i \in Bucket : i # p => u[i] = t[i]
  BY DEF Table, Put
<1>2. u \in Table
  BY DEF Table, Entry, Put
<1>3. Full(u, p) /\ u[p].orderId = id /\ u[p].slot = slot
  BY <1>1, IndexAssumption DEF Full, Empty
<1>4. \A i \in Bucket : i # p /\ Full(u, i) => Full(t, i) /\ u[i] = t[i]
  BY <1>1 DEF Full
<1>5. Once(u)
  BY <1>3, <1>4 DEF Once
<1> QED BY <1>1, <1>2, <1>3, <1>5

(* A bucket emptied. *)
LEMMA TakeKeeps ==
  ASSUME NEW t \in Table, NEW p \in Bucket, Full(t, p), Once(t),
         NEW u, u = Take(t, p)
  PROVE  /\ u \in Table /\ Once(u) /\ ~ Full(u, p)
         /\ \A i \in Bucket : i # p => u[i] = t[i]
         /\ \A i \in Bucket : Full(u, i) => u[i].orderId # t[p].orderId
<1>1. u[p] = Empty /\ \A i \in Bucket : i # p => u[i] = t[i]
  BY DEF Table, Take
<1>2. u \in Table
  BY DEF Table, Take
<1>3. \A i \in Bucket : Full(u, i) => i # p /\ Full(t, i) /\ u[i] = t[i]
  BY <1>1 DEF Full
<1>4. Once(u)
  BY <1>3 DEF Once
<1> QED BY <1>1, <1>2, <1>3, <1>4 DEF Full, Once

(* insertOrderIndex of an id that is not live. *)
LEMMA InsertKeeps ==
  ASSUME home \in Homes, NEW t \in Table, NEW lv,
         Holds(t, lv), Once(t), AllReached(home, t), SlotsDiffer(lv),
         NEW id \in OrderIds, lv[id] = NoSlot,
         NEW slot \in OrderSlots, \A other \in OrderIds : lv[other] # slot,
         NEW u, u = Index!Insert(t, id, slot), NEW lw, lw = [lv EXCEPT ![id] = slot]
  PROVE  u \in Table /\ Holds(u, lw) /\ Once(u) /\ AllReached(home, u) /\ SlotsDiffer(lw)
<1>1. \A i \in Bucket : Full(t, i) => t[i].orderId # id
  BY Entries DEF Holds
<1>2. PICK k \in Bucket :
        /\ ~ Full(t, At(home, id, k))
        /\ \A j \in 0 .. k - 1 : Full(t, At(home, id, j))
        /\ u = [t EXCEPT ![At(home, id, k)] = [orderId |-> id, slot |-> slot]]
  BY <1>1, HasRoom, InsertsAt
<1> DEFINE p == At(home, id, k)
<1>3. p \in Bucket
  BY Probes
<1> HIDE DEF p
<1>4. /\ u \in Table /\ Once(u)
      /\ Full(u, p) /\ u[p].orderId = id /\ u[p].slot = slot
      /\ \A i \in Bucket : i # p => u[i] = t[i]
  <2>1. ~ Full(t, p) /\ u = Put(t, p, id, slot)
    BY <1>2 DEF p, Put
  <2> QED BY <1>1, <1>3, <2>1, PutKeeps
<1>5. \A i \in Bucket : i # p => (Full(u, i) <=> Full(t, i))
  BY <1>4 DEF Full
<1>6. \A i \in Bucket : Full(t, i) => i # p /\ Full(u, i)
  BY <1>2, <1>5 DEF p
<1>7. /\ lw \in [OrderIds -> OrderSlots \cup {NoSlot}] /\ lw[id] = slot
      /\ \A other \in OrderIds : other # id => lw[other] = lv[other]
  BY DEF SlotsDiffer
<1>8. SlotsDiffer(lw)
  BY <1>7 DEF SlotsDiffer
<1>9. Holds(u, lw)
  <2>1. ASSUME NEW i \in Bucket, Full(u, i)  PROVE lw[u[i].orderId] = u[i].slot
    <3>1. CASE i = p
      BY <1>4, <1>7, <3>1
    <3>2. CASE i # p
      <4>1. u[i] = t[i] /\ Full(t, i) /\ t[i].orderId # id /\ t[i].orderId \in OrderIds
        BY <1>1, <1>4, <1>5, <2>1, <3>2, Entries
      <4> QED BY <1>7, <4>1 DEF Holds
    <3> QED BY <3>1, <3>2
  <2>2. ASSUME NEW other \in OrderIds, lw[other] # NoSlot
        PROVE  \E i \in Bucket : Full(u, i) /\ u[i].orderId = other
    <3>1. CASE other = id
      BY <1>3, <1>4, <3>1
    <3>2. CASE other # id
      <4>1. PICK i \in Bucket : Full(t, i) /\ t[i].orderId = other
        BY <1>7, <2>2, <3>2 DEF Holds
      <4> QED BY <1>4, <1>6, <4>1
    <3> QED BY <3>1, <3>2
  <2> QED BY <2>1, <2>2 DEF Holds
<1>10. ASSUME NEW i \in Bucket, Full(u, i)  PROVE Reached(home, u, i)
  <2>1. ASSUME NEW other \in OrderIds, NEW m \in Bucket, u[i].orderId = other,
               At(home, other, m) = i, \A j \in 0 .. m - 1 : Full(t, At(home, other, j))
        PROVE  Reached(home, u, i)
    <3>1. ASSUME NEW j \in 0 .. m - 1  PROVE Full(u, At(home, other, j))
      <4>1. j \in Bucket
        BY IndexAssumption DEF Bucket
      <4>2. At(home, other, j) \in Bucket
        BY <4>1, Probes
      <4> QED BY <1>6, <2>1, <4>2
    <3> QED BY <2>1, <3>1 DEF Reached
  <2>2. CASE i = p
    BY <1>2, <1>4, <2>1, <2>2 DEF p
  <2>3. CASE i # p
    <3>1. u[i] = t[i] /\ Full(t, i) /\ t[i].orderId \in OrderIds
      BY <1>4, <1>5, <1>10, <2>3, Entries
    <3>2. PICK m \in Bucket : /\ At(home, t[i].orderId, m) = i
                              /\ \A j \in 0 .. m - 1 : Full(t, At(home, t[i].orderId, j))
      BY <3>1 DEF AllReached, Reached
    <3> QED BY <2>1, <3>1, <3>2
  <2> QED BY <2>2, <2>3
<1> QED BY <1>4, <1>8, <1>9, <1>10 DEF AllReached

-----------------------------------------------------------------------------
(* The ring laid out as a line that ends at bucket z. *)

(* The q-th bucket from the one behind z on, and the way back. *)
Line(z, q) == IF z + 1 + q < IndexCapacity THEN z + 1 + q ELSE z + 1 + q - IndexCapacity
Rank(z, i) == IF i > z THEN i - z - 1 ELSE i - z - 1 + IndexCapacity

(* The ring laid out from behind z: each bucket has a rank, and a probe that *)
(* stays on the line moves up by one rank a step.                          *)
LEMMA Layout ==
  ASSUME NEW z \in Bucket
  PROVE  /\ \A q \in Bucket : Line(z, q) \in Bucket /\ Rank(z, Line(z, q)) = q
         /\ \A i \in Bucket : Rank(z, i) \in Bucket /\ Line(z, Rank(z, i)) = i
         /\ Rank(z, z) = IndexCapacity - 1
         /\ \A i \in Bucket, k \in Nat :
              Rank(z, i) + k < IndexCapacity =>
                Rank(z, i) + k \in Bucket /\ (i + k) % IndexCapacity = Line(z, Rank(z, i) + k)
<1>1. IndexCapacity \in Nat \ {0} /\ z \in 0 .. IndexCapacity - 1
  BY IndexAssumption DEF Bucket
<1>2. \A q \in Bucket : Line(z, q) \in Bucket /\ Rank(z, Line(z, q)) = q
  BY <1>1 DEF Bucket, Line, Rank
<1>3. \A i \in Bucket : Rank(z, i) \in Bucket /\ Line(z, Rank(z, i)) = i
  BY <1>1 DEF Bucket, Line, Rank
<1>4. Rank(z, z) = IndexCapacity - 1
  BY <1>1 DEF Rank
<1>5. ASSUME NEW i \in Bucket, NEW k \in Nat, Rank(z, i) + k < IndexCapacity
      PROVE  Rank(z, i) + k \in Bucket /\ (i + k) % IndexCapacity = Line(z, Rank(z, i) + k)
  <2>1. i \in 0 .. IndexCapacity - 1 /\ Rank(z, i) \in 0 .. IndexCapacity - 1
    BY <1>3 DEF Bucket
  <2>2. Rank(z, i) + k \in Bucket /\ k < IndexCapacity
    BY <1>1, <1>5, <2>1 DEF Bucket
  <2>3. i + k \in Nat /\ i + k < 2 * IndexCapacity
    BY <1>1, <2>1, <2>2
  <2>4. (i + k) % IndexCapacity = IF i + k < IndexCapacity THEN i + k ELSE i + k - IndexCapacity
    <3>1. PICK x \in Nat : x = i + k /\ x < 2 * IndexCapacity
      BY <2>3
    <3>2. x % IndexCapacity = IF x < IndexCapacity THEN x ELSE x - IndexCapacity
      BY <3>1, Around
    <3> QED BY <1>1, <2>1, <3>1, <3>2
  <2>5. (IF i + k < IndexCapacity THEN i + k ELSE i + k - IndexCapacity) = Line(z, Rank(z, i) + k)
    BY <1>1, <1>5, <2>1 DEF Line, Rank
  <2> QED BY <2>2, <2>4, <2>5
<1> QED BY <1>2, <1>3, <1>4, <1>5

(* All the buckets with ranks from f up to, but not including, l.          *)
FullBetween(t, z, f, l) == \A q \in Bucket : f <= q /\ q < l => Full(t, Line(z, q))

HomeRank(h, t, z, i) == Rank(z, h[t[i].orderId])

(* Where z is empty, to be reached is to be reached on the line.           *)
LEMMA OnTheLine ==
  ASSUME NEW h \in Homes, NEW t \in Table, NEW z \in Bucket, ~ Full(t, z),
         NEW i \in Bucket, Full(t, i)
  PROVE  Reached(h, t, i) <=>
           HomeRank(h, t, z, i) <= Rank(z, i) /\ FullBetween(t, z, HomeRank(h, t, z, i), Rank(z, i))
<1> DEFINE id == t[i].orderId
           f == Rank(z, h[id])
           l == Rank(z, i)
<1>1. IndexCapacity \in Nat \ {0} /\ Bucket = 0 .. IndexCapacity - 1
  BY IndexAssumption DEF Bucket
<1>2. id \in OrderIds /\ h[id] \in Bucket
  BY Entries DEF Homes
<1>3. f \in Bucket /\ l \in Bucket /\ Line(z, l) = i /\ l # IndexCapacity - 1
  BY <1>2, Layout
<1> HIDE DEF id, f, l
<1>4. \A k \in Nat : f + k < IndexCapacity => f + k \in Bucket /\ At(h, id, k) = Line(z, f + k)
  BY <1>2, Layout DEF At, f
<1>5. ASSUME NEW k \in Bucket, At(h, id, k) = i, \A j \in 0 .. k - 1 : Full(t, At(h, id, j))
      PROVE  f <= l /\ FullBetween(t, z, f, l)
  <2>1. f + k < IndexCapacity
    <3> SUFFICES ASSUME f + k >= IndexCapacity  PROVE FALSE
      BY <1>1, <1>3
    <3> DEFINE j == IndexCapacity - 1 - f
    <3>1. j \in Nat /\ j \in 0 .. k - 1 /\ f + j = IndexCapacity - 1
      BY <1>1, <1>3
    <3>2. At(h, id, j) = Line(z, IndexCapacity - 1)
      BY <1>1, <1>4, <3>1
    <3>3. Line(z, IndexCapacity - 1) = z
      BY Layout
    <3> QED BY <1>5, <3>1, <3>2, <3>3
  <2>2. f + k = l
    <3>1. k \in Nat
      BY <1>1
    <3>2. f + k \in Bucket /\ Line(z, f + k) = i
      BY <1>4, <1>5, <2>1, <3>1
    <3> QED BY <3>2, Layout DEF l
  <2>3. ASSUME NEW q \in Bucket, f <= q, q < l  PROVE Full(t, Line(z, q))
    <3>1. q - f \in Nat /\ q - f \in 0 .. k - 1 /\ f + (q - f) = q /\ q < IndexCapacity
      BY <1>1, <1>3, <2>2, <2>3
    <3>2. At(h, id, q - f) = Line(z, q)
      BY <1>4, <3>1
    <3> QED BY <1>5, <3>1, <3>2
  <2> QED BY <1>1, <1>3, <2>2, <2>3 DEF FullBetween
<1>6. ASSUME f <= l, FullBetween(t, z, f, l)  PROVE Reached(h, t, i)
  <2> DEFINE k == l - f
  <2>1. k \in Bucket /\ k \in Nat /\ f + k = l /\ l < IndexCapacity
    BY <1>1, <1>3, <1>6
  <2> HIDE DEF k
  <2>2. At(h, id, k) = i
    BY <1>3, <1>4, <2>1
  <2>3. ASSUME NEW j \in 0 .. k - 1  PROVE Full(t, At(h, id, j))
    <3>1. j \in Nat /\ f + j < l /\ f <= f + j /\ f + j < IndexCapacity
      BY <1>1, <1>3, <2>1
    <3>2. f + j \in Bucket /\ At(h, id, j) = Line(z, f + j)
      BY <1>4, <3>1
    <3> QED BY <1>6, <3>1, <3>2 DEF FullBetween
  <2> QED BY <2>1, <2>2, <2>3 DEF Reached, id
<1>7. Reached(h, t, i) => f <= l /\ FullBetween(t, z, f, l)
  BY <1>5 DEF Reached, id
<1> QED BY <1>6, <1>7 DEF HomeRank, f, l, id

-----------------------------------------------------------------------------
(* Reinsertion. *)

(* The loop is past rank a.  Entries up to there are reached.  To one      *)
(* beyond no bucket is missing beyond a.                                   *)
Mending(h, t, z, a) ==
  /\ ~ Full(t, z)
  /\ \A i \in Bucket : Full(t, i) =>
       /\ HomeRank(h, t, z, i) <= Rank(z, i)
       /\ \A q \in Bucket :
            HomeRank(h, t, z, i) <= q /\ q < Rank(z, i) /\ (Rank(z, i) <= a \/ q > a) =>
              Full(t, Line(z, q))

(* It begins with the bucket emptied. *)
LEMMA MendingBegins ==
  ASSUME NEW h \in Homes, NEW t \in Table, NEW z \in Bucket, NEW e \in Bucket,
         ~ Full(t, z), Full(t, e), AllReached(h, t), Once(t), NEW u, u = Take(t, e)
  PROVE  Mending(h, u, z, Rank(z, e))
<1>1. /\ ~ Full(u, e) /\ \A i \in Bucket : i # e => u[i] = t[i]
  BY TakeKeeps
<1>2. \A i \in Bucket : i # e => (Full(u, i) <=> Full(t, i))
  BY <1>1 DEF Full
<1>3. ~ Full(u, z)
  BY <1>2
<1>4. ASSUME NEW i \in Bucket, Full(u, i)
      PROVE  /\ HomeRank(h, u, z, i) <= Rank(z, i)
             /\ \A q \in Bucket :
                  HomeRank(h, u, z, i) <= q /\ q < Rank(z, i) /\ (Rank(z, i) <= Rank(z, e) \/ q > Rank(z, e)) =>
                    Full(u, Line(z, q))
  <2>1. i # e /\ Full(t, i) /\ u[i] = t[i]
    BY <1>1, <1>2, <1>4
  <2>2. /\ HomeRank(h, t, z, i) <= Rank(z, i)
        /\ FullBetween(t, z, HomeRank(h, t, z, i), Rank(z, i))
    BY <2>1, OnTheLine DEF AllReached
  <2>3. HomeRank(h, u, z, i) = HomeRank(h, t, z, i)
    BY <2>1 DEF HomeRank
  <2>4. ASSUME NEW q \in Bucket, HomeRank(h, t, z, i) <= q, q < Rank(z, i),
               Rank(z, i) <= Rank(z, e) \/ q > Rank(z, e)
        PROVE  Full(u, Line(z, q))
    <3>1. Full(t, Line(z, q)) /\ Line(z, q) \in Bucket /\ Rank(z, Line(z, q)) = q
      BY <2>2, <2>4, Layout DEF FullBetween
    <3>2. q # Rank(z, e)
      <4>1. q \in Int /\ Rank(z, i) \in Int /\ Rank(z, e) \in Int
        BY Layout, IndexAssumption DEF Bucket
      <4> QED BY <2>4, <4>1
    <3> QED BY <1>2, <3>1, <3>2
  <2> QED BY <2>2, <2>3, <2>4
<1> QED BY <1>3, <1>4 DEF Mending

(* It ends at the first empty bucket. *)
LEMMA MendingEnds ==
  ASSUME NEW h \in Homes, NEW t \in Table, NEW z \in Bucket, NEW a \in Nat,
         a + 1 \in Bucket, Mending(h, t, z, a), ~ Full(t, Line(z, a + 1))
  PROVE  AllReached(h, t)
<1>1. ASSUME NEW i \in Bucket, Full(t, i)  PROVE Reached(h, t, i)
  <2> DEFINE f == HomeRank(h, t, z, i)
             l == Rank(z, i)
  <2>1. l \in Bucket /\ Line(z, l) = i /\ Bucket \subseteq Nat
    BY Layout DEF Bucket
  <2>2. f \in Bucket
    <3>1. h[t[i].orderId] \in Bucket
      BY <1>1, Entries DEF Homes
    <3> QED BY <3>1, Layout DEF HomeRank
  <2>3. /\ f <= l
        /\ \A q \in Bucket : f <= q /\ q < l /\ (l <= a \/ q > a) => Full(t, Line(z, q))
    BY <1>1 DEF Mending
  <2> HIDE DEF f, l
  <2>4. ASSUME NEW q \in Bucket, f <= q, q < l  PROVE Full(t, Line(z, q))
    <3>1. CASE l <= a
      BY <2>3, <2>4, <3>1
    <3>2. CASE l > a
      <4>1. l # a + 1
        BY <1>1, <2>1
      <4>2. ~ (f <= a + 1)
        <5>1. f <= a + 1 => Full(t, Line(z, a + 1))
          BY <2>1, <2>2, <2>3, <3>2, <4>1
        <5> QED BY <5>1
      <4>3. q > a
        BY <2>1, <2>2, <2>4, <4>2
      <4> QED BY <2>3, <2>4, <4>3
    <3> QED BY <2>1, <3>1, <3>2
  <2>5. f <= l /\ FullBetween(t, z, f, l)
    BY <2>3, <2>4 DEF FullBetween
  <2> QED BY <1>1, <2>5, OnTheLine DEF f, l, Mending
<1> QED BY <1>1 DEF AllReached

(* A turn takes the entry at rank a + 1 and puts it at that rank or before.*)
LEMMA MendingGoesOn ==
  ASSUME NEW h \in Homes, NEW t \in Table, Once(t), NEW z \in Bucket, NEW a \in Nat,
         a + 1 \in Bucket, Mending(h, t, z, a), NEW e \in Bucket, e = Line(z, a + 1), Full(t, e),
         NEW id \in OrderIds, id = t[e].orderId, NEW slot \in OrderSlots, slot = t[e].slot,
         NEW u \in Table, u = Take(t, e), NEW k \in Bucket, NEW p \in Bucket, p = At(h, id, k),
         ~ Full(u, p), \A j \in 0 .. k - 1 : Full(u, At(h, id, j)),
         NEW v, v = Put(u, p, id, slot)
  PROVE  a + 2 \in Bucket /\ Mending(h, v, z, a + 1)
<1>1. IndexCapacity \in Nat \ {0} /\ Bucket = 0 .. IndexCapacity - 1
  BY IndexAssumption DEF Bucket
<1>2. /\ Once(u) /\ ~ Full(u, e) /\ \A i \in Bucket : i # e => u[i] = t[i]
      /\ \A i \in Bucket : Full(u, i) => u[i].orderId # id
  BY TakeKeeps
<1>3. /\ v \in Table /\ Full(v, p) /\ v[p].orderId = id /\ v[p].slot = slot
      /\ \A i \in Bucket : i # p => v[i] = u[i]
  BY <1>2, PutKeeps
<1>4. Rank(z, e) = a + 1 /\ Rank(z, z) = IndexCapacity - 1
  BY Layout
<1>5. e # z
  BY DEF Mending
<1>6. a + 2 \in Bucket
  <2>1. a + 1 # IndexCapacity - 1
    BY <1>4, <1>5, Layout
  <2> QED BY <1>1, <2>1
<1> DEFINE f == Rank(z, h[id])
<1>7. f \in Bucket /\ f <= a + 1 /\ h[id] \in Bucket
  <2>1. h[id] \in Bucket
    BY DEF Homes
  <2>2. f = HomeRank(h, t, z, e)
    BY DEF HomeRank
  <2> QED BY <1>4, <2>1, <2>2, Layout DEF Mending
<1> HIDE DEF f
<1>8. \A j \in Nat : f + j < IndexCapacity => f + j \in Bucket /\ At(h, id, j) = Line(z, f + j)
  BY <1>7, Layout DEF At, f
<1>9. f + k <= a + 1
  <2> SUFFICES ASSUME f + k > a + 1  PROVE FALSE
    BY <1>1, <1>7
  <2> DEFINE j == a + 1 - f
  <2>1. j \in Nat /\ j \in 0 .. k - 1 /\ f + j = a + 1 /\ a + 1 < IndexCapacity
    BY <1>1, <1>7
  <2>2. At(h, id, j) = e
    BY <1>8, <2>1
  <2> QED BY <1>2, <2>1, <2>2
<1>10. p = Line(z, f + k) /\ Rank(z, p) = f + k /\ f + k \in Bucket
  <2>1. k \in Nat /\ f + k < IndexCapacity
    BY <1>1, <1>6, <1>7, <1>9
  <2>2. f + k \in Bucket /\ p = Line(z, f + k)
    BY <1>8, <2>1
  <2> QED BY <2>2, Layout
<1>11. \A i \in Bucket : Full(v, i) <=> i = p \/ (i # e /\ Full(t, i))
  BY <1>2, <1>3 DEF Full
<1>12. ~ Full(v, z)
  <2>1. p # z
    BY <1>1, <1>4, <1>6, <1>7, <1>9, <1>10
  <2> QED BY <1>11, <2>1 DEF Mending
<1>13. ASSUME NEW i \in Bucket, Full(v, i)
       PROVE  /\ HomeRank(h, v, z, i) <= Rank(z, i)
              /\ \A q \in Bucket :
                   HomeRank(h, v, z, i) <= q /\ q < Rank(z, i) /\ (Rank(z, i) <= a + 1 \/ q > a + 1) =>
                     Full(v, Line(z, q))
  <2>1. CASE i = p
    <3>1. HomeRank(h, v, z, i) = f /\ Rank(z, i) = f + k
      BY <1>3, <1>10, <2>1 DEF HomeRank, f
    <3>2. ASSUME NEW q \in Bucket, f <= q, q < f + k  PROVE Full(v, Line(z, q))
      <4>1. q - f \in Nat /\ q - f \in 0 .. k - 1 /\ f + (q - f) = q /\ q < IndexCapacity
        BY <1>1, <1>7, <3>2
      <4>2. At(h, id, q - f) = Line(z, q)
        BY <1>8, <4>1
      <4>3. Full(u, Line(z, q)) /\ Line(z, q) \in Bucket
        BY <4>1, <4>2, Layout
      <4> QED BY <1>2, <1>11, <4>3 DEF Full
    <3>3. f <= f + k
      BY <1>1, <1>7
    <3> QED BY <3>1, <3>2, <3>3
  <2>2. CASE i # p
    <3>1. i # e /\ Full(t, i) /\ v[i] = t[i]
      BY <1>2, <1>3, <1>11, <1>13, <2>2
    <3>2. HomeRank(h, v, z, i) = HomeRank(h, t, z, i)
      BY <3>1 DEF HomeRank
    <3>3. Rank(z, i) # a + 1 /\ Rank(z, i) \in Nat
      BY <1>1, <3>1, Layout
    <3>4. /\ HomeRank(h, t, z, i) <= Rank(z, i)
          /\ \A q \in Bucket :
               HomeRank(h, t, z, i) <= q /\ q < Rank(z, i) /\ (Rank(z, i) <= a \/ q > a) =>
                 Full(t, Line(z, q))
      BY <3>1 DEF Mending
    <3>5. ASSUME NEW q \in Bucket, HomeRank(h, t, z, i) <= q, q < Rank(z, i),
                 Rank(z, i) <= a + 1 \/ q > a + 1
          PROVE  Full(v, Line(z, q))
      <4>1. (Rank(z, i) <= a \/ q > a) /\ q # a + 1
        BY <1>1, <3>3, <3>5
      <4>2. Full(t, Line(z, q)) /\ Line(z, q) \in Bucket /\ Line(z, q) # e
        BY <1>4, <3>4, <3>5, <4>1, Layout
      <4> QED BY <1>11, <4>2
    <3> QED BY <3>2, <3>4, <3>5
  <2> QED BY <2>1, <2>2
<1> QED BY <1>6, <1>12, <1>13 DEF Mending

(* An entry taken and put elsewhere is still there. *)
LEMMA MoveKeeps ==
  ASSUME NEW t \in Table, NEW lv, Holds(t, lv), Once(t), NEW e \in Bucket, Full(t, e),
         NEW id \in OrderIds, id = t[e].orderId, NEW slot \in OrderSlots, slot = t[e].slot,
         NEW u \in Table, u = Take(t, e), NEW p \in Bucket, ~ Full(u, p),
         NEW v, v = Put(u, p, id, slot)
  PROVE  v \in Table /\ Holds(v, lv) /\ Once(v)
<1>1. /\ Once(u) /\ ~ Full(u, e) /\ \A i \in Bucket : i # e => u[i] = t[i]
      /\ \A i \in Bucket : Full(u, i) => u[i].orderId # id
  BY TakeKeeps
<1>2. /\ v \in Table /\ Once(v) /\ Full(v, p) /\ v[p].orderId = id /\ v[p].slot = slot
      /\ \A i \in Bucket : i # p => v[i] = u[i]
  BY <1>1, PutKeeps
<1>3. \A i \in Bucket : Full(v, i) => i = p \/ (Full(t, i) /\ v[i] = t[i])
  BY <1>1, <1>2 DEF Full
<1>4. \A i \in Bucket : Full(t, i) => i = e \/ (Full(v, i) /\ v[i] = t[i])
  BY <1>1, <1>2 DEF Full
<1>5. \A i \in Bucket : Full(v, i) => lv[v[i].orderId] = v[i].slot
  BY <1>2, <1>3 DEF Holds
<1>6. ASSUME NEW other \in OrderIds, lv[other] # NoSlot
      PROVE  \E i \in Bucket : Full(v, i) /\ v[i].orderId = other
  <2>1. PICK i \in Bucket : Full(t, i) /\ t[i].orderId = other
    BY <1>6 DEF Holds
  <2>2. CASE i = e
    BY <1>2, <2>1, <2>2
  <2>3. CASE i # e
    BY <1>4, <2>1, <2>3
  <2> QED BY <2>2, <2>3
<1> QED BY <1>2, <1>5, <1>6 DEF Holds

(* What holds between two turns, past rank a.                              *)
Between(s, lv, z, a) ==
  /\ s \in [table : Table, done : BOOLEAN]
  /\ Holds(s.table, lv) /\ Once(s.table)
  /\ IF s.done THEN AllReached(home, s.table)
               ELSE a + 1 \in Bucket /\ Mending(home, s.table, z, a)

LEMMA TurnKeeps ==
  ASSUME home \in Homes, NEW z \in Bucket, NEW a \in Nat, NEW lv, NEW s, Between(s, lv, z, a),
         NEW e, a + 1 \in Bucket => e = Line(z, a + 1),
         NEW r, r = Index!Turn(s, e)
  PROVE  Between(r, lv, z, a + 1)
<1> DEFINE t == s.table
<1>1. /\ t \in Table /\ s.done \in BOOLEAN /\ s = [table |-> t, done |-> s.done]
      /\ Holds(t, lv) /\ Once(t)
  BY DEF Between
<1>2. CASE s.done
  <2>1. r = [s EXCEPT !.done = TRUE]
    BY <1>2 DEF Index!Turn
  <2>2. r = s
    BY <1>1, <1>2, <2>1
  <2> QED BY <1>2, <2>2 DEF Between
<1>3. CASE ~ s.done
  <2>1. a + 1 \in Bucket /\ Mending(home, t, z, a) /\ e = Line(z, a + 1) /\ e \in Bucket
    BY <1>3, Layout DEF Between
  <2>2. CASE ~ Full(t, e)
    <3>1. r = [s EXCEPT !.done = TRUE]
      BY <2>2 DEF Index!Turn, Index!Occupied, Index!EmptyEntry, Full, Empty
    <3>2. r = [table |-> t, done |-> TRUE]
      BY <1>1, <3>1
    <3>3. AllReached(home, t)
      BY <1>1, <2>1, <2>2, MendingEnds
    <3> HIDE DEF t
    <3>4. r.table = t /\ r.done /\ r \in [table : Table, done : BOOLEAN]
      BY <1>1, <3>2
    <3> QED BY <1>1, <3>3, <3>4 DEF Between
  <2>3. CASE Full(t, e)
    <3> DEFINE id == t[e].orderId
               slot == t[e].slot
               u == Take(t, e)
               v == Index!Insert(u, id, slot)
    <3>1. r = [s EXCEPT !.table = Index!Reinsert(t, e)]
      BY <1>3, <2>3 DEF Index!Turn, Index!Occupied, Index!EmptyEntry, Full, Empty
    <3>2. Index!Reinsert(t, e) = v
      BY DEF Index!Reinsert, Index!EmptyEntry, Take, Empty
    <3> HIDE DEF t
    <3>3. id \in OrderIds /\ slot \in OrderSlots
      BY <1>1, <2>1, <2>3, Entries
    <3>4. u \in Table /\ ~ Full(u, e) /\ \A i \in Bucket : Full(u, i) => u[i].orderId # id
      BY <1>1, <2>1, <2>3, TakeKeeps
    <3> HIDE DEF id, slot, u, v
    <3>5. PICK k \in Bucket :
            /\ ~ Full(u, At(home, id, k))
            /\ \A j \in 0 .. k - 1 : Full(u, At(home, id, j))
            /\ Index!Insert(u, id, slot) =
                 [u EXCEPT ![At(home, id, k)] = [orderId |-> id, slot |-> slot]]
      BY <2>1, <3>3, <3>4, InsertsAt
    <3> DEFINE p == At(home, id, k)
    <3>6. p \in Bucket
      BY <3>3, Probes
    <3>7. v = Put(u, p, id, slot)
      BY <3>5 DEF v, Put
    <3> HIDE DEF p
    <3>8. /\ id = t[e].orderId /\ slot = t[e].slot /\ u = Take(t, e)
          /\ p = At(home, id, k) /\ ~ Full(u, p)
      BY <3>5 DEF id, slot, u, p
    <3>9. a + 2 \in Bucket /\ Mending(home, v, z, a + 1)
      BY <1>1, <2>1, <2>3, <3>3, <3>4, <3>5, <3>6, <3>7, <3>8, MendingGoesOn
    <3>10. v \in Table /\ Holds(v, lv) /\ Once(v)
      BY <1>1, <2>1, <2>3, <3>3, <3>4, <3>6, <3>7, <3>8, MoveKeeps
    <3>11. r = [table |-> v, done |-> FALSE]
      BY <1>1, <1>3, <3>1, <3>2
    <3>12. r.table = v /\ ~ r.done /\ r \in [table : Table, done : BOOLEAN] /\ a + 1 + 1 = a + 2
      BY <3>10, <3>11
    <3> QED BY <3>9, <3>10, <3>12 DEF Between
  <2> QED BY <2>2, <2>3
<1> QED BY <1>1, <1>2, <1>3

-----------------------------------------------------------------------------
(* The loop. *)

(* g is the loop of ReinsertCluster, as far as turn n. *)
Turns(g, n, t, e) ==
  g = [k \in 0 .. n |-> IF k = 0 THEN [table |-> t, done |-> FALSE]
                        ELSE Index!Turn(g[k - 1], (e + k) % IndexCapacity)]

(* The loop has a course, for any number of turns. *)
LEMMA TurnsExist ==
  ASSUME NEW t, NEW e, NEW n \in Nat
  PROVE  \E g : Turns(g, n, t, e)
<1> DEFINE Bad == {m \in Nat : ~ \E g : Turns(g, m, t, e)}
<1>1. SUFFICES ASSUME Bad # {}  PROVE FALSE
  OBVIOUS
<1>2. PICK m \in Bad : \A k \in Bad : m <= k
  <2>1. Bad \in SUBSET Nat
    OBVIOUS
  <2> HIDE DEF Bad
  <2> QED BY <1>1, <2>1, LeastNatural
<1>3. m \in Nat /\ ~ \E g : Turns(g, m, t, e)
  OBVIOUS
<1>4. m # 0
  <2> SUFFICES ASSUME m = 0  PROVE \E g : Turns(g, m, t, e)
    BY <1>3
  <2> DEFINE g == [k \in 0 .. 0 |-> [table |-> t, done |-> FALSE]]
  <2>1. \A k \in 0 .. 0 : k = 0
    OBVIOUS
  <2>2. g = [k \in 0 .. 0 |-> IF k = 0 THEN [table |-> t, done |-> FALSE]
                              ELSE Index!Turn(g[k - 1], (e + k) % IndexCapacity)]
    BY <2>1
  <2>3. Turns(g, 0, t, e)
    BY <2>2 DEF Turns
  <2> QED BY <2>3
<1>5. m - 1 \in Nat /\ m - 1 \notin Bad
  <2> HIDE DEF Bad
  <2>1. m - 1 \in Nat /\ ~ (m <= m - 1)
    BY <1>3, <1>4
  <2> QED BY <1>2, <2>1
<1>6. PICK g : Turns(g, m - 1, t, e)
  BY <1>5
<1> DEFINE h == [k \in 0 .. m |-> IF k = m THEN Index!Turn(g[m - 1], (e + m) % IndexCapacity) ELSE g[k]]
<1>7. ASSUME NEW k \in 0 .. m
      PROVE  h[k] = IF k = 0 THEN [table |-> t, done |-> FALSE]
                    ELSE Index!Turn(h[k - 1], (e + k) % IndexCapacity)
  <2>1. CASE k = m
    <3>1. m - 1 \in 0 .. m /\ m - 1 # m
      BY <1>3, <1>4
    <3>2. h[m - 1] = g[m - 1] /\ h[m] = Index!Turn(g[m - 1], (e + m) % IndexCapacity)
      BY <1>3, <3>1
    <3> QED BY <1>4, <2>1, <3>2
  <2>2. CASE k # m
    <3>1. k \in 0 .. m - 1 /\ h[k] = g[k]
      BY <1>3, <2>2
    <3>2. g[k] = IF k = 0 THEN [table |-> t, done |-> FALSE]
                 ELSE Index!Turn(g[k - 1], (e + k) % IndexCapacity)
      BY <1>6, <3>1 DEF Turns
    <3>3. k # 0 => h[k - 1] = g[k - 1]
      BY <1>3, <3>1
    <3> QED BY <3>1, <3>2, <3>3
  <2> QED BY <2>1, <2>2
<1>8. h = [k \in 0 .. m |-> h[k]]
  OBVIOUS
<1> HIDE DEF h
<1>9. Turns(h, m, t, e)
  BY <1>7, <1>8 DEF Turns
<1> QED BY <1>3, <1>9

(* ReinsertCluster returns the table after the last turn of such a course. *)
LEMMA ClusterIs ==
  ASSUME NEW t, NEW e
  PROVE  \E g : Turns(g, IndexCapacity, t, e) /\ Index!ReinsertCluster(t, e) = g[IndexCapacity].table
<1> DEFINE g == CHOOSE f : Turns(f, IndexCapacity, t, e)
<1>1. Turns(g, IndexCapacity, t, e)
  <2>1. \E f : Turns(f, IndexCapacity, t, e)
    BY TurnsExist, IndexAssumption
  <2> QED BY <2>1
<1>2. Index!ReinsertCluster(t, e) = g[IndexCapacity].table
  BY DEF Index!ReinsertCluster, Turns
<1> QED BY <1>1, <1>2

(* Whatever has its entries, when the loop begins it mends what the empty  *)
(* bucket tore apart, and it comes to an end.                              *)
LEMMA LoopMends ==
  ASSUME home \in Homes, NEW z \in Bucket, NEW e \in Bucket, NEW t, NEW lv,
         Between([table |-> t, done |-> FALSE], lv, z, Rank(z, e)),
         NEW u, u = Index!ReinsertCluster(t, e)
  PROVE  u \in Table /\ Holds(u, lv) /\ Once(u) /\ AllReached(home, u)
<1>1. IndexCapacity \in Nat \ {0} /\ Bucket = 0 .. IndexCapacity - 1 /\ Rank(z, e) \in Nat
  BY Layout, IndexAssumption DEF Bucket
<1>2. PICK g : Turns(g, IndexCapacity, t, e) /\ u = g[IndexCapacity].table
  BY ClusterIs
<1>3. \A k \in 0 .. IndexCapacity :
        g[k] = IF k = 0 THEN [table |-> t, done |-> FALSE]
               ELSE Index!Turn(g[k - 1], (e + k) % IndexCapacity)
  BY <1>2 DEF Turns
<1> DEFINE Bad == {k \in 0 .. IndexCapacity : ~ Between(g[k], lv, z, Rank(z, e) + k)}
<1>4. Bad = {}
  <2> SUFFICES ASSUME Bad # {}  PROVE FALSE
    OBVIOUS
  <2>1. PICK m \in Bad : \A k \in Bad : m <= k
    <3>1. Bad \in SUBSET Nat
      BY <1>1
    <3> HIDE DEF Bad
    <3> QED BY <3>1, LeastNatural
  <2>2. m \in 0 .. IndexCapacity /\ ~ Between(g[m], lv, z, Rank(z, e) + m)
    OBVIOUS
  <2>3. m # 0
    <3>1. 0 \in 0 .. IndexCapacity /\ Rank(z, e) + 0 = Rank(z, e)
      BY <1>1
    <3>2. g[0] = [table |-> t, done |-> FALSE]
      BY <1>3, <3>1
    <3> QED BY <2>2, <3>1, <3>2
  <2>4. m - 1 \notin Bad /\ m - 1 \in 0 .. IndexCapacity /\ m \in Nat
    <3> HIDE DEF Bad
    <3>1. ~ (m <= m - 1) /\ m - 1 \in 0 .. IndexCapacity /\ m \in Nat
      BY <1>1, <2>2, <2>3
    <3> QED BY <2>1, <3>1
  <2> DEFINE a == Rank(z, e) + (m - 1)
             i == (e + m) % IndexCapacity
  <2>5. Between(g[m - 1], lv, z, a) /\ a \in Nat /\ a + 1 = Rank(z, e) + m
    BY <1>1, <2>4
  <2>6. g[m] = Index!Turn(g[m - 1], i)
    BY <1>3, <2>2, <2>3
  <2>7. a + 1 \in Bucket => i = Line(z, a + 1)
    <3>1. a + 1 \in Bucket => Rank(z, e) + m < IndexCapacity
      BY <1>1, <2>5
    <3>2. Rank(z, e) + m < IndexCapacity => i = Line(z, Rank(z, e) + m)
      BY <2>4, Layout
    <3> QED BY <2>5, <3>1, <3>2
  <2> HIDE DEF a, i, Bad
  <2>8. Between(g[m], lv, z, a + 1)
    BY <2>5, <2>6, <2>7, TurnKeeps
  <2> QED BY <2>2, <2>5, <2>8
<1>5. Between(g[IndexCapacity], lv, z, Rank(z, e) + IndexCapacity)
  BY <1>1, <1>4
<1>6. Rank(z, e) + IndexCapacity + 1 \notin Bucket
  BY <1>1
<1> QED BY <1>2, <1>5, <1>6 DEF Between

(* eraseOrderIndex of a live id. *)
LEMMA EraseKeeps ==
  ASSUME home \in Homes, NEW t \in Table, NEW lv,
         Holds(t, lv), Once(t), AllReached(home, t), SlotsDiffer(lv),
         NEW id \in OrderIds, lv[id] # NoSlot,
         NEW u, u = Index!Erase(t, id), NEW lw, lw = [lv EXCEPT ![id] = NoSlot]
  PROVE  u \in Table /\ Holds(u, lw) /\ Once(u) /\ AllReached(home, u) /\ SlotsDiffer(lw)
<1>1. Index!Find(t, id) # NoSlot
  BY FindIsLive
<1>2. PICK k : Ends(t, id, k) /\ t[At(home, id, k)].orderId = id
  BY FindIsLive
<1> DEFINE e == At(home, id, k)
           s == Take(t, e)
<1>3. u = Index!ReinsertCluster(s, e)
  <2> DEFINE c == CHOOSE n \in Index!EndOfSearch(t, id) : TRUE
             i == Index!Probe(id, c)
  <2>1. u = Index!ReinsertCluster([t EXCEPT ![i] = Index!EmptyEntry], i)
    BY <1>1 DEF Index!Erase
  <2>2. c = k
    BY <1>2, TheEnd
  <2> HIDE DEF c
  <2>3. i = e
    BY <2>2 DEF Index!Probe, At
  <2> HIDE DEF i, e
  <2> QED BY <2>1, <2>3 DEF Take, Empty, Index!EmptyEntry
<1>4. e \in Bucket /\ t[e].orderId = id
  BY <1>2, Probes DEF Ends
<1> HIDE DEF e
<1>5. Full(t, e)
  BY <1>4, Entries, IndexAssumption
<1>6. /\ s \in Table /\ Once(s) /\ ~ Full(s, e)
      /\ \A i \in Bucket : i # e => s[i] = t[i]
      /\ \A i \in Bucket : Full(s, i) => s[i].orderId # id
  BY <1>4, <1>5, TakeKeeps
<1>7. /\ lw \in [OrderIds -> OrderSlots \cup {NoSlot}] /\ lw[id] = NoSlot
      /\ \A other \in OrderIds : other # id => lw[other] = lv[other]
  BY DEF SlotsDiffer
<1>8. SlotsDiffer(lw)
  BY <1>7 DEF SlotsDiffer
<1>9. Holds(s, lw)
  <2>1. ASSUME NEW i \in Bucket, Full(s, i)  PROVE lw[s[i].orderId] = s[i].slot
    <3>1. i # e /\ s[i] = t[i] /\ Full(t, i) /\ t[i].orderId # id /\ t[i].orderId \in OrderIds
      BY <1>6, <2>1, Entries DEF Full
    <3> QED BY <1>7, <3>1 DEF Holds
  <2>2. ASSUME NEW other \in OrderIds, lw[other] # NoSlot
        PROVE  \E i \in Bucket : Full(s, i) /\ s[i].orderId = other
    <3>1. other # id
      BY <1>7, <2>2
    <3>2. PICK i \in Bucket : Full(t, i) /\ t[i].orderId = other
      BY <1>7, <2>2, <3>1 DEF Holds
    <3> QED BY <1>4, <1>6, <3>1, <3>2 DEF Full
  <2> QED BY <2>1, <2>2 DEF Holds
<1>10. PICK z \in Bucket : ~ Full(t, z)
  BY HasRoom
<1>11. Mending(home, s, z, Rank(z, e))
  BY <1>4, <1>5, <1>10, MendingBegins
<1>12. Rank(z, e) + 1 \in Bucket
  <2>1. Rank(z, e) # IndexCapacity - 1
    BY <1>4, <1>5, <1>10, Layout
  <2>2. Rank(z, e) \in 0 .. IndexCapacity - 1 /\ IndexCapacity \in Nat \ {0}
    BY <1>4, Layout, IndexAssumption DEF Bucket
  <2> QED BY <2>1, <2>2 DEF Bucket
<1> HIDE DEF s
<1>13. Between([table |-> s, done |-> FALSE], lw, z, Rank(z, e))
  BY <1>6, <1>9, <1>11, <1>12 DEF Between
<1>14. u \in Table /\ Holds(u, lw) /\ Once(u) /\ AllReached(home, u)
  BY <1>3, <1>4, <1>13, LoopMends
<1> QED BY <1>8, <1>14

-----------------------------------------------------------------------------
(* The machine. *)

(* The table the code starts with, and every one after it, holds an entry  *)
(* for each live id, once, where a search for it finds it                  *)
(* (resetStorage, insertOrderIndex, eraseOrderIndex with                   *)
(* reinsertClusterAfterErase).                                             *)
THEOREM IndexInvariant == IndexSpec => []IndexInv
<1>1. IndexInit => IndexInv
  <2> SUFFICES ASSUME IndexInit  PROVE IndexInv
    OBVIOUS
  <2>1. \A i \in Bucket : table[i] = Empty
    BY DEF IndexInit, Bucket, Empty, Index!EmptyEntry
  <2>2. table \in Table
    BY DEF IndexInit, Table, Bucket, Empty, Index!EmptyEntry
  <2>3. \A id \in OrderIds : slotOf[id] = NoSlot
    BY DEF IndexInit
  <2>4. SlotsDiffer(slotOf)
    BY <2>3 DEF IndexInit, SlotsDiffer
  <2>5. home \in Homes
    BY DEF IndexInit, Homes, Bucket
  <2> QED BY <2>1, <2>2, <2>3, <2>4, <2>5 DEF IndexInv, Holds, Once, AllReached, Full
<1>2. IndexInv /\ [IndexNext]_indexVars => IndexInv'
  <2> SUFFICES ASSUME IndexInv, [IndexNext]_indexVars  PROVE IndexInv'
    OBVIOUS
  <2>1. ASSUME NEW id \in OrderIds, Insert(id)  PROVE IndexInv'
    <3>1. PICK slot \in OrderSlots \ InUse :
            table' = Index!Insert(table, id, slot) /\ slotOf' = [slotOf EXCEPT ![id] = slot]
      BY <2>1 DEF Insert
    <3>2. home' = home
      BY <2>1 DEF Insert
    <3>3. slotOf[id] = NoSlot
      <4>1. Index!Find(table, id) = slotOf[id]
        BY FindIsLive DEF IndexInv
      <4> QED BY <2>1, <4>1 DEF Insert
    <3>4. \A other \in OrderIds : slotOf[other] # slot
      BY <3>1, IndexAssumption DEF InUse
    <3>5. /\ table' \in Table /\ Holds(table', slotOf') /\ Once(table')
          /\ AllReached(home, table') /\ SlotsDiffer(slotOf')
      BY <3>1, <3>3, <3>4, InsertKeeps DEF IndexInv
    <3> QED BY <3>2, <3>5 DEF IndexInv
  <2>2. ASSUME NEW id \in OrderIds, Erase(id)  PROVE IndexInv'
    <3>1. /\ slotOf[id] # NoSlot /\ home' = home
          /\ table' = Index!Erase(table, id) /\ slotOf' = [slotOf EXCEPT ![id] = NoSlot]
      BY <2>2 DEF Erase
    <3>2. /\ table' \in Table /\ Holds(table', slotOf') /\ Once(table')
          /\ AllReached(home, table') /\ SlotsDiffer(slotOf')
      BY <3>1, EraseKeeps DEF IndexInv
    <3> QED BY <3>1, <3>2 DEF IndexInv
  <2>3. CASE UNCHANGED indexVars
    BY <2>3 DEF IndexInv, indexVars
  <2> QED BY <2>1, <2>2, <2>3 DEF IndexNext
<1> QED BY <1>1, <1>2, PTL DEF IndexSpec

(* A search finds exactly the live orders, at their slots, and there are   *)
(* as many entries as slots in use, whatever the hash function and         *)
(* whatever was inserted and erased before.                                *)
THEOREM IndexStaysConsistent == IndexSpec => []IndexConsistent
<1>1. IndexInv => IndexConsistent
  <2> SUFFICES ASSUME IndexInv  PROVE IndexConsistent
    OBVIOUS
  <2>1. FindsExactlyTheLive
    BY FindIsLive DEF IndexInv, FindsExactlyTheLive
  <2>2. NoStaleEntries
    <3>1. {i \in Index!Bucket : Index!Occupied(table, i)} = {i \in Bucket : Full(table, i)}
      BY DEF Index!Bucket, Index!Occupied, Index!EmptyEntry, Bucket, Full, Empty
    <3>2. Cardinality({i \in Bucket : Full(table, i)}) = Cardinality({slotOf[id] : id \in OrderIds} \ {NoSlot})
      BY HasRoom DEF IndexInv
    <3> QED BY <3>1, <3>2 DEF NoStaleEntries, InUse
  <2> QED BY <2>1, <2>2 DEF IndexConsistent
<1> QED BY <1>1, IndexInvariant, PTL
=============================================================================
