--------------------------- MODULE OrderBook_proofs ---------------------------
(***************************************************************************)
(* The order book's storage stays consistent and implements the price-time *)
(* queues, for every size of the pool, of the sides and of the index, and  *)
(* every set of arguments.                                                 *)
(*                                                                         *)
(* The inductive invariant says that the storage represents some lists: q  *)
(* maps each side and price to a sequence of slots, the links spell these  *)
(* sequences, the levels describe them, every live order is in its list,   *)
(* the free stack holds the other slots, the index finds the live orders   *)
(* and the best prices are those of the first levels.  Each operation is   *)
(* shown to take the storage of q to a storage of the lists that PriceTime *)
(* promises; levels may be empty, and best prices out of date, in between. *)
(***************************************************************************)
EXTENDS OrderBook, SequenceTheorems, FunctionTheorems, FiniteSums_proofs

(* The slot of each live order, Nil for an id that has none. *)
LiveOf(slots) ==
  [id \in OrderIds |->
    IF \E s \in Slot : slots[s].active /\ slots[s].orderId = id
    THEN CHOOSE s \in Slot : slots[s].active /\ slots[s].orderId = id ELSE Nil]

(* The proved module about the index, with the book's table as its table   *)
(* and the slots of the live orders as its live entries.                   *)
Ids ==
  INSTANCE OrderIndex_proofs WITH
    home <- Home, OrderSlots <- Slot, NoSlot <- Nil, table <- book.index,
    slotOf <- LiveOf(book.slots)

(* No id has two live orders. *)
OneOrderPerId(slots) ==
  \A s, t \in Slot : slots[s].active /\ slots[t].active /\ slots[s].orderId = slots[t].orderId => s = t

(* The invariant of the index, of the live orders in the slots. *)
IndexHolds(index, slots) ==
  /\ index \in Ids!Table
  /\ Ids!Holds(index, LiveOf(slots)) /\ Ids!Once(index) /\ Ids!AllReached(Home, index)
  /\ OneOrderPerId(slots)

-----------------------------------------------------------------------------
(* Sequences and finite sets *)

(* new is s with e put in at i, and with its i-th member taken out. *)
Inserted(new, s, i, e, S) ==
  /\ new \in Seq(S) /\ Len(new) = Len(s) + 1
  /\ \A j \in 1 .. Len(s) + 1 : new[j] = IF j < i THEN s[j] ELSE IF j = i THEN e ELSE s[j - 1]

Removed(new, s, i, S) ==
  /\ new \in Seq(S) /\ Len(new) = Len(s) - 1
  /\ \A j \in 1 .. Len(s) - 1 : new[j] = IF j < i THEN s[j] ELSE s[j + 1]

(* What InsertAt returns: the new member at i, the later ones shifted up   *)
(* (findOrInsertLevel's shift of the level array).                         *)
LEMMA InsertAtIs ==
  ASSUME NEW S, NEW s \in Seq(S), NEW i \in 1 .. Len(s) + 1, NEW e \in S
  PROVE  Inserted(InsertAt(s, i, e), s, i, e, S)
<1> DEFINE a == SubSeq(s, 1, i - 1)
           c == SubSeq(s, i, Len(s))
           d == a \o <<e>>
<1>1. Len(s) \in Nat /\ \A k \in 1 .. Len(s) : s[k] \in S
  BY LenProperties, ElementOfSeq
<1>2. a \in Seq(S) /\ Len(a) = i - 1 /\ \A k \in 1 .. i - 1 : a[k] = s[k]
  <2>1. \A k \in 1 .. i - 1 : s[k] \in S
    BY <1>1
  <2>2. /\ SubSeq(s, 1, i - 1) \in Seq(S)
        /\ Len(SubSeq(s, 1, i - 1)) = IF 1 <= i - 1 THEN i - 1 - 1 + 1 ELSE 0
        /\ \A k \in 1 .. i - 1 - 1 + 1 : SubSeq(s, 1, i - 1)[k] = s[1 + k - 1]
    BY <1>1, <2>1, SubSeqProperties
  <2> QED BY <1>1, <2>2
<1>3. /\ c \in Seq(S) /\ Len(c) = Len(s) - i + 1
      /\ \A k \in 1 .. Len(s) - i + 1 : c[k] = s[i + k - 1]
  <2>1. \A k \in i .. Len(s) : s[k] \in S
    BY <1>1
  <2>2. /\ SubSeq(s, i, Len(s)) \in Seq(S)
        /\ Len(SubSeq(s, i, Len(s))) = IF i <= Len(s) THEN Len(s) - i + 1 ELSE 0
        /\ \A k \in 1 .. Len(s) - i + 1 : SubSeq(s, i, Len(s))[k] = s[i + k - 1]
    BY <1>1, <2>1, SubSeqProperties
  <2> QED BY <1>1, <2>2
<1>4. <<e>> \in Seq(S) /\ Len(<<e>>) = 1 /\ <<e>>[1] = e
  OBVIOUS
<1> HIDE DEF a, c
<1>5. d \in Seq(S) /\ Len(d) = i /\ \A k \in 1 .. i : d[k] = IF k < i THEN s[k] ELSE e
  <2>1. /\ a \o <<e>> \in Seq(S) /\ Len(a \o <<e>>) = Len(a) + Len(<<e>>)
        /\ \A k \in 1 .. Len(a) + Len(<<e>>) :
             (a \o <<e>>)[k] = IF k <= Len(a) THEN a[k] ELSE <<e>>[k - Len(a)]
    BY <1>2, <1>4, ConcatProperties
  <2> QED BY <1>1, <1>2, <1>4, <2>1
<1> HIDE DEF d
<1>6. /\ d \o c \in Seq(S) /\ Len(d \o c) = Len(d) + Len(c)
      /\ \A k \in 1 .. Len(d) + Len(c) : (d \o c)[k] = IF k <= Len(d) THEN d[k] ELSE c[k - Len(d)]
  BY <1>3, <1>5, ConcatProperties
<1>7. InsertAt(s, i, e) = d \o c
  BY DEF InsertAt, a, c, d
<1>8. /\ d \o c \in Seq(S) /\ Len(d \o c) = Len(s) + 1
      /\ \A j \in 1 .. Len(s) + 1 :
           (d \o c)[j] = IF j < i THEN s[j] ELSE IF j = i THEN e ELSE s[j - 1]
  BY <1>1, <1>3, <1>5, <1>6
<1> QED BY <1>7, <1>8 DEF Inserted

(* What RemoveAt returns: the i-th member gone, the later ones shifted     *)
(* down (removeLevelIfEmpty's shift of the level array).                   *)
LEMMA RemoveAtIs ==
  ASSUME NEW S, NEW s \in Seq(S), NEW i \in 1 .. Len(s)
  PROVE  Removed(RemoveAt(s, i), s, i, S)
<1> DEFINE a == SubSeq(s, 1, i - 1)
           c == SubSeq(s, i + 1, Len(s))
<1>1. Len(s) \in Nat /\ \A k \in 1 .. Len(s) : s[k] \in S
  BY LenProperties, ElementOfSeq
<1>2. a \in Seq(S) /\ Len(a) = i - 1 /\ \A k \in 1 .. i - 1 : a[k] = s[k]
  <2>1. \A k \in 1 .. i - 1 : s[k] \in S
    BY <1>1
  <2>2. /\ SubSeq(s, 1, i - 1) \in Seq(S)
        /\ Len(SubSeq(s, 1, i - 1)) = IF 1 <= i - 1 THEN i - 1 - 1 + 1 ELSE 0
        /\ \A k \in 1 .. i - 1 - 1 + 1 : SubSeq(s, 1, i - 1)[k] = s[1 + k - 1]
    BY <1>1, <2>1, SubSeqProperties
  <2> QED BY <1>1, <2>2
<1>3. /\ c \in Seq(S) /\ Len(c) = Len(s) - i
      /\ \A k \in 1 .. Len(s) - i : c[k] = s[i + k]
  <2>1. \A k \in i + 1 .. Len(s) : s[k] \in S
    BY <1>1
  <2>2. /\ SubSeq(s, i + 1, Len(s)) \in Seq(S)
        /\ Len(SubSeq(s, i + 1, Len(s))) = IF i + 1 <= Len(s) THEN Len(s) - (i + 1) + 1 ELSE 0
        /\ \A k \in 1 .. Len(s) - (i + 1) + 1 : SubSeq(s, i + 1, Len(s))[k] = s[i + 1 + k - 1]
    BY <1>1, <2>1, SubSeqProperties
  <2> QED BY <1>1, <2>2
<1> HIDE DEF a, c
<1>6. /\ a \o c \in Seq(S) /\ Len(a \o c) = Len(a) + Len(c)
      /\ \A k \in 1 .. Len(a) + Len(c) : (a \o c)[k] = IF k <= Len(a) THEN a[k] ELSE c[k - Len(a)]
  BY <1>2, <1>3, ConcatProperties
<1>7. RemoveAt(s, i) = a \o c
  BY DEF RemoveAt, a, c
<1>8. Len(a \o c) = Len(s) - 1
  BY <1>1, <1>2, <1>3, <1>6
<1>9. ASSUME NEW j \in 1 .. Len(s) - 1
      PROVE  (a \o c)[j] = IF j < i THEN s[j] ELSE s[j + 1]
  <2>1. j \in 1 .. Len(a) + Len(c) /\ i - 1 \in Nat
    BY <1>1, <1>2, <1>3
  <2>2. (a \o c)[j] = IF j <= i - 1 THEN a[j] ELSE c[j - (i - 1)]
    BY <1>2, <1>6, <2>1
  <2>3. CASE j < i
    BY <1>1, <1>2, <2>2, <2>3
  <2>4. CASE ~ (j < i)
    <3>1. j - (i - 1) \in 1 .. Len(s) - i /\ i + (j - (i - 1)) = j + 1
      BY <1>1, <2>4
    <3> QED BY <1>1, <1>3, <2>2, <2>4, <3>1
  <2> QED BY <2>3, <2>4
<1> QED BY <1>6, <1>7, <1>8, <1>9 DEF Removed

(* The minimum of a nonempty set of naturals is its least member. *)
LEMMA MinIs ==
  ASSUME NEW S \in SUBSET Nat, S # {}
  PROVE  Min(S) \in S /\ \A k \in S : Min(S) <= k
<1>1. PICK m \in S : \A k \in S : m <= k
  BY LeastNatural
<1>2. \A k \in S : m <= k /\ k >= m
  BY <1>1
<1> QED BY <1>1, <1>2 DEF Min

-----------------------------------------------------------------------------
(* The index *)

(* The pool's slots and the index fit together as the lemmas of the index  *)
(* assume; and its operations here are the ones those lemmas speak of.     *)
LEMMA IndexFits == Ids!IndexAssumption /\ Home \in Ids!Homes
<1>1. \A S : Ids!IsFiniteSet(S) <=> IsFiniteSet(S)
  BY DEF Ids!IsFiniteSet, IsFiniteSet
<1>2. \A S : Ids!Cardinality(S) = Cardinality(S)
  BY DEF Ids!Cardinality, Cardinality
<1>3. MaxOrders \in Nat \ {0}
  BY BookAssumption
<1>4. IsFiniteSet(Slot) /\ Cardinality(Slot) = MaxOrders
  <2>1. IsFiniteSet(0 .. MaxOrders - 1) /\ Cardinality(0 .. MaxOrders - 1) = MaxOrders - 1 - 0 + 1
    BY <1>3, FS_Interval
  <2> QED BY <1>3, <2>1 DEF Slot
<1>5. /\ IndexCapacity \in Nat \ {0} /\ IndexCapacity >= 2 * MaxOrders
      /\ Nil \notin OrderIds \cup Slot
      /\ Home \in [OrderIds -> 0 .. IndexCapacity - 1]
  BY BookAssumption
<1>6. Ids!IndexAssumption
  BY <1>1, <1>2, <1>4, <1>5 DEF Ids!IndexAssumption
<1> QED BY <1>5, <1>6 DEF Ids!Homes, Ids!Bucket

(* The index operations of the proved module are those the book calls. *)
LEMMA SameIndex ==
  /\ \A t, id : Ids!Index!Find(t, id) = Index!Find(t, id)
  /\ \A t, id, s : Ids!Index!Insert(t, id, s) = Index!Insert(t, id, s)
  /\ \A t, id : Ids!Index!Erase(t, id) = Index!Erase(t, id)
  /\ \A t, id : Ids!Index!CanInsert(t, id) = Index!CanInsert(t, id)
BY DEF Ids!Index!Erase, Index!Erase, Ids!Index!ReinsertCluster, Index!ReinsertCluster,
       Ids!Index!Turn, Index!Turn, Ids!Index!Reinsert, Index!Reinsert, Ids!Index!Find, Index!Find,
       Ids!Index!Insert, Index!Insert, Ids!Index!EndOfSearch, Index!EndOfSearch,
       Ids!Index!Probe, Index!Probe, Ids!Index!Bucket, Index!Bucket,
       Ids!Index!CanInsert, Index!CanInsert, Ids!Index!Occupied, Index!Occupied,
       Ids!Index!EmptyEntry, Index!EmptyEntry

(* If no id has two live orders, LiveOf maps each live order's id to its   *)
(* slot and every other id to Nil.                                         *)
LEMMA LiveIs ==
  ASSUME NEW slots \in [Slot -> OrderSlot], OneOrderPerId(slots)
  PROVE  /\ LiveOf(slots) \in [OrderIds -> Slot \cup {Nil}]
         /\ \A s \in Slot : slots[s].active => LiveOf(slots)[slots[s].orderId] = s
         /\ \A id \in OrderIds : LiveOf(slots)[id] # Nil =>
              /\ LiveOf(slots)[id] \in Slot
              /\ slots[LiveOf(slots)[id]].active /\ slots[LiveOf(slots)[id]].orderId = id
         /\ Ids!SlotsDiffer(LiveOf(slots))
<1> DEFINE Holds(s, id) == slots[s].active /\ slots[s].orderId = id
<1>1. \A s \in Slot : slots[s].orderId \in OrderIds
  BY DEF OrderSlot
<1>2. ASSUME NEW id \in OrderIds
      PROVE  LiveOf(slots)[id] = IF \E s \in Slot : Holds(s, id) THEN CHOOSE s \in Slot : Holds(s, id) ELSE Nil
  BY DEF LiveOf
<1>3. ASSUME NEW id \in OrderIds, NEW s \in Slot, Holds(s, id)
      PROVE  LiveOf(slots)[id] = s
  <2>1. \A t \in Slot : Holds(t, id) => t = s
    BY <1>3 DEF OneOrderPerId
  <2> HIDE DEF Holds
  <2> QED BY <1>2, <1>3, <2>1
<1>4. ASSUME NEW id \in OrderIds, ~ \E s \in Slot : Holds(s, id)
      PROVE  LiveOf(slots)[id] = Nil
  BY <1>2, <1>4
<1>5. LiveOf(slots) \in [OrderIds -> Slot \cup {Nil}]
  <2>1. \A id \in OrderIds : LiveOf(slots)[id] \in Slot \cup {Nil}
    BY <1>3, <1>4
  <2>2. LiveOf(slots) = [id \in OrderIds |-> LiveOf(slots)[id]]
    BY DEF LiveOf
  <2> QED BY <2>1, <2>2
<1>6. \A s \in Slot : slots[s].active => LiveOf(slots)[slots[s].orderId] = s
  BY <1>1, <1>3
<1>7. \A id \in OrderIds : LiveOf(slots)[id] # Nil =>
        /\ LiveOf(slots)[id] \in Slot
        /\ slots[LiveOf(slots)[id]].active /\ slots[LiveOf(slots)[id]].orderId = id
  BY <1>3, <1>4
<1>8. Ids!SlotsDiffer(LiveOf(slots))
  BY <1>5, <1>7 DEF Ids!SlotsDiffer
<1> QED BY <1>5, <1>6, <1>7, <1>8

(* A search finds the live orders. *)
LEMMA FindsLive ==
  ASSUME NEW slots \in [Slot -> OrderSlot], NEW index, IndexHolds(index, slots), NEW id \in OrderIds
  PROVE  Index!Find(index, id) = LiveOf(slots)[id]
<1>1. Ids!Index!Find(index, id) = LiveOf(slots)[id]
  BY Ids!FindIsLive, IndexFits, LiveIs DEF IndexHolds
<1> QED BY <1>1, SameIndex

(* Only who is live counts. *)
LEMMA IndexKeeps ==
  ASSUME NEW slots \in [Slot -> OrderSlot], NEW index, IndexHolds(index, slots),
         NEW r, \A t \in Slot : r[t].active = slots[t].active /\ r[t].orderId = slots[t].orderId
  PROVE  IndexHolds(index, r)
<1>1. LiveOf(r) = LiveOf(slots)
  BY DEF LiveOf
<1>2. OneOrderPerId(r)
  BY DEF IndexHolds, OneOrderPerId
<1> QED BY <1>1, <1>2 DEF IndexHolds

(* When an order with a new id becomes live in slot s and is inserted, the *)
(* index holds the live orders again; and it has room for it, as no more   *)
(* than half its buckets are in use.                                       *)
LEMMA IndexAdds ==
  ASSUME NEW slots \in [Slot -> OrderSlot], NEW index, IndexHolds(index, slots),
         NEW id \in OrderIds, Index!Find(index, id) = Nil, NEW s \in Slot, ~ slots[s].active,
         NEW r \in [Slot -> OrderSlot], r[s].active, r[s].orderId = id,
         \A t \in Slot \ {s} : r[t].active = slots[t].active /\ r[t].orderId = slots[t].orderId
  PROVE  Index!CanInsert(index, id) /\ IndexHolds(Index!Insert(index, id, s), r)
<1> DEFINE mine == LiveOf(slots)
           result == Index!Insert(index, id, s)
<1>1. mine[id] = Nil
  BY FindsLive
<1>2. /\ mine \in [OrderIds -> Slot \cup {Nil}] /\ Ids!SlotsDiffer(mine)
      /\ \A t \in Slot : slots[t].active => mine[slots[t].orderId] = t
      /\ \A other \in OrderIds : mine[other] # Nil =>
           mine[other] \in Slot /\ slots[mine[other]].active /\ slots[mine[other]].orderId = other
  BY LiveIs DEF IndexHolds
<1>3. Nil \notin OrderIds \cup Slot
  BY BookAssumption
<1>4. \A other \in OrderIds : mine[other] # s
  BY <1>2, <1>3
<1>5. OneOrderPerId(r)
  <2>1. ASSUME NEW t \in Slot \ {s}, r[t].active, r[t].orderId = id
        PROVE  FALSE
    BY <1>1, <1>2, <1>3, <2>1
  <2> QED BY <2>1 DEF OneOrderPerId, IndexHolds
<1>6. LiveOf(r) = [mine EXCEPT ![id] = s]
  <2>1. /\ LiveOf(r) \in [OrderIds -> Slot \cup {Nil}]
        /\ \A t \in Slot : r[t].active => LiveOf(r)[r[t].orderId] = t
        /\ \A other \in OrderIds : LiveOf(r)[other] # Nil =>
             LiveOf(r)[other] \in Slot /\ r[LiveOf(r)[other]].active /\ r[LiveOf(r)[other]].orderId = other
    BY <1>5, LiveIs
  <2>2. ASSUME NEW other \in OrderIds, other # id
        PROVE  LiveOf(r)[other] = mine[other]
    BY <1>2, <1>3, <2>1, <2>2
  <2>3. LiveOf(r)[id] = s
    BY <2>1
  <2> HIDE DEF mine
  <2> QED BY <1>2, <2>1, <2>2, <2>3
<1> HIDE DEF mine
<1>7. index \in Ids!Table /\ Ids!Holds(index, mine) /\ Ids!Once(index) /\ Ids!AllReached(Home, index)
  BY DEF IndexHolds, mine
<1>8. IndexHolds(result, r)
  <2>1. /\ Ids!Index!Insert(index, id, s) \in Ids!Table
        /\ Ids!Holds(Ids!Index!Insert(index, id, s), [mine EXCEPT ![id] = s])
        /\ Ids!Once(Ids!Index!Insert(index, id, s)) /\ Ids!AllReached(Home, Ids!Index!Insert(index, id, s))
    <3> DEFINE table == Ids!Index!Insert(index, id, s)
               after == [mine EXCEPT ![id] = s]
    <3>1. table = Ids!Index!Insert(index, id, s) /\ after = [mine EXCEPT ![id] = s]
      OBVIOUS
    <3>0. Ids!SlotsDiffer(mine) /\ id \in OrderIds
      BY <1>2
    <3> HIDE DEF table, after, result
    <3>2. table \in Ids!Table /\ Ids!Holds(table, after) /\ Ids!Once(table) /\ Ids!AllReached(Home, table)
      BY Zenon, <3>1, <1>1, <3>0, <1>4, <1>7, IndexFits, Ids!InsertKeeps
    <3> QED BY <3>1, <3>2
  <2>2. result = Ids!Index!Insert(index, id, s)
    BY SameIndex
  <2> HIDE DEF result
  <2> QED BY <1>5, <1>6, <2>1, <2>2 DEF IndexHolds
<1>9. Index!CanInsert(index, id)
  <2>1. \A i \in Ids!Bucket : Ids!Full(index, i) =>
          index[i].orderId \in OrderIds /\ index[i].orderId # Nil /\ index[i].orderId # id
    <3>1. \A i \in Ids!Bucket : Ids!Full(index, i) =>
            /\ index[i].orderId \in OrderIds /\ index[i].orderId # Nil
            /\ index[i].slot # Nil /\ mine[index[i].orderId] = index[i].slot
      BY <1>7, IndexFits, Ids!Entries DEF Ids!Holds
    <3> QED BY <1>1, <3>1
  <2>2. \E i \in Ids!Bucket : ~ Ids!Full(index, i)
    BY <1>2, <1>7, IndexFits, Ids!HasRoom
  <2>3. PICK k \in Ids!Bucket : /\ ~ Ids!Full(index, Ids!At(Home, id, k))
                                /\ \A j \in 0 .. k - 1 : Ids!Full(index, Ids!At(Home, id, j))
    BY <1>7, <2>1, <2>2, IndexFits, Ids!InsertsAt
  <2>4. \A j \in Ids!Bucket : Ids!At(Home, id, j) \in Ids!Bucket
    BY IndexFits, Ids!Probes
  <2>5. index[Ids!At(Home, id, k)].orderId = Nil
    BY <1>7, <2>3, <2>4, IndexFits, Ids!Entries
  <2>6. \A j \in 0 .. k - 1 : j \in Ids!Bucket
    BY BookAssumption DEF Ids!Bucket
  <2>7. \A j \in 0 .. k - 1 : index[Ids!At(Home, id, j)].orderId \notin {id, Nil}
    BY <2>1, <2>3, <2>4, <2>6
  <2>8. k \in Index!EndOfSearch(index, id)
    BY <2>5, <2>7 DEF Index!EndOfSearch, Index!Bucket, Ids!Bucket, Index!Probe, Ids!At
  <2>9. ~ Index!Occupied(index, Index!Probe(id, k))
    BY <2>3 DEF Index!Occupied, Index!EmptyEntry, Index!Probe, Ids!At, Ids!Full, Ids!Empty
  <2> QED BY <2>8, <2>9 DEF Index!CanInsert
<1> QED BY <1>8, <1>9

(* When the order in slot s stops being live and is erased, the index      *)
(* holds the live orders again.                                            *)
LEMMA IndexDrops ==
  ASSUME NEW slots \in [Slot -> OrderSlot], NEW index, IndexHolds(index, slots),
         NEW s \in Slot, slots[s].active,
         NEW r \in [Slot -> OrderSlot], ~ r[s].active,
         \A t \in Slot \ {s} : r[t].active = slots[t].active /\ r[t].orderId = slots[t].orderId
  PROVE  IndexHolds(Index!Erase(index, slots[s].orderId), r)
<1> DEFINE mine == LiveOf(slots)
           id == slots[s].orderId
           result == Index!Erase(index, id)
<1>1. /\ mine \in [OrderIds -> Slot \cup {Nil}] /\ Ids!SlotsDiffer(mine)
      /\ \A t \in Slot : slots[t].active => mine[slots[t].orderId] = t
      /\ \A other \in OrderIds : mine[other] # Nil =>
           mine[other] \in Slot /\ slots[mine[other]].active /\ slots[mine[other]].orderId = other
  BY LiveIs DEF IndexHolds
<1>2. Nil \notin OrderIds \cup Slot /\ id \in OrderIds
  BY BookAssumption DEF OrderSlot
<1>3. mine[id] # Nil
  BY <1>1, <1>2
<1>4. OneOrderPerId(r)
  BY DEF OneOrderPerId, IndexHolds
<1>5. LiveOf(r) = [mine EXCEPT ![id] = Nil]
  <2>1. /\ LiveOf(r) \in [OrderIds -> Slot \cup {Nil}]
        /\ \A t \in Slot : r[t].active => LiveOf(r)[r[t].orderId] = t
        /\ \A other \in OrderIds : LiveOf(r)[other] # Nil =>
             LiveOf(r)[other] \in Slot /\ r[LiveOf(r)[other]].active /\ r[LiveOf(r)[other]].orderId = other
    BY <1>4, LiveIs
  <2>2. ASSUME NEW other \in OrderIds, other # id
        PROVE  LiveOf(r)[other] = mine[other]
    BY <1>1, <1>2, <2>1, <2>2
  <2>3. LiveOf(r)[id] = Nil
    <3>1. \A t \in Slot : slots[t].active /\ slots[t].orderId = id => t = s
      BY DEF IndexHolds, OneOrderPerId
    <3> QED BY <1>2, <2>1, <3>1
  <2> HIDE DEF mine, id
  <2> QED BY <1>1, <1>2, <2>1, <2>2, <2>3
<1> HIDE DEF mine, id
<1>7. index \in Ids!Table /\ Ids!Holds(index, mine) /\ Ids!Once(index) /\ Ids!AllReached(Home, index)
  BY DEF IndexHolds, mine
<1>8. IndexHolds(result, r)
  <2>1. /\ Ids!Index!Erase(index, id) \in Ids!Table
        /\ Ids!Holds(Ids!Index!Erase(index, id), [mine EXCEPT ![id] = Nil])
        /\ Ids!Once(Ids!Index!Erase(index, id)) /\ Ids!AllReached(Home, Ids!Index!Erase(index, id))
    <3> DEFINE table == Ids!Index!Erase(index, id)
               after == [mine EXCEPT ![id] = Nil]
    <3>1. table = Ids!Index!Erase(index, id) /\ after = [mine EXCEPT ![id] = Nil]
      OBVIOUS
    <3>0. Ids!SlotsDiffer(mine) /\ id \in OrderIds
      BY <1>1, <1>2
    <3> HIDE DEF table, after, result
    <3>2. table \in Ids!Table /\ Ids!Holds(table, after) /\ Ids!Once(table) /\ Ids!AllReached(Home, table)
      BY Zenon, <3>1, <3>0, <1>3, <1>7, IndexFits, Ids!EraseKeeps
    <3> QED BY <3>1, <3>2
  <2>2. result = Ids!Index!Erase(index, id)
    BY SameIndex
  <2> HIDE DEF result
  <2> QED BY <1>4, <1>5, <2>1, <2>2 DEF IndexHolds
<1> QED BY <1>8 DEF id

(* Nil (INVALID_INDEX) is no slot, and the pool is finite. *)
LEMMA ASlotIsNoNil == Nil \notin Slot /\ MaxOrders \in Nat \ {0} /\ IsFiniteSet(Slot) /\ Cardinality(Slot) = MaxOrders
<1>1. MaxOrders \in Nat \ {0} /\ Nil \notin Slot
  BY BookAssumption
<1>2. IsFiniteSet(0 .. MaxOrders - 1) /\ Cardinality(0 .. MaxOrders - 1) = MaxOrders - 1 - 0 + 1
  BY <1>1, FS_Interval
<1> QED BY <1>1, <1>2 DEF Slot

-----------------------------------------------------------------------------
(* Lists *)

(* In a list, what comes after and before its k-th member, and its ends. *)
Follows(c, k) == IF k = Len(c) THEN Nil ELSE c[k + 1]
Precedes(c, k) == IF k = 1 THEN Nil ELSE c[k - 1]
FirstOf(c) == IF c = <<>> THEN Nil ELSE c[1]
LastOf(c) == IF c = <<>> THEN Nil ELSE c[Len(c)]

NoRepeats(c) == \A i, j \in DOMAIN c : c[i] = c[j] => i = j

(* The walk a chain is read off. *)
Walk(at, slots, first) ==
  at = [k \in 0 .. MaxOrders |->
         IF k = 0 THEN first ELSE IF at[k - 1] = Nil THEN Nil ELSE slots[at[k - 1]].next]

(* No list is longer than the pool. *)
LEMMA ListFits ==
  ASSUME NEW c \in Seq(Slot), NoRepeats(c)
  PROVE  /\ Len(c) \in 0 .. MaxOrders /\ DOMAIN c = 1 .. Len(c) /\ c \in [1 .. Len(c) -> Slot]
         /\ \A k \in 1 .. Len(c) : c[k] \in Slot
         /\ ToSet(c) \subseteq Slot /\ IsFiniteSet(ToSet(c)) /\ Cardinality(ToSet(c)) = Len(c)
         /\ c \in Bijection(1 .. Len(c), ToSet(c))
<1>1. Len(c) \in Nat /\ DOMAIN c = 1 .. Len(c) /\ c \in [1 .. Len(c) -> Slot]
  BY LenProperties
<1>2. c \in Injection(1 .. Len(c), Slot)
  BY <1>1 DEF NoRepeats, Injection, IsInjective
<1>3. IsFiniteSet(1 .. Len(c)) /\ Cardinality(1 .. Len(c)) = Len(c)
  BY <1>1, FS_Interval
<1>4. Len(c) <= MaxOrders
  BY <1>2, <1>3, ASlotIsNoNil, FS_Injection
<1>5. c \in Bijection(1 .. Len(c), ToSet(c))
  BY <1>1 DEF NoRepeats, Bijection, Injection, Surjection, IsInjective, ToSet
<1>6. IsFiniteSet(ToSet(c)) /\ Cardinality(ToSet(c)) = Len(c)
  BY <1>3, <1>5, FS_Bijection DEF ExistsBijection
<1>7. ToSet(c) \subseteq Slot
  BY <1>1 DEF ToSet
<1> QED BY <1>1, <1>4, <1>5, <1>6, <1>7, ASlotIsNoNil

(* The chain read off the links is the list they spell. *)
LEMMA ChainIs ==
  ASSUME NEW slots, NEW c \in Seq(Slot), NoRepeats(c),
         \A k \in DOMAIN c : slots[c[k]].next = Follows(c, k)
  PROVE  Chain(slots, FirstOf(c)) = c
<1> DEFINE w == [k \in 0 .. MaxOrders |-> IF k < Len(c) THEN c[k + 1] ELSE Nil]
           at == CHOOSE g : Walk(g, slots, FirstOf(c))
<1>1. Len(c) \in 0 .. MaxOrders /\ DOMAIN c = 1 .. Len(c) /\ \A k \in 1 .. Len(c) : c[k] \in Slot /\ c[k] # Nil
  BY ListFits, ASlotIsNoNil
<1>2. MaxOrders \in Nat
  BY ASlotIsNoNil
<1>3. FirstOf(c) = IF Len(c) = 0 THEN Nil ELSE c[1]
  BY <1>1, EmptySeq DEF FirstOf
<1>4. ASSUME NEW g, Walk(g, slots, FirstOf(c))
      PROVE  \A k \in 0 .. MaxOrders : g[k] = IF k < Len(c) THEN c[k + 1] ELSE Nil
  <2> DEFINE Bad == {k \in 0 .. MaxOrders : g[k] # IF k < Len(c) THEN c[k + 1] ELSE Nil}
  <2>1. SUFFICES ASSUME Bad # {}  PROVE FALSE
    OBVIOUS
  <2>2. PICK k \in Bad : \A j \in Bad : k <= j
    <3>1. Bad \in SUBSET Nat
      BY <1>2
    <3> HIDE DEF Bad
    <3> QED BY <2>1, <3>1, LeastNatural
  <2>3. g[k] = IF k = 0 THEN FirstOf(c) ELSE IF g[k - 1] = Nil THEN Nil ELSE slots[g[k - 1]].next
    BY <1>4 DEF Walk
  <2>4. k \in 0 .. MaxOrders /\ g[k] # IF k < Len(c) THEN c[k + 1] ELSE Nil
    OBVIOUS
  <2>5. k # 0
    BY <1>1, <1>3, <2>3, <2>4
  <2>6. k - 1 \in 0 .. MaxOrders /\ k - 1 \notin Bad
    <3>1. k - 1 \in 0 .. MaxOrders /\ ~ (k <= k - 1)
      BY <1>2, <2>4, <2>5
    <3> HIDE DEF Bad
    <3> QED BY <2>2, <3>1
  <2>7. g[k - 1] = IF k - 1 < Len(c) THEN c[k] ELSE Nil
    BY <2>4, <2>6
  <2>8. CASE k - 1 < Len(c)
    <3>1. k \in 1 .. Len(c)
      BY <1>1, <2>4, <2>5, <2>8
    <3>2. g[k] = Follows(c, k)
      BY <1>1, <2>3, <2>5, <2>7, <2>8, <3>1
    <3> HIDE DEF Bad, w
    <3>3. Follows(c, k) = IF k < Len(c) THEN c[k + 1] ELSE Nil
      <4>1. k = Len(c) <=> ~ (k < Len(c))
        <5>1. \A m, n \in Nat : m <= n => (m = n <=> ~ (m < n))
          OBVIOUS
        <5>2. k \in Nat /\ Len(c) \in Nat /\ k <= Len(c)
          BY <1>1, <1>2, <3>1
        <5> QED BY <5>1, <5>2, Zenon
      <4> QED BY <4>1, Zenon DEF Follows
    <3> QED BY <2>4, <3>2, <3>3
  <2>9. CASE ~ (k - 1 < Len(c))
    BY <1>1, <2>3, <2>4, <2>5, <2>7, <2>9
  <2> QED BY <2>8, <2>9
<1>5. Walk(w, slots, FirstOf(c))
  <2>1. ASSUME NEW k \in 0 .. MaxOrders
        PROVE  w[k] = IF k = 0 THEN FirstOf(c) ELSE IF w[k - 1] = Nil THEN Nil ELSE slots[w[k - 1]].next
    <3>1. CASE k = 0
      BY <1>1, <1>2, <1>3, <3>1
    <3>2. CASE k # 0
      <4>1. k - 1 \in 0 .. MaxOrders
        BY <1>2, <3>2
      <4>2. CASE k - 1 < Len(c)
        <5>1. k \in 1 .. Len(c)
          BY <1>1, <3>2, <4>2
        <5>2. w[k - 1] = c[k] /\ c[k] # Nil
          BY <1>1, <4>1, <4>2, <5>1
        <5>3. slots[c[k]].next = IF k = Len(c) THEN Nil ELSE c[k + 1]
          BY <1>1, <5>1 DEF Follows
        <5>4. w[k] = IF k < Len(c) THEN c[k + 1] ELSE Nil
          OBVIOUS
        <5> HIDE DEF w
        <5> QED BY <1>1, <3>2, <5>1, <5>2, <5>3, <5>4
      <4>3. CASE ~ (k - 1 < Len(c))
        BY <1>1, <3>2, <4>1, <4>3
      <4> QED BY <4>2, <4>3
    <3> QED BY <3>1, <3>2
  <2>2. w = [k \in 0 .. MaxOrders |-> w[k]]
    OBVIOUS
  <2> HIDE DEF w
  <2> QED BY <2>1, <2>2 DEF Walk
<1>6. Walk(at, slots, FirstOf(c))
  <2> HIDE DEF w
  <2> QED BY <1>5
<1>7. \A k \in 0 .. MaxOrders : at[k] = IF k < Len(c) THEN c[k + 1] ELSE Nil
  <2> HIDE DEF at
  <2> QED BY <1>4, <1>6
<1> DEFINE length == Cardinality({k \in 0 .. MaxOrders - 1 : at[k] # Nil})
<1>8. Chain(slots, FirstOf(c)) = [k \in 1 .. length |-> at[k - 1]]
  BY DEF Chain, Walk
<1> HIDE DEF at
<1>9. length = Len(c)
  <2>1. {k \in 0 .. MaxOrders - 1 : at[k] # Nil} = 0 .. Len(c) - 1
    BY <1>1, <1>2, <1>7
  <2>2. Cardinality(0 .. Len(c) - 1) = Len(c)
    BY <1>1, FS_Interval
  <2> QED BY <2>1, <2>2
<1>10. \A k \in 1 .. Len(c) : at[k - 1] = c[k]
  BY <1>1, <1>2, <1>7
<1> HIDE DEF length
<1> QED BY <1>1, <1>8, <1>9, <1>10, LenProperties

-----------------------------------------------------------------------------
(* What the storage stands for *)

(* The orders of each side and price, as slots, oldest first. *)
Lists == [Sides -> [Prices -> Seq(Slot)]]

(* The quantity of the orders in the slots T. *)
Weight(slots, T) == SumFunctionOnSet([s \in Slot |-> slots[s].quantity], T)

(* The members of a list know it, and their neighbours in it. *)
Strung(slots, c, side, price) ==
  /\ NoRepeats(c)
  /\ \A k \in DOMAIN c :
       /\ slots[c[k]].active /\ slots[c[k]].side = side /\ slots[c[k]].price = price
       /\ slots[c[k]].next = Follows(c, k) /\ slots[c[k]].prev = Precedes(c, k)

Threaded(slots, q) ==
  \A side \in Sides, price \in Prices : Strung(slots, q[side][price], side, price)

(* Every live order is in its list. *)
Queued(slots, q) ==
  \A s \in Slot : slots[s].active =>
    /\ slots[s].price \in Prices
    /\ \E k \in DOMAIN q[slots[s].side][slots[s].price] : q[slots[s].side][slots[s].price][k] = s

(* Levels are sorted strictly best price first. *)
Sorted(side, levels) ==
  \A i, j \in DOMAIN levels : i < j => Better(side, levels[i].price, levels[j].price)

(* A level describes the list of its price. *)
Describes(level, slots, c) ==
  /\ level.first = FirstOf(c) /\ level.last = LastOf(c)
  /\ level.orders = Len(c) /\ level.totalQty = Weight(slots, ToSet(c))

(* A side's orders know where their level is. *)
Placed(side, levels, slots) ==
  \A s \in Slot : slots[s].active /\ slots[s].side = side =>
    /\ slots[s].levelIndex \in DOMAIN levels
    /\ levels[slots[s].levelIndex].price = slots[s].price

(* The levels of a side describe its lists, in the order of their prices.  *)
LevelsFit(side, levels, slots, lists) ==
  /\ levels \in Seq(LevelSlot) /\ Len(levels) <= MaxLevels
  /\ Sorted(side, levels)
  /\ \A i \in DOMAIN levels : Describes(levels[i], slots, lists[levels[i].price])
  /\ Placed(side, levels, slots)

(* No level has an empty list. *)
NoneEmpty(levels, lists) == \A i \in DOMAIN levels : lists[levels[i].price] # <<>>

-----------------------------------------------------------------------------

(* The types of a level array's members. *)
LEMMA LevelSlots ==
  ASSUME NEW levels \in Seq(LevelSlot)
  PROVE  /\ Len(levels) \in Nat /\ DOMAIN levels = 1 .. Len(levels)
         /\ \A i \in DOMAIN levels :
              /\ levels[i] \in LevelSlot /\ levels[i].price \in Prices /\ levels[i].price \in Int
              /\ levels[i].totalQty \in Nat /\ levels[i].orders \in Nat
<1>1. Len(levels) \in Nat /\ DOMAIN levels = 1 .. Len(levels) /\ \A i \in DOMAIN levels : levels[i] \in LevelSlot
  BY LenProperties
<1> QED BY <1>1, BookAssumption DEF LevelSlot

(* Levels that are sorted have different prices. *)
LEMMA PricesDiffer ==
  ASSUME NEW side, NEW levels \in Seq(LevelSlot), Sorted(side, levels)
  PROVE  \A i, j \in DOMAIN levels : levels[i].price = levels[j].price => i = j
<1>1. \A i, j \in DOMAIN levels : i < j => levels[i].price # levels[j].price
  BY LevelSlots DEF Sorted, Better
<1> QED BY <1>1, LevelSlots

(* What findLevel returns: the position of the price's level, or 0 if it   *)
(* has none.                                                               *)
LEMMA FindLevelIs ==
  ASSUME NEW b, NEW side \in Sides, NEW price, b.levels[side] \in Seq(LevelSlot),
         NEW i, i = FindLevel(b, side, price)
  PROVE  /\ i = 0 => \A j \in DOMAIN b.levels[side] : b.levels[side][j].price # price
         /\ i # 0 => i \in DOMAIN b.levels[side] /\ b.levels[side][i].price = price
         /\ i \in Nat
<1> DEFINE at == {j \in 1 .. Len(b.levels[side]) : b.levels[side][j].price = price}
<1>1. i = IF at # {} THEN Min(at) ELSE 0
  BY DEF FindLevel, SelectInSeq
<1>2. at # {} => Min(at) \in at
  <2>1. at \in SUBSET Nat
    BY LevelSlots
  <2> HIDE DEF at
  <2> QED BY <2>1, MinIs
<1>3. Len(b.levels[side]) \in Nat /\ DOMAIN b.levels[side] = 1 .. Len(b.levels[side])
  BY LevelSlots
<1>4. ASSUME at = {}
      PROVE  i = 0 /\ \A j \in DOMAIN b.levels[side] : b.levels[side][j].price # price
  BY <1>1, <1>3, <1>4
<1>5. ASSUME at # {}
      PROVE  i \in 1 .. Len(b.levels[side]) /\ b.levels[side][i].price = price
  BY <1>1, <1>2, <1>5
<1> HIDE DEF at
<1>6. i # 0 => i \in DOMAIN b.levels[side] /\ b.levels[side][i].price = price
  BY <1>3, <1>4, <1>5
<1>7. i = 0 => \A j \in DOMAIN b.levels[side] : b.levels[side][j].price # price
  <2>1. i = 0 => ~ (i \in 1 .. Len(b.levels[side]))
    BY <1>3
  <2> QED BY <2>1, <1>4, <1>5
<1> QED BY <1>3, <1>4, <1>5, <1>6, <1>7

(* The quantities of a list add up to the weight of its members. *)
LEMMA TotalIs ==
  ASSUME NEW slots \in [Slot -> OrderSlot], NEW c \in Seq(Slot), NoRepeats(c)
  PROVE  /\ SumFunction([k \in DOMAIN c |-> slots[c[k]].quantity]) = Weight(slots, ToSet(c))
         /\ Weight(slots, ToSet(c)) \in Nat
<1> DEFINE f == [s \in Slot |-> slots[s].quantity]
           g == [k \in DOMAIN c |-> slots[c[k]].quantity]
<1>1. /\ DOMAIN c = 1 .. Len(c) /\ Len(c) \in Nat /\ \A k \in 1 .. Len(c) : c[k] \in Slot
      /\ IsFiniteSet(ToSet(c)) /\ c \in Bijection(1 .. Len(c), ToSet(c))
  BY ListFits
<1>2. IsFiniteSet(1 .. Len(c))
  BY <1>1, FS_Interval
<1>3. \A s \in Slot : f[s] = slots[s].quantity /\ slots[s].quantity \in Nat
  BY DEF OrderSlot
<1>4. \A k \in 1 .. Len(c) : g[k] \in Int /\ g[k] = f[c[k]]
  BY <1>1, <1>3
<1>5. SumFunctionOnSet(g, 1 .. Len(c)) = SumFunctionOnSet(f, ToSet(c))
  <2> HIDE DEF f, g
  <2> QED BY <1>1, <1>2, <1>4, SumReindex
<1>6. SumFunction(g) = SumFunctionOnSet(g, 1 .. Len(c))
  BY <1>1 DEF SumFunction
<1>7. SumFunctionOnSet(f, ToSet(c)) \in Nat
  <2>1. \A s \in ToSet(c) : f[s] \in Nat
    BY <1>1, <1>3 DEF ToSet
  <2> HIDE DEF f
  <2> QED BY <1>1, <2>1, SumSign
<1> QED BY <1>5, <1>6, <1>7 DEF Weight

(* Only what a side's orders say of themselves, and weigh, counts for its  *)
(* levels.                                                                 *)
LEMMA SameFit ==
  ASSUME NEW side \in Sides, NEW levels, NEW lists \in [Prices -> Seq(Slot)],
         NEW slots \in [Slot -> OrderSlot], NEW r,
         LevelsFit(side, levels, slots, lists),
         \A s \in Slot : r[s].active /\ r[s].side = side =>
           /\ slots[s].active /\ slots[s].side = side
           /\ slots[s].price = r[s].price /\ slots[s].levelIndex = r[s].levelIndex,
         \A price \in Prices : NoRepeats(lists[price]),
         \A price \in Prices : \A k \in DOMAIN lists[price] :
           r[lists[price][k]].quantity = slots[lists[price][k]].quantity
  PROVE  LevelsFit(side, levels, r, lists)
<1>1. levels \in Seq(LevelSlot)
  BY DEF LevelsFit
<1>2. ASSUME NEW price \in Prices
      PROVE  Weight(r, ToSet(lists[price])) = Weight(slots, ToSet(lists[price]))
  <2> DEFINE T == ToSet(lists[price])
             f == [s \in Slot |-> r[s].quantity]
             g == [s \in Slot |-> slots[s].quantity]
  <2>1. lists[price] \in Seq(Slot) /\ NoRepeats(lists[price])
    OBVIOUS
  <2>2. IsFiniteSet(T) /\ T \subseteq Slot
    BY <2>1, ListFits
  <2>3. \A s \in T : f[s] = g[s]
    BY <2>2 DEF ToSet
  <2>4. Weight(r, T) = SumFunctionOnSet(f, T) /\ Weight(slots, T) = SumFunctionOnSet(g, T)
    BY DEF Weight
  <2> HIDE DEF T, f, g
  <2>5. SumFunctionOnSet(f, T) = SumFunctionOnSet(g, T)
    BY <2>2, <2>3, SumSame
  <2> QED BY <2>4, <2>5 DEF T
<1>3. \A i \in DOMAIN levels : Describes(levels[i], r, lists[levels[i].price])
  BY <1>1, <1>2, LevelSlots DEF LevelsFit, Describes
<1>4. Placed(side, levels, r)
  BY DEF LevelsFit, Placed
<1> QED BY <1>3, <1>4 DEF LevelsFit

-----------------------------------------------------------------------------
(* Levels that move *)

(* The slot has a live order of this side and price. *)
Matches(slot, side, price) == slot.active /\ slot.side = side /\ slot.price = price

(* The members of a list are exactly the live orders of its side and       *)
(* price.                                                                  *)
LEMMA MembersMatch ==
  ASSUME NEW slots \in [Slot -> OrderSlot], NEW q \in Lists, Threaded(slots, q), Queued(slots, q),
         NEW side \in Sides, NEW price \in Prices, NEW s \in Slot
  PROVE  s \in ToSet(q[side][price]) <=> Matches(slots[s], side, price)
<1>1. s \in ToSet(q[side][price]) <=> \E k \in DOMAIN q[side][price] : q[side][price][k] = s
  BY DEF ToSet
<1>2. ASSUME NEW k \in DOMAIN q[side][price], q[side][price][k] = s
      PROVE  Matches(slots[s], side, price)
  BY <1>2 DEF Threaded, Strung, Matches
<1>3. ASSUME Matches(slots[s], side, price)
      PROVE  \E k \in DOMAIN q[side][price] : q[side][price][k] = s
  BY <1>3 DEF Queued, Matches
<1> QED BY <1>1, <1>2, <1>3

(* A list has no order twice, and the links spell it. *)
LEMMA ListIs ==
  ASSUME NEW slots \in [Slot -> OrderSlot], NEW q \in Lists, Threaded(slots, q),
         NEW side \in Sides, NEW price \in Prices
  PROVE  /\ q[side][price] \in Seq(Slot) /\ NoRepeats(q[side][price])
         /\ Chain(slots, FirstOf(q[side][price])) = q[side][price]
<1> DEFINE c == q[side][price]
<1>1. c \in Seq(Slot) /\ NoRepeats(c) /\ \A k \in DOMAIN c : slots[c[k]].next = Follows(c, k)
  BY DEF Lists, Threaded, Strung
<1> HIDE DEF c
<1>2. Chain(slots, FirstOf(c)) = c
  BY <1>1, ChainIs
<1> QED BY <1>1, <1>2 DEF c

(* r is slots after the levels from start on told their orders where they  *)
(* are.                                                                    *)
Told(r, slots, side, levels, start) ==
  /\ \A s \in Slot : \A i \in start .. Len(levels) :
       Matches(slots[s], side, levels[i].price) => r[s] = [slots[s] EXCEPT !.levelIndex = i]
  /\ \A s \in Slot :
       (\A i \in start .. Len(levels) : ~ Matches(slots[s], side, levels[i].price)) => r[s] = slots[s]
  /\ r = [s \in Slot |-> r[s]]

(* Levels from start on tell their orders, and only them, where they are. *)
LEMMA Relinked ==
  ASSUME NEW slots \in [Slot -> OrderSlot], NEW q \in Lists, Threaded(slots, q), Queued(slots, q),
         NEW side \in Sides, NEW levels \in Seq(LevelSlot), Sorted(side, levels),
         \A i \in DOMAIN levels : levels[i].first = FirstOf(q[side][levels[i].price]),
         NEW start \in Nat \ {0}, NEW r, r = UpdateLevelLinks(slots, levels, start)
  PROVE  Told(r, slots, side, levels, start)
<1>1. /\ Len(levels) \in Nat /\ DOMAIN levels = 1 .. Len(levels)
      /\ \A i \in start .. Len(levels) : i \in DOMAIN levels /\ levels[i].price \in Prices
  BY LevelSlots
<1>2. ASSUME NEW s \in Slot, NEW i \in start .. Len(levels)
      PROVE  s \in ToSet(Chain(slots, levels[i].first)) <=> Matches(slots[s], side, levels[i].price)
  <2>1. Chain(slots, levels[i].first) = q[side][levels[i].price]
    BY <1>1, ListIs
  <2> QED BY <1>1, <2>1, MembersMatch
<1> DEFINE at(s) == {i \in start .. Len(levels) : Matches(slots[s], side, levels[i].price)}
<1>3. ASSUME NEW s \in Slot
      PROVE  r[s] = IF at(s) = {} THEN slots[s] ELSE [slots[s] EXCEPT !.levelIndex = CHOOSE i \in at(s) : TRUE]
  <2>1. {i \in start .. Len(levels) : s \in ToSet(Chain(slots, levels[i].first))} = at(s)
    BY <1>2
  <2> HIDE DEF at
  <2> QED BY <2>1 DEF UpdateLevelLinks
<1>4. ASSUME NEW s \in Slot, NEW i \in start .. Len(levels), Matches(slots[s], side, levels[i].price)
      PROVE  r[s] = [slots[s] EXCEPT !.levelIndex = i]
  <2>1. \A j \in start .. Len(levels) : Matches(slots[s], side, levels[j].price) => j = i
    <3>1. \A j \in start .. Len(levels) : levels[i].price = levels[j].price => i = j
      BY <1>1, PricesDiffer
    <3> QED BY <1>4, <3>1 DEF Matches
  <2>2. at(s) = {i}
    BY <1>4, <2>1
  <2>3. at(s) # {} /\ (CHOOSE j \in at(s) : TRUE) = i
    <3> HIDE DEF at
    <3> QED BY <2>2
  <2> HIDE DEF at
  <2> QED BY <1>3, <2>3
<1>5. ASSUME NEW s \in Slot, \A i \in start .. Len(levels) : ~ Matches(slots[s], side, levels[i].price)
      PROVE  r[s] = slots[s]
  BY <1>3, <1>5
<1>6. r = [s \in Slot |-> r[s]]
  BY DEF UpdateLevelLinks
<1> QED BY <1>4, <1>5, <1>6 DEF Told

(* All that r may say otherwise is where levels are. *)
SameButPlace(r, slots) ==
  /\ r \in [Slot -> OrderSlot]
  /\ \A s \in Slot :
       /\ r[s].orderId = slots[s].orderId /\ r[s].side = slots[s].side /\ r[s].price = slots[s].price
       /\ r[s].quantity = slots[s].quantity /\ r[s].active = slots[s].active
       /\ r[s].next = slots[s].next /\ r[s].prev = slots[s].prev
       /\ (~ slots[s].active => r[s] = slots[s])

(* A slot told another position keeps the rest of what it says. *)
LEMMA PlaceChanged ==
  ASSUME NEW slot \in OrderSlot, NEW i \in 1 .. MaxLevels,
         NEW new, new = [slot EXCEPT !.levelIndex = i]
  PROVE  /\ new \in OrderSlot /\ new.levelIndex = i
         /\ new.orderId = slot.orderId /\ new.side = slot.side /\ new.price = slot.price
         /\ new.quantity = slot.quantity /\ new.active = slot.active
         /\ new.next = slot.next /\ new.prev = slot.prev
BY DEF OrderSlot

(* updateLevelLinks changes nothing but positions, and those of live       *)
(* orders only.                                                            *)
LEMMA RelinkedIsSame ==
  ASSUME NEW slots \in [Slot -> OrderSlot], NEW q \in Lists, Threaded(slots, q), Queued(slots, q),
         NEW side \in Sides, NEW levels \in Seq(LevelSlot), Sorted(side, levels), Len(levels) <= MaxLevels,
         \A i \in DOMAIN levels : levels[i].first = FirstOf(q[side][levels[i].price]),
         NEW start \in Nat \ {0}, NEW r, r = UpdateLevelLinks(slots, levels, start)
  PROVE  SameButPlace(r, slots)
<1>0. Told(r, slots, side, levels, start)
  BY Relinked
<1>1. Len(levels) \in Nat /\ MaxLevels \in Nat
  BY LevelSlots, BookAssumption
<1>2. ASSUME NEW s \in Slot
      PROVE  \/ r[s] = slots[s]
             \/ \E i \in 1 .. MaxLevels : r[s] = [slots[s] EXCEPT !.levelIndex = i] /\ slots[s].active
  <2>1. CASE \A i \in start .. Len(levels) : ~ Matches(slots[s], side, levels[i].price)
    BY <1>0, <2>1 DEF Told
  <2>2. ASSUME NEW i \in start .. Len(levels), Matches(slots[s], side, levels[i].price)
        PROVE  \E j \in 1 .. MaxLevels : r[s] = [slots[s] EXCEPT !.levelIndex = j] /\ slots[s].active
    <3>1. r[s] = [slots[s] EXCEPT !.levelIndex = i]
      BY <1>0, <2>2 DEF Told
    <3>2. i \in 1 .. MaxLevels
      BY <1>1
    <3> QED BY <2>2, <3>1, <3>2 DEF Matches
  <2> QED BY <2>1, <2>2
<1>3. r = [s \in Slot |-> r[s]]
  BY <1>0 DEF Told
<1>4. ASSUME NEW s \in Slot
      PROVE  /\ r[s] \in OrderSlot
             /\ r[s].orderId = slots[s].orderId /\ r[s].side = slots[s].side /\ r[s].price = slots[s].price
             /\ r[s].quantity = slots[s].quantity /\ r[s].active = slots[s].active
             /\ r[s].next = slots[s].next /\ r[s].prev = slots[s].prev
             /\ (~ slots[s].active => r[s] = slots[s])
  <2>1. slots[s] \in OrderSlot
    OBVIOUS
  <2>2. CASE r[s] = slots[s]
    BY <2>1, <2>2
  <2>3. ASSUME NEW i \in 1 .. MaxLevels, r[s] = [slots[s] EXCEPT !.levelIndex = i], slots[s].active
        PROVE  /\ r[s] \in OrderSlot
               /\ r[s].orderId = slots[s].orderId /\ r[s].side = slots[s].side /\ r[s].price = slots[s].price
               /\ r[s].quantity = slots[s].quantity /\ r[s].active = slots[s].active
               /\ r[s].next = slots[s].next /\ r[s].prev = slots[s].prev
    <3> DEFINE slot == slots[s]
               new == r[s]
    <3>1. slot \in OrderSlot /\ new = [slot EXCEPT !.levelIndex = i]
      BY <2>1, <2>3
    <3> HIDE DEF slot, new
    <3>2. /\ new \in OrderSlot
          /\ new.orderId = slot.orderId /\ new.side = slot.side /\ new.price = slot.price
          /\ new.quantity = slot.quantity /\ new.active = slot.active
          /\ new.next = slot.next /\ new.prev = slot.prev
      BY <3>1, PlaceChanged
    <3> QED BY <3>2 DEF slot, new
  <2> QED BY <1>2, <2>2, <2>3
<1>5. r \in [Slot -> OrderSlot]
  BY <1>3, <1>4
<1> QED BY <1>4, <1>5 DEF SameButPlace

(* Slots that differ in positions only spell the same lists, of the same   *)
(* weight, and fit the same levels.                                        *)
LEMMA SameKeeps ==
  ASSUME NEW slots \in [Slot -> OrderSlot], NEW r, SameButPlace(r, slots),
         NEW q \in Lists, Threaded(slots, q), Queued(slots, q)
  PROVE  /\ Threaded(r, q) /\ Queued(r, q)
         /\ \A side \in Sides, price \in Prices :
              Weight(r, ToSet(q[side][price])) = Weight(slots, ToSet(q[side][price]))
         /\ \A level : \A side \in Sides, price \in Prices :
              Describes(level, r, q[side][price]) <=> Describes(level, slots, q[side][price])
<1>1. \A side \in Sides, price \in Prices : \A k \in DOMAIN q[side][price] : q[side][price][k] \in Slot
  BY LenProperties DEF Lists
<1>2. Threaded(r, q)
  BY <1>1 DEF Threaded, Strung, SameButPlace
<1>3. Queued(r, q)
  BY DEF Queued, SameButPlace
<1>4. ASSUME NEW T
      PROVE  Weight(r, T) = Weight(slots, T)
  <2>1. [s \in Slot |-> r[s].quantity] = [s \in Slot |-> slots[s].quantity]
    BY DEF SameButPlace
  <2> QED BY <2>1 DEF Weight
<1>5. \A level, c : Describes(level, r, c) <=> Describes(level, slots, c)
  BY <1>4 DEF Describes
<1> QED BY <1>2, <1>3, <1>4, <1>5

-----------------------------------------------------------------------------
(* Opening and closing a level *)

(* On prices Better is a strict total order, for either side. *)
LEMMA BetterIs ==
  ASSUME NEW side, NEW p \in Int, NEW o \in Int, NEW n \in Int
  PROVE  /\ p # o => (Better(side, p, o) <=> ~ Better(side, o, p))
         /\ Better(side, p, o) /\ Better(side, o, n) => Better(side, p, n)
         /\ ~ Better(side, p, p)
BY DEF Better

(* The position where a level for the price belongs. *)
Between(side, levels, position, price) ==
  /\ position \in 1 .. Len(levels) + 1
  /\ \A i \in DOMAIN levels : i < position => Better(side, levels[i].price, price)
  /\ \A i \in DOMAIN levels : i >= position => Better(side, price, levels[i].price)

(* A new price goes behind the better ones and before the worse ones. *)
LEMMA InsertsBetween ==
  ASSUME NEW side, NEW levels \in Seq(LevelSlot), Sorted(side, levels), NEW price \in Prices,
         \A i \in DOMAIN levels : levels[i].price # price,
         NEW worse,
         worse = LET at == {i \in 1 .. Len(levels) : ~ Better(side, levels[i].price, price)}
                 IN  IF at # {} THEN Min(at) ELSE 0,
         NEW position, position = IF worse = 0 THEN Len(levels) + 1 ELSE worse
  PROVE  Between(side, levels, position, price)
<1> DEFINE at == {i \in 1 .. Len(levels) : ~ Better(side, levels[i].price, price)}
<1>1. worse = IF at # {} THEN Min(at) ELSE 0
  OBVIOUS
<1>2. /\ Len(levels) \in Nat /\ DOMAIN levels = 1 .. Len(levels)
      /\ \A i \in DOMAIN levels : levels[i].price \in Int
      /\ price \in Int
  BY LevelSlots, BookAssumption
<1>3. at # {} => Min(at) \in at /\ \A i \in at : Min(at) <= i
  <2>1. at \in SUBSET Nat
    BY <1>2
  <2> HIDE DEF at
  <2> QED BY <2>1, MinIs
<1>4. CASE at = {}
  <2>1. worse = 0
    BY <1>1, <1>4
  <2>2. position = Len(levels) + 1
    BY <2>1
  <2>3. \A i \in DOMAIN levels : Better(side, levels[i].price, price) /\ ~ (i >= position)
    BY <1>2, <1>4, <2>2
  <2> HIDE DEF at
  <2>4. position \in 1 .. Len(levels) + 1
    BY <1>2, <2>2
  <2> QED BY <2>3, <2>4, Zenon DEF Between
<1>5. CASE at # {}
  <2>1. position = Min(at) /\ position \in 1 .. Len(levels) /\ ~ Better(side, levels[position].price, price)
    <3>1. worse = Min(at) /\ worse \in at
      BY <1>1, <1>3, <1>5
    <3>2. worse \in 1 .. Len(levels) /\ ~ Better(side, levels[worse].price, price)
      BY <3>1
    <3>3. worse # 0
      BY <1>2, <3>2
    <3> HIDE DEF at
    <3> QED BY <3>1, <3>2, <3>3
  <2>2. ASSUME NEW i \in DOMAIN levels, i < position
        PROVE  Better(side, levels[i].price, price)
    <3>1. i \notin at
      <4>1. ~ (Min(at) <= i)
        BY <1>2, <2>1, <2>2
      <4> HIDE DEF at
      <4> QED BY <1>3, <1>5, <4>1
    <3> QED BY <1>2, <3>1
  <2>3. Better(side, price, levels[position].price)
    BY <1>2, <2>1, BetterIs
  <2>4. ASSUME NEW i \in DOMAIN levels, i >= position
        PROVE  Better(side, price, levels[i].price)
    <3>1. CASE i = position
      BY <2>3, <3>1
    <3>2. CASE i # position
      <4>1. Better(side, levels[position].price, levels[i].price)
        <5> HIDE DEF at
        <5>2. Len(levels) \in Nat /\ i \in 1 .. Len(levels) /\ position \in 1 .. Len(levels) /\ position \in DOMAIN levels
          BY <1>2, <2>1
        <5>1. position < i
          <6>1. \A m, n \in Int : n >= m /\ n # m => m < n
            OBVIOUS
          <6>2. i \in Int /\ position \in Int
            BY <5>2
          <6> QED BY <2>4, <3>2, <6>1, <6>2, Zenon
        <5> QED BY <5>1, <5>2 DEF Sorted
      <4> QED BY <1>2, <2>1, <2>3, <4>1, BetterIs
    <3> QED BY <3>1, <3>2
  <2>5. position \in 1 .. Len(levels) + 1
    <3>1. position \in 1 .. Len(levels)
      BY <2>1
    <3> QED BY <1>2, <3>1
  <2> QED BY <2>2, <2>4, <2>5, Zenon DEF Between
<1> QED BY <1>4, <1>5

(* The empty sequence is the one of length 0. *)
LEMMA EmptyList ==
  ASSUME NEW S, NEW c \in Seq(S)
  PROVE  /\ c = <<>> <=> Len(c) = 0
         /\ c = <<>> <=> DOMAIN c = {}
<1>1. Len(c) \in Nat /\ DOMAIN c = 1 .. Len(c)
  BY LenProperties
<1>2. c = <<>> <=> Len(c) = 0
  BY EmptySeq
<1> QED BY <1>1, <1>2

(* No orders weigh nothing. *)
LEMMA WeightNone == ASSUME NEW slots PROVE Weight(slots, {}) = 0
BY SumEmpty DEF Weight

(* A side with a level inserted fits the same lists. *)
LEMMA LevelOpened ==
  ASSUME NEW slots \in [Slot -> OrderSlot], NEW q \in Lists, Threaded(slots, q), Queued(slots, q),
         NEW side \in Sides, NEW levels, LevelsFit(side, levels, slots, q[side]), Len(levels) < MaxLevels,
         NEW price \in Prices, \A i \in DOMAIN levels : levels[i].price # price,
         NEW position \in 1 .. Len(levels) + 1,
         \A i \in DOMAIN levels : i < position => Better(side, levels[i].price, price),
         \A i \in DOMAIN levels : i >= position => Better(side, price, levels[i].price),
         NEW shifted, shifted = InsertAt(levels, position, EmptyLevel(price)),
         NEW r, r = UpdateLevelLinks(slots, shifted, position + 1)
  PROVE  /\ LevelsFit(side, shifted, r, q[side]) /\ SameButPlace(r, slots)
         /\ \A s \in Slot : slots[s].side # side => r[s] = slots[s]
         /\ position \in DOMAIN shifted /\ shifted[position].price = price
         /\ \A i \in DOMAIN shifted \ {position} : \E j \in DOMAIN levels : shifted[i] = levels[j]
         /\ q[side][price] = <<>>
<1>1. /\ levels \in Seq(LevelSlot) /\ Len(levels) \in Nat /\ DOMAIN levels = 1 .. Len(levels)
      /\ Sorted(side, levels)
      /\ \A i \in DOMAIN levels : levels[i].price \in Prices /\ levels[i].price \in Int
      /\ price \in Int /\ MaxLevels \in Nat
  BY LevelSlots, BookAssumption DEF LevelsFit
<1>2. EmptyLevel(price) \in LevelSlot /\ EmptyLevel(price).price = price
  BY DEF EmptyLevel, LevelSlot
<1>3. /\ shifted \in Seq(LevelSlot) /\ Len(shifted) = Len(levels) + 1
      /\ DOMAIN shifted = 1 .. Len(levels) + 1
      /\ \A j \in 1 .. Len(levels) + 1 :
           shifted[j] = IF j < position THEN levels[j] ELSE IF j = position THEN EmptyLevel(price) ELSE levels[j - 1]
  <2>1. Inserted(shifted, levels, position, EmptyLevel(price), LevelSlot)
    BY <1>1, <1>2, InsertAtIs
  <2> QED BY <2>1, LenProperties DEF Inserted
<1>4. ASSUME NEW i \in DOMAIN shifted, i # position
      PROVE  \E j \in DOMAIN levels : /\ shifted[i] = levels[j]
                                      /\ j = IF i < position THEN i ELSE i - 1
  BY <1>1, <1>3, <1>4
<1>5. shifted[position].price = price /\ position \in DOMAIN shifted
  BY <1>1, <1>2, <1>3
<1>6. q[side][price] = <<>>
  <2>1. q[side][price] \in Seq(Slot)
    BY DEF Lists
  <2>2. ASSUME NEW k \in DOMAIN q[side][price]
        PROVE  FALSE
    <3>1. q[side][price][k] \in Slot /\ slots[q[side][price][k]].active
          /\ slots[q[side][price][k]].side = side /\ slots[q[side][price][k]].price = price
      BY <2>1, LenProperties DEF Threaded, Strung
    <3> QED BY <3>1 DEF LevelsFit, Placed
  <2>3. DOMAIN q[side][price] = {}
    BY <2>2
  <2> QED BY <2>1, <2>3, EmptyList
<1>7. Describes(EmptyLevel(price), slots, q[side][price])
  <2>1. ToSet(<<>>) = {} /\ Len(<<>>) = 0
    BY DEF ToSet
  <2> QED BY <1>6, <2>1, WeightNone DEF Describes, EmptyLevel, FirstOf, LastOf
<1>8. \A i \in DOMAIN shifted : Describes(shifted[i], slots, q[side][shifted[i].price])
  <2>1. \A i \in DOMAIN levels : Describes(levels[i], slots, q[side][levels[i].price])
    BY DEF LevelsFit
  <2>2. shifted[position] = EmptyLevel(price)
    BY <1>1, <1>3
  <2> QED BY <1>2, <1>4, <1>7, <2>1, <2>2
<1>9. Sorted(side, shifted)
  <2> SUFFICES ASSUME NEW i \in DOMAIN shifted, NEW j \in DOMAIN shifted, i < j
               PROVE  Better(side, shifted[i].price, shifted[j].price)
    BY DEF Sorted
  <2>1. CASE i = position
    <3>1. j - 1 \in DOMAIN levels /\ j - 1 >= position /\ shifted[j] = levels[j - 1]
      BY <1>1, <1>3, <2>1
    <3> QED BY <1>5, <2>1, <3>1
  <2>2. CASE j = position
    <3>1. i \in DOMAIN levels /\ i < position /\ shifted[i] = levels[i]
      BY <1>1, <1>3, <2>2
    <3> QED BY <1>5, <2>2, <3>1
  <2>3. CASE i # position /\ j # position
    <3>1. PICK k \in DOMAIN levels : shifted[i] = levels[k] /\ k = IF i < position THEN i ELSE i - 1
      BY <1>4, <2>3
    <3>2. PICK l \in DOMAIN levels : shifted[j] = levels[l] /\ l = IF j < position THEN j ELSE j - 1
      BY <1>4, <2>3
    <3>3. k < l
      BY <1>1, <1>3, <2>3, <3>1, <3>2
    <3> QED BY <1>1, <3>1, <3>2, <3>3 DEF Sorted
  <2> QED BY <2>1, <2>2, <2>3
<1>10. \A i \in DOMAIN shifted : shifted[i].first = FirstOf(q[side][shifted[i].price])
  BY <1>8 DEF Describes
<1>11. Len(shifted) <= MaxLevels /\ position + 1 \in Nat \ {0}
  BY <1>1, <1>3
<1>12. SameButPlace(r, slots)
  BY <1>3, <1>9, <1>10, <1>11, RelinkedIsSame
<1>13. Told(r, slots, side, shifted, position + 1)
  BY <1>3, <1>9, <1>10, <1>11, Relinked
<1>14. \A s \in Slot : slots[s].side # side => r[s] = slots[s]
  BY <1>13 DEF Matches, Told
<1>15. Placed(side, shifted, r)
  <2> SUFFICES ASSUME NEW s \in Slot, r[s].active, r[s].side = side
               PROVE  r[s].levelIndex \in DOMAIN shifted /\ shifted[r[s].levelIndex].price = r[s].price
    BY DEF Placed
  <2>1. slots[s].active /\ slots[s].side = side /\ r[s].price = slots[s].price
    BY <1>12 DEF SameButPlace
  <2>2. slots[s].levelIndex \in DOMAIN levels /\ levels[slots[s].levelIndex].price = slots[s].price
    BY <2>1 DEF LevelsFit, Placed
  <2> DEFINE old == slots[s].levelIndex
  <2>3. CASE old < position
    <3>1. shifted[old] = levels[old] /\ old \in DOMAIN shifted
      BY <1>1, <1>3, <2>2, <2>3
    <3>2. ASSUME NEW i \in position + 1 .. Len(shifted)
          PROVE  ~ Matches(slots[s], side, shifted[i].price)
      <4>1. i \in DOMAIN shifted /\ i # old
        BY <1>1, <1>3, <2>2, <2>3
      <4>2. shifted[i].price # shifted[old].price
        BY <1>3, <1>9, <3>1, <4>1, PricesDiffer
      <4> QED BY <2>2, <3>1, <4>2 DEF Matches
    <3>3. r[s] = slots[s]
      BY <1>13, <3>2 DEF Told
    <3> QED BY <2>1, <2>2, <3>1, <3>3
  <2>4. CASE old >= position
    <3>1. shifted[old + 1] = levels[old] /\ old + 1 \in DOMAIN shifted /\ old + 1 \in position + 1 .. Len(shifted)
      BY <1>1, <1>3, <2>2, <2>4
    <3>2. Matches(slots[s], side, shifted[old + 1].price)
      BY <2>1, <2>2, <3>1 DEF Matches
    <3>3. r[s] = [slots[s] EXCEPT !.levelIndex = old + 1]
      BY <1>13, <3>1, <3>2 DEF Told
    <3>4. r[s].levelIndex = old + 1
      <4>1. slots[s] \in OrderSlot
        OBVIOUS
      <4> HIDE DEF old
      <4> QED BY <3>3, <4>1 DEF OrderSlot
    <3> QED BY <2>1, <2>2, <3>1, <3>4
  <2> QED BY <1>1, <2>2, <2>3, <2>4
<1>16. \A i \in DOMAIN shifted : Describes(shifted[i], r, q[side][shifted[i].price])
  <2>1. \A i \in DOMAIN shifted : shifted[i].price \in Prices
    BY <1>3, LevelSlots
  <2>2. \A level : \A p \in Prices : Describes(level, r, q[side][p]) <=> Describes(level, slots, q[side][p])
    BY <1>12, SameKeeps, ZenonT(30)
  <2> QED BY <1>8, <2>1, <2>2, Zenon
<1>17. LevelsFit(side, shifted, r, q[side])
  BY <1>3, <1>9, <1>11, <1>15, <1>16 DEF LevelsFit
<1> QED BY <1>4, <1>5, <1>6, <1>12, <1>14, <1>17

(* A side with an empty level removed fits the same lists. *)
LEMMA LevelClosed ==
  ASSUME NEW slots \in [Slot -> OrderSlot], NEW q \in Lists, Threaded(slots, q), Queued(slots, q),
         NEW side \in Sides, NEW levels, LevelsFit(side, levels, slots, q[side]),
         NEW position \in DOMAIN levels, q[side][levels[position].price] = <<>>,
         NEW closed, closed = RemoveAt(levels, position),
         NEW r, r = UpdateLevelLinks(slots, closed, position)
  PROVE  /\ LevelsFit(side, closed, r, q[side]) /\ SameButPlace(r, slots)
         /\ \A s \in Slot : slots[s].side # side => r[s] = slots[s]
         /\ \A i \in DOMAIN closed : \E j \in DOMAIN levels \ {position} : closed[i] = levels[j]
<1>1. /\ levels \in Seq(LevelSlot) /\ Len(levels) \in Nat /\ DOMAIN levels = 1 .. Len(levels)
      /\ Sorted(side, levels) /\ Len(levels) <= MaxLevels
      /\ \A i \in DOMAIN levels : levels[i].price \in Prices /\ levels[i].price \in Int
      /\ MaxLevels \in Nat
  BY LevelSlots, BookAssumption DEF LevelsFit
<1>3. /\ closed \in Seq(LevelSlot) /\ Len(closed) = Len(levels) - 1
      /\ DOMAIN closed = 1 .. Len(levels) - 1
      /\ \A j \in 1 .. Len(levels) - 1 : closed[j] = IF j < position THEN levels[j] ELSE levels[j + 1]
  <2>1. Removed(closed, levels, position, LevelSlot)
    BY <1>1, RemoveAtIs
  <2> QED BY <2>1, LenProperties DEF Removed
<1>4. ASSUME NEW i \in DOMAIN closed
      PROVE  \E j \in DOMAIN levels : /\ closed[i] = levels[j] /\ j # position
                                      /\ j = IF i < position THEN i ELSE i + 1
  BY <1>1, <1>3
<1>8. \A i \in DOMAIN closed : Describes(closed[i], slots, q[side][closed[i].price])
  <2>1. \A i \in DOMAIN levels : Describes(levels[i], slots, q[side][levels[i].price])
    BY DEF LevelsFit
  <2> QED BY <1>4, <2>1
<1>9. Sorted(side, closed)
  <2> SUFFICES ASSUME NEW i \in DOMAIN closed, NEW j \in DOMAIN closed, i < j
               PROVE  Better(side, closed[i].price, closed[j].price)
    BY DEF Sorted
  <2>1. PICK k \in DOMAIN levels : closed[i] = levels[k] /\ k = IF i < position THEN i ELSE i + 1
    BY <1>4
  <2>2. PICK l \in DOMAIN levels : closed[j] = levels[l] /\ l = IF j < position THEN j ELSE j + 1
    BY <1>4
  <2>3. k < l
    BY <1>1, <1>3, <2>1, <2>2
  <2> QED BY <1>1, <2>1, <2>2, <2>3 DEF Sorted
<1>10. \A i \in DOMAIN closed : closed[i].first = FirstOf(q[side][closed[i].price])
  BY <1>8 DEF Describes
<1>11. Len(closed) <= MaxLevels /\ position \in Nat \ {0}
  BY <1>1, <1>3
<1>12. SameButPlace(r, slots)
  BY <1>3, <1>9, <1>10, <1>11, RelinkedIsSame
<1>13. Told(r, slots, side, closed, position)
  BY <1>3, <1>9, <1>10, <1>11, Relinked
<1>14. \A s \in Slot : slots[s].side # side => r[s] = slots[s]
  BY <1>13 DEF Matches, Told
<1>15. Placed(side, closed, r)
  <2> SUFFICES ASSUME NEW s \in Slot, r[s].active, r[s].side = side
               PROVE  r[s].levelIndex \in DOMAIN closed /\ closed[r[s].levelIndex].price = r[s].price
    BY DEF Placed
  <2>1. slots[s].active /\ slots[s].side = side /\ r[s].price = slots[s].price
    BY <1>12 DEF SameButPlace
  <2>2. slots[s].levelIndex \in DOMAIN levels /\ levels[slots[s].levelIndex].price = slots[s].price
    BY <2>1 DEF LevelsFit, Placed
  <2> DEFINE old == slots[s].levelIndex
  <2>3. old # position
    <3>1. \E k \in DOMAIN q[side][slots[s].price] : TRUE
      BY <2>1 DEF Queued
    <3>2. q[side][slots[s].price] # <<>>
      BY <3>1
    <3> QED BY <2>2, <3>2
  <2>4. CASE old < position
    <3>1. closed[old] = levels[old] /\ old \in DOMAIN closed
      BY <1>1, <1>3, <2>2, <2>4
    <3>2. ASSUME NEW i \in position .. Len(closed)
          PROVE  ~ Matches(slots[s], side, closed[i].price)
      <4>1. i \in DOMAIN closed /\ i # old
        BY <1>1, <1>3, <2>2, <2>4
      <4>2. closed[i].price # closed[old].price
        BY <1>3, <1>9, <3>1, <4>1, PricesDiffer
      <4> QED BY <2>2, <3>1, <4>2 DEF Matches
    <3>3. r[s] = slots[s]
      BY <1>13, <3>2 DEF Told
    <3> QED BY <2>1, <2>2, <3>1, <3>3
  <2>5. CASE old > position
    <3>1. closed[old - 1] = levels[old] /\ old - 1 \in DOMAIN closed /\ old - 1 \in position .. Len(closed)
      BY <1>1, <1>3, <2>2, <2>5
    <3>2. Matches(slots[s], side, closed[old - 1].price)
      BY <2>1, <2>2, <3>1 DEF Matches
    <3>3. r[s] = [slots[s] EXCEPT !.levelIndex = old - 1]
      BY <1>13, <3>1, <3>2 DEF Told
    <3>4. r[s].levelIndex = old - 1
      <4>1. slots[s] \in OrderSlot
        OBVIOUS
      <4> HIDE DEF old
      <4> QED BY <3>3, <4>1 DEF OrderSlot
    <3> QED BY <2>1, <2>2, <3>1, <3>4
  <2> QED BY <1>1, <2>2, <2>3, <2>4, <2>5
<1>16. \A i \in DOMAIN closed : Describes(closed[i], r, q[side][closed[i].price])
  <2>1. \A i \in DOMAIN closed : closed[i].price \in Prices
    BY <1>3, LevelSlots
  <2>2. \A level : \A p \in Prices : Describes(level, r, q[side][p]) <=> Describes(level, slots, q[side][p])
    BY <1>12, SameKeeps
  <2> QED BY <1>8, <2>1, <2>2, Zenon
<1>17. LevelsFit(side, closed, r, q[side])
  BY <1>3, <1>9, <1>11, <1>15, <1>16 DEF LevelsFit
<1> QED BY <1>4, <1>12, <1>14, <1>17

-----------------------------------------------------------------------------
(* An order joins or leaves a list *)

(* What Append returns, as an insertion at the end. *)
LEMMA AppendIs ==
  ASSUME NEW S, NEW c \in Seq(S), NEW s \in S
  PROVE  Inserted(Append(c, s), c, Len(c) + 1, s, S)
BY LenProperties DEF Inserted

(* A list that gains an order it does not have repeats none. *)
LEMMA InsertedList ==
  ASSUME NEW c \in Seq(Slot), NoRepeats(c), NEW s \in Slot, s \notin ToSet(c),
         NEW new, Inserted(new, c, Len(c) + 1, s, Slot)
  PROVE  /\ new \in Seq(Slot) /\ NoRepeats(new) /\ ToSet(new) = ToSet(c) \cup {s}
         /\ Len(c) \in Nat /\ Len(new) = Len(c) + 1 /\ new # <<>>
         /\ \A k \in 1 .. Len(c) : new[k] = c[k]
         /\ new[Len(c) + 1] = s
<1>1. /\ Len(c) \in Nat /\ DOMAIN c = 1 .. Len(c) /\ new \in Seq(Slot) /\ DOMAIN new = 1 .. Len(c) + 1
      /\ Len(new) = Len(c) + 1
  BY LenProperties DEF Inserted
<1>2. (\A k \in 1 .. Len(c) : new[k] = c[k]) /\ new[Len(c) + 1] = s
  BY <1>1 DEF Inserted
<1>3. ToSet(new) = ToSet(c) \cup {s}
  <2>1. ASSUME NEW x \in ToSet(new)
        PROVE  x \in ToSet(c) \cup {s}
    <3>1. PICK k \in 1 .. Len(c) + 1 : new[k] = x
      BY <1>1 DEF ToSet
    <3>2. CASE k \in 1 .. Len(c)
      BY <1>1, <1>2, <3>1, <3>2 DEF ToSet
    <3>3. CASE k = Len(c) + 1
      BY <1>2, <3>1, <3>3
    <3> QED BY <1>1, <3>2, <3>3
  <2>2. ASSUME NEW x \in ToSet(c)
        PROVE  x \in ToSet(new)
    <3>1. PICK k \in 1 .. Len(c) : c[k] = x
      BY <1>1 DEF ToSet
    <3>2. new[k] = x /\ k \in DOMAIN new
      BY <1>1, <1>2, <3>1
    <3> QED BY <3>2 DEF ToSet
  <2>3. s \in ToSet(new)
    <3>1. Len(c) + 1 \in DOMAIN new
      BY <1>1
    <3> QED BY <1>2, <3>1 DEF ToSet
  <2> QED BY <2>1, <2>2, <2>3
<1>4. NoRepeats(new)
  <2> SUFFICES ASSUME NEW i \in DOMAIN new, NEW j \in DOMAIN new, new[i] = new[j]
               PROVE  i = j
    BY DEF NoRepeats
  <2>1. \A k \in 1 .. Len(c) : c[k] # s
    BY <1>1 DEF ToSet
  <2>2. CASE i \in 1 .. Len(c) /\ j \in 1 .. Len(c)
    BY <1>1, <1>2, <2>2 DEF NoRepeats
  <2>3. CASE i = Len(c) + 1 /\ j \in 1 .. Len(c)
    BY <1>2, <2>1, <2>3
  <2>4. CASE i \in 1 .. Len(c) /\ j = Len(c) + 1
    BY <1>2, <2>1, <2>4
  <2> QED BY <1>1, <2>2, <2>3, <2>4
<1>5. new # <<>>
  BY <1>1, EmptyList
<1> QED BY <1>1, <1>2, <1>3, <1>4, <1>5

(* A list that loses its n-th order repeats none and has the others. *)
LEMMA RemovedList ==
  ASSUME NEW c \in Seq(Slot), NoRepeats(c), NEW n \in DOMAIN c,
         NEW new, Removed(new, c, n, Slot)
  PROVE  /\ new \in Seq(Slot) /\ NoRepeats(new) /\ ToSet(new) = ToSet(c) \ {c[n]}
         /\ Len(c) \in Nat \ {0} /\ Len(new) = Len(c) - 1
         /\ \A k \in 1 .. Len(c) - 1 : new[k] = IF k < n THEN c[k] ELSE c[k + 1]
<1>1. /\ Len(c) \in Nat \ {0} /\ DOMAIN c = 1 .. Len(c) /\ new \in Seq(Slot) /\ DOMAIN new = 1 .. Len(c) - 1
      /\ Len(new) = Len(c) - 1 /\ n \in 1 .. Len(c)
      /\ \A k \in 1 .. Len(c) - 1 : new[k] = IF k < n THEN c[k] ELSE c[k + 1]
  <2>1. Len(c) \in Nat /\ DOMAIN c = 1 .. Len(c) /\ n \in 1 .. Len(c)
    BY LenProperties
  <2>2. /\ new \in Seq(Slot) /\ Len(new) = Len(c) - 1
        /\ \A k \in 1 .. Len(c) - 1 : new[k] = IF k < n THEN c[k] ELSE c[k + 1]
    BY DEF Removed
  <2>3. DOMAIN new = 1 .. Len(new)
    BY <2>2, LenProperties
  <2> QED BY <2>1, <2>2, <2>3
<1>2. ASSUME NEW k \in DOMAIN new
      PROVE  \E j \in DOMAIN c : new[k] = c[j] /\ j # n /\ j = IF k < n THEN k ELSE k + 1
  BY <1>1
<1>3. ASSUME NEW j \in DOMAIN c, j # n
      PROVE  \E k \in DOMAIN new : new[k] = c[j]
  <2>1. CASE j < n
    <3>1. j \in DOMAIN new /\ new[j] = c[j]
      BY <1>1, <2>1
    <3> QED BY <3>1
  <2>2. CASE j > n
    <3>1. j - 1 \in DOMAIN new /\ new[j - 1] = c[j]
      BY <1>1, <2>2
    <3> QED BY <3>1
  <2> QED BY <1>1, <1>3, <2>1, <2>2
<1>4. ToSet(new) = ToSet(c) \ {c[n]}
  <2>1. \A x \in ToSet(new) : x \in ToSet(c) /\ x # c[n]
    BY <1>2 DEF ToSet, NoRepeats
  <2>2. \A x \in ToSet(c) : x # c[n] => x \in ToSet(new)
    BY <1>3 DEF ToSet
  <2> QED BY <2>1, <2>2
<1>5. NoRepeats(new)
  <2> SUFFICES ASSUME NEW i \in DOMAIN new, NEW j \in DOMAIN new, new[i] = new[j]
               PROVE  i = j
    BY DEF NoRepeats
  <2>1. PICK k \in DOMAIN c : new[i] = c[k] /\ k = IF i < n THEN i ELSE i + 1
    BY <1>2
  <2>2. PICK l \in DOMAIN c : new[j] = c[l] /\ l = IF j < n THEN j ELSE j + 1
    BY <1>2
  <2>3. k = l
    BY <2>1, <2>2 DEF NoRepeats
  <2> QED BY <1>1, <2>1, <2>2, <2>3
<1> QED BY <1>1, <1>4, <1>5

(* r is slots with s wiped out or filled, and its neighbours' links moved. *)
Neighbours(r, slots, s, before, after, next, prev) ==
  /\ r \in [Slot -> OrderSlot]
  /\ \A t \in Slot \ {s} :
       /\ r[t].orderId = slots[t].orderId /\ r[t].side = slots[t].side /\ r[t].price = slots[t].price
       /\ r[t].quantity = slots[t].quantity /\ r[t].active = slots[t].active
       /\ r[t].levelIndex = slots[t].levelIndex
       /\ r[t].next = IF t = before THEN next ELSE slots[t].next
       /\ r[t].prev = IF t = after THEN prev ELSE slots[t].prev

(* A list whose members are neither s nor its neighbours keeps its links.  *)
LEMMA OtherStrung ==
  ASSUME NEW slots, NEW d \in Seq(Slot), NEW i, NEW o, Strung(slots, d, i, o),
         NEW r, NEW s, NEW before, NEW after, NEW next, NEW prev,
         Neighbours(r, slots, s, before, after, next, prev),
         \A k \in DOMAIN d : d[k] \notin {s, before, after}
  PROVE  Strung(r, d, i, o)
<1>1. \A k \in DOMAIN d : d[k] \in Slot
  BY LenProperties
<1> QED BY <1>1 DEF Strung, Neighbours

(* The lists p are those the slots r spell. *)
Spelled(r, p) == p \in Lists /\ Threaded(r, p) /\ Queued(r, p)

(* The lists after one of them changed. *)
LEMMA Relisted ==
  ASSUME NEW slots \in [Slot -> OrderSlot], NEW q \in Lists, Queued(slots, q),
         NEW side \in Sides, NEW price \in Prices, NEW r \in [Slot -> OrderSlot],
         NEW new \in Seq(Slot), Strung(r, new, side, price),
         \A i \in Sides, o \in Prices : i # side \/ o # price => Strung(r, q[i][o], i, o),
         \A t \in Slot : r[t].active =>
           \/ Matches(r[t], side, price) /\ t \in ToSet(new)
           \/ /\ ~ Matches(r[t], side, price)
              /\ slots[t].active /\ slots[t].side = r[t].side /\ slots[t].price = r[t].price,
         NEW p, p = [q EXCEPT ![side][price] = new]
  PROVE  Spelled(r, p)
<1>1. p \in Lists
  BY DEF Lists
<1>2. /\ p[side][price] = new
      /\ \A i \in Sides, o \in Prices : i # side \/ o # price => p[i][o] = q[i][o]
  BY DEF Lists
<1>3. Threaded(r, p)
  <2> SUFFICES ASSUME NEW i \in Sides, NEW o \in Prices
               PROVE  Strung(r, p[i][o], i, o)
    BY DEF Threaded
  <2>1. CASE i = side /\ o = price
    BY <1>2, <2>1
  <2>2. CASE ~ (i = side /\ o = price)
    BY <1>2, <2>2
  <2> QED BY <2>1, <2>2
<1>4. Queued(r, p)
  <2> SUFFICES ASSUME NEW t \in Slot, r[t].active
               PROVE  /\ r[t].price \in Prices
                      /\ \E k \in DOMAIN p[r[t].side][r[t].price] : p[r[t].side][r[t].price][k] = t
    BY DEF Queued
  <2>1. CASE Matches(r[t], side, price) /\ t \in ToSet(new)
    BY <1>2, <2>1 DEF Matches, ToSet
  <2>2. CASE /\ ~ Matches(r[t], side, price)
             /\ slots[t].active /\ slots[t].side = r[t].side /\ slots[t].price = r[t].price
    <3> DEFINE i == r[t].side
               o == r[t].price
    <3>1. /\ o \in Prices /\ \E k \in DOMAIN q[i][o] : q[i][o][k] = t
      BY <2>2 DEF Queued
    <3>2. i \in Sides /\ (i # side \/ o # price)
      BY <2>2 DEF Matches, OrderSlot
    <3>3. p[i][o] = q[i][o]
      <4> HIDE DEF i, o
      <4> QED BY <1>2, <3>1, <3>2
    <3> QED BY <3>1, <3>3
  <2> QED BY <2>1, <2>2
<1> QED BY <1>1, <1>3, <1>4 DEF Spelled

(* The links of a list after appendOrderToLevel spell it with s at its     *)
(* end.                                                                    *)
LEMMA JoinStrung ==
  ASSUME NEW slots, NEW c \in Seq(Slot), NEW side, NEW price, Strung(slots, c, side, price),
         NEW s \in Slot, s \notin ToSet(c),
         NEW r, Neighbours(r, slots, s, LastOf(c), Nil, s, Nil), Matches(r[s], side, price),
         r[s].prev = LastOf(c), r[s].next = Nil,
         NEW new, Inserted(new, c, Len(c) + 1, s, Slot)
  PROVE  Strung(r, new, side, price)
<1>1. NoRepeats(c) /\ Nil \notin Slot /\ DOMAIN c = 1 .. Len(c) /\ Len(c) \in Nat
      /\ \A k \in 1 .. Len(c) : c[k] \in Slot
  BY ASlotIsNoNil, LenProperties DEF Strung
<1>3. /\ new \in Seq(Slot) /\ NoRepeats(new)
      /\ Len(new) = Len(c) + 1
      /\ \A k \in 1 .. Len(c) : new[k] = c[k]
      /\ new[Len(c) + 1] = s
  BY <1>1, InsertedList
<1>10. Len(c) \in Nat /\ Len(new) = Len(c) + 1
  BY <1>1, <1>3
<1>6. DOMAIN new = 1 .. Len(c) + 1
  BY <1>1, <1>3, LenProperties
<1>7. LastOf(c) = IF Len(c) = 0 THEN Nil ELSE c[Len(c)]
  BY <1>1, EmptyList DEF LastOf
<1>9. ASSUME NEW k \in 1 .. Len(c) + 1
      PROVE  /\ r[new[k]].active /\ r[new[k]].side = side /\ r[new[k]].price = price
             /\ r[new[k]].next = Follows(new, k) /\ r[new[k]].prev = Precedes(new, k)
  <2>1. CASE k \in 1 .. Len(c)
    <3>1. new[k] = c[k] /\ c[k] \in Slot /\ c[k] # s /\ c[k] # Nil
      BY <1>1, <1>3, <2>1 DEF ToSet
    <3>2. /\ slots[c[k]].active /\ slots[c[k]].side = side /\ slots[c[k]].price = price
          /\ slots[c[k]].next = Follows(c, k) /\ slots[c[k]].prev = Precedes(c, k)
      BY <1>1, <2>1 DEF Strung
    <3>3. /\ r[c[k]].active /\ r[c[k]].side = side /\ r[c[k]].price = price
          /\ r[c[k]].prev = Precedes(c, k)
          /\ r[c[k]].next = IF c[k] = LastOf(c) THEN s ELSE Follows(c, k)
      BY <3>1, <3>2 DEF Neighbours
    <3>4. Precedes(new, k) = Precedes(c, k)
      <4>1. k # 1 => k - 1 \in 1 .. Len(c)
        BY <1>1, <2>1
      <4> QED BY <1>3, <4>1 DEF Precedes
    <3>5. CASE k = Len(c)
      <4>1. c[k] = LastOf(c)
        BY <1>1, <1>7, <2>1, <3>5
      <4>2. Follows(new, k) = s
        <5>1. k # Len(new) /\ k + 1 = Len(c) + 1
          BY <1>10, <3>5
        <5> QED BY <1>3, <5>1 DEF Follows
      <4> QED BY <3>1, <3>3, <3>4, <4>1, <4>2
    <3>6. CASE k # Len(c)
      <4>1. Len(c) \in 1 .. Len(c) /\ k + 1 \in 1 .. Len(c) /\ k # Len(c) + 1
        BY <1>1, <2>1, <3>6
      <4>2. c[k] # LastOf(c)
        BY <1>1, <1>7, <2>1, <3>6, <4>1, Zenon DEF NoRepeats
      <4>3. Follows(new, k) = Follows(c, k)
        BY <1>3, <3>6, <4>1 DEF Follows
      <4> QED BY <3>1, <3>3, <3>4, <4>2, <4>3
    <3> QED BY <3>5, <3>6
  <2>2. CASE k = Len(c) + 1
    <3>1. new[k] = s /\ Follows(new, k) = Nil
      BY <1>3, <2>2 DEF Follows
    <3>2. Precedes(new, k) = LastOf(c)
      <4>1. CASE Len(c) = 0
        BY <1>7, <2>2, <4>1 DEF Precedes
      <4>2. CASE Len(c) # 0
        <5>1. k # 1 /\ k - 1 = Len(c) /\ Len(c) \in 1 .. Len(c)
          BY <1>1, <2>2, <4>2
        <5> QED BY <1>3, <1>7, <4>2, <5>1 DEF Precedes
      <4> QED BY <4>1, <4>2
    <3> QED BY <3>1, <3>2 DEF Matches
  <2> QED BY <1>1, <2>1, <2>2
<1> QED BY <1>3, <1>6, <1>9 DEF Strung

(* The last order of the list learns of its successor. *)
LEMMA Joins ==
  ASSUME NEW slots \in [Slot -> OrderSlot], NEW q \in Lists, Threaded(slots, q), Queued(slots, q),
         NEW side \in Sides, NEW price \in Prices, NEW c, c = q[side][price],
         NEW s \in Slot, ~ slots[s].active,
         NEW r, Neighbours(r, slots, s, LastOf(c), Nil, s, Nil), Matches(r[s], side, price),
         r[s].prev = LastOf(c), r[s].next = Nil,
         NEW new, Inserted(new, c, Len(c) + 1, s, Slot),
         NEW p, p = [q EXCEPT ![side][price] = new]
  PROVE  Spelled(r, p)
<1>1. c \in Seq(Slot) /\ Strung(slots, c, side, price) /\ DOMAIN c = 1 .. Len(c) /\ Len(c) \in Nat /\ NoRepeats(c)
  BY ListIs, LenProperties DEF Threaded
<1>2. s \notin ToSet(c)
  BY MembersMatch DEF Matches
<1>3. Strung(r, new, side, price)
  BY <1>1, <1>2, JoinStrung
<1>4. new \in Seq(Slot) /\ ToSet(new) = ToSet(c) \cup {s} /\ r \in [Slot -> OrderSlot]
  BY <1>1, <1>2, InsertedList DEF Neighbours
<1>5. LastOf(c) = Nil \/ (LastOf(c) \in Slot /\ Matches(slots[LastOf(c)], side, price))
  <2>1. LastOf(c) = IF Len(c) = 0 THEN Nil ELSE c[Len(c)]
    BY <1>1, EmptyList DEF LastOf
  <2>2. CASE Len(c) # 0
    <3>1. Len(c) \in DOMAIN c
      BY <1>1, <2>2
    <3> QED BY <1>1, <2>1, <2>2, <3>1 DEF Strung, Matches
  <2> QED BY <2>1, <2>2
<1>6. ASSUME NEW i \in Sides, NEW o \in Prices, i # side \/ o # price
      PROVE  Strung(r, q[i][o], i, o)
  <2> DEFINE d == q[i][o]
  <2>1. d \in Seq(Slot) /\ Strung(slots, d, i, o)
    BY ListIs DEF Threaded
  <2>2. \A k \in DOMAIN d : d[k] \in Slot /\ Matches(slots[d[k]], i, o)
    BY <2>1, LenProperties DEF Strung, Matches
  <2>3. \A k \in DOMAIN d : d[k] \notin {s, LastOf(c), Nil}
    BY <1>5, <1>6, <2>2, ASlotIsNoNil DEF Matches
  <2> HIDE DEF d
  <2>4. Strung(r, d, i, o)
    BY <2>1, <2>3, OtherStrung
  <2> QED BY <2>4 DEF d
<1>7. ASSUME NEW t \in Slot, r[t].active
      PROVE  \/ Matches(r[t], side, price) /\ t \in ToSet(new)
             \/ /\ ~ Matches(r[t], side, price)
                /\ slots[t].active /\ slots[t].side = r[t].side /\ slots[t].price = r[t].price
  <2>1. CASE t = s
    BY <1>4, <2>1
  <2>2. CASE t # s
    <3>1. slots[t].active /\ slots[t].side = r[t].side /\ slots[t].price = r[t].price
      BY <1>7, <2>2 DEF Neighbours
    <3>2. Matches(slots[t], side, price) => t \in ToSet(c)
      BY MembersMatch
    <3> QED BY <1>4, <1>7, <3>1, <3>2 DEF Matches
  <2> QED BY <2>1, <2>2
<1> QED BY <1>3, <1>4, <1>6, <1>7, Relisted, Zenon

(* The links of a list after unlinkOrderFromLevel spell it without its     *)
(* n-th order, be it first, last, only or in the middle.                   *)
LEMMA LeaveStrung ==
  ASSUME NEW slots, NEW c \in Seq(Slot), NEW side, NEW price, Strung(slots, c, side, price),
         NEW n \in DOMAIN c, NEW before, NEW after, before = Precedes(c, n), after = Follows(c, n),
         NEW r, Neighbours(r, slots, c[n], before, after, after, before),
         NEW new, Removed(new, c, n, Slot)
  PROVE  Strung(r, new, side, price)
<1>1. NoRepeats(c) /\ Nil \notin Slot /\ DOMAIN c = 1 .. Len(c)
      /\ n \in 1 .. Len(c) /\ \A k \in 1 .. Len(c) : c[k] \in Slot
  BY ASlotIsNoNil, LenProperties DEF Strung
<1>2. Len(c) \in Nat /\ n \in Nat /\ n >= 1 /\ n <= Len(c)
  BY <1>1, LenProperties
<1>3. /\ new \in Seq(Slot) /\ NoRepeats(new)
      /\ \A k \in 1 .. Len(c) - 1 : new[k] = IF k < n THEN c[k] ELSE c[k + 1]
  BY <1>1, RemovedList
<1>4. Len(new) = Len(c) - 1
  BY <1>1, RemovedList, Zenon
<1>6. DOMAIN new = 1 .. Len(c) - 1
  BY <1>3, <1>4, LenProperties
<1>7. /\ after = IF n = Len(c) THEN Nil ELSE c[n + 1]
      /\ before = IF n = 1 THEN Nil ELSE c[n - 1]
  BY DEF Follows, Precedes
<1>8. /\ n # Len(c) => n + 1 \in 1 .. Len(c)
      /\ n # 1 => n - 1 \in 1 .. Len(c)
  BY <1>2
<1>9. ASSUME NEW k \in 1 .. Len(c) - 1
      PROVE  /\ r[new[k]].active /\ r[new[k]].side = side /\ r[new[k]].price = price
             /\ r[new[k]].next = Follows(new, k) /\ r[new[k]].prev = Precedes(new, k)
  <2> DEFINE j == IF k < n THEN k ELSE k + 1
  <2>0. k \in Nat /\ k >= 1 /\ k <= Len(c) - 1
    BY <1>2
  <2>1. j \in 1 .. Len(c) /\ j # n
    BY <1>2, <2>0
  <2>11. new[k] = c[j]
    BY <1>3
  <2>2. c[j] \in Slot /\ c[j] # c[n] /\ c[j] # Nil
    <3> HIDE DEF j
    <3> QED BY <1>1, <2>1 DEF NoRepeats
  <2>3. /\ slots[c[j]].active /\ slots[c[j]].side = side /\ slots[c[j]].price = price
        /\ slots[c[j]].next = Follows(c, j) /\ slots[c[j]].prev = Precedes(c, j)
    <3> HIDE DEF j
    <3> QED BY <1>1, <2>1 DEF Strung
  <2>4. /\ r[c[j]].active /\ r[c[j]].side = side /\ r[c[j]].price = price
        /\ r[c[j]].next = IF c[j] = before THEN after ELSE Follows(c, j)
        /\ r[c[j]].prev = IF c[j] = after THEN before ELSE Precedes(c, j)
    <3> HIDE DEF j
    <3> QED BY <2>2, <2>3 DEF Neighbours
  <2>5. c[j] = before <=> j = n - 1
    <3> HIDE DEF j
    <3>1. CASE n = 1
      <4>1. before = Nil /\ j # n - 1
        BY <1>2, <1>7, <2>1, <3>1
      <4> QED BY <2>2, <4>1
    <3>2. CASE n # 1
      <4>1. before = c[n - 1] /\ n - 1 \in 1 .. Len(c)
        BY <1>7, <1>8, <3>2
      <4> QED BY <1>1, <2>1, <4>1 DEF NoRepeats
    <3> QED BY <3>1, <3>2
  <2>6. c[j] = after <=> j = n + 1
    <3> HIDE DEF j
    <3>1. CASE n = Len(c)
      <4>1. after = Nil /\ j # n + 1
        BY <1>2, <1>7, <2>1, <3>1
      <4> QED BY <2>2, <4>1
    <3>2. CASE n # Len(c)
      <4>1. after = c[n + 1] /\ n + 1 \in 1 .. Len(c)
        BY <1>7, <1>8, <3>2
      <4> QED BY <1>1, <2>1, <4>1 DEF NoRepeats
    <3> QED BY <3>1, <3>2
  <2>7. Follows(new, k) = IF k = Len(c) - 1 THEN Nil ELSE IF k + 1 < n THEN c[k + 1] ELSE c[k + 2]
    <3>1. k # Len(c) - 1 => k + 1 \in 1 .. Len(c) - 1 /\ (k + 1) + 1 = k + 2
      BY <1>2, <2>0
    <3>2. k # Len(c) - 1 => new[k + 1] = IF k + 1 < n THEN c[k + 1] ELSE c[k + 2]
      BY <1>3, <3>1
    <3> QED BY <1>4, <3>2 DEF Follows
  <2>8. Precedes(new, k) = IF k = 1 THEN Nil ELSE IF k - 1 < n THEN c[k - 1] ELSE c[k]
    <3>1. k # 1 => k - 1 \in 1 .. Len(c) - 1 /\ (k - 1) + 1 = k
      BY <1>2, <2>0
    <3>2. k # 1 => new[k - 1] = IF k - 1 < n THEN c[k - 1] ELSE c[k]
      BY <1>3, <3>1
    <3> QED BY <3>2 DEF Precedes
  <2>9. r[c[j]].next = Follows(new, k)
    <3>1. Follows(c, j) = IF j = Len(c) THEN Nil ELSE c[j + 1]
      BY DEF Follows
    <3>2. CASE k + 1 < n
      <4>1. j = k /\ j # n - 1 /\ k # Len(c) - 1 /\ j # Len(c)
        BY <1>2, <2>0, <3>2
      <4> HIDE DEF j
      <4> QED BY <2>4, <2>5, <2>7, <3>1, <3>2, <4>1
    <3>3. CASE k + 1 = n
      <4>1. j = n - 1 /\ (k = Len(c) - 1 <=> n = Len(c)) /\ k + 2 = n + 1 /\ ~ (k + 1 < n)
        BY <1>2, <2>0, <3>3
      <4> HIDE DEF j
      <4> QED BY <1>7, <2>4, <2>5, <2>7, <4>1
    <3>4. CASE k + 1 > n
      <4>1. j = k + 1 /\ j # n - 1 /\ k + 2 = j + 1 /\ ~ (k + 1 < n)
        BY <1>2, <2>0, <3>4
      <4>2. k = Len(c) - 1 <=> j = Len(c)
        BY <1>2, <2>0, <4>1
      <4> HIDE DEF j
      <4> QED BY <2>4, <2>5, <2>7, <3>1, <4>1, <4>2
    <3> QED BY <1>2, <2>0, <3>2, <3>3, <3>4
  <2>10. r[c[j]].prev = Precedes(new, k)
    <3>1. Precedes(c, j) = IF j = 1 THEN Nil ELSE c[j - 1]
      BY DEF Precedes
    <3>2. CASE k < n
      <4>1. j = k /\ j # n + 1 /\ k - 1 < n
        BY <1>2, <2>0, <3>2
      <4> HIDE DEF j
      <4> QED BY <2>4, <2>6, <2>8, <3>1, <4>1
    <3>3. CASE k = n
      <4>1. j = n + 1 /\ k - 1 < n
        BY <1>2, <2>0, <3>3
      <4> HIDE DEF j
      <4> QED BY <1>7, <2>4, <2>6, <2>8, <3>3, <4>1
    <3>4. CASE k > n
      <4>1. j = k + 1 /\ j # n + 1 /\ j # 1 /\ j - 1 = k /\ k # 1 /\ ~ (k - 1 < n)
        BY <1>2, <2>0, <3>4
      <4> HIDE DEF j
      <4> QED BY <2>4, <2>6, <2>8, <3>1, <4>1
    <3> QED BY <1>2, <2>0, <3>2, <3>3, <3>4
  <2> HIDE DEF j
  <2> QED BY <2>11, <2>4, <2>9, <2>10
<1> QED BY <1>3, <1>6, <1>9 DEF Strung

(* When the order in slot s leaves its list, the slots spell the lists     *)
(* without it.                                                             *)
LEMMA Leaves ==
  ASSUME NEW slots \in [Slot -> OrderSlot], NEW q \in Lists, Threaded(slots, q), Queued(slots, q),
         NEW side \in Sides, NEW price \in Prices, NEW c, c = q[side][price],
         NEW n \in DOMAIN c, NEW s, s = c[n],
         NEW r, Neighbours(r, slots, s, slots[s].prev, slots[s].next, slots[s].next, slots[s].prev),
         ~ r[s].active,
         NEW new, Removed(new, c, n, Slot),
         NEW p, p = [q EXCEPT ![side][price] = new]
  PROVE  Spelled(r, p)
<1>1. c \in Seq(Slot) /\ Strung(slots, c, side, price) /\ DOMAIN c = 1 .. Len(c) /\ Len(c) \in Nat /\ NoRepeats(c)
      /\ n \in 1 .. Len(c) /\ \A k \in 1 .. Len(c) : c[k] \in Slot /\ Matches(slots[c[k]], side, price)
  <2>1. c \in Seq(Slot) /\ Strung(slots, c, side, price)
    BY ListIs DEF Threaded
  <2> QED BY <2>1, LenProperties, ZenonT(30) DEF Strung, Matches
<1>2. slots[s].next = Follows(c, n) /\ slots[s].prev = Precedes(c, n) /\ s \in Slot /\ Matches(slots[s], side, price)
  BY <1>1, Zenon DEF Strung
<1>3. Strung(r, new, side, price)
  <2> DEFINE before == slots[s].prev
             after == slots[s].next
  <2>1. before = Precedes(c, n) /\ after = Follows(c, n) /\ Neighbours(r, slots, c[n], before, after, after, before)
    BY <1>2
  <2> HIDE DEF before, after
  <2> QED BY <1>1, <2>1, LeaveStrung, Zenon
<1>4. new \in Seq(Slot) /\ ToSet(new) = ToSet(c) \ {s} /\ r \in [Slot -> OrderSlot]
  BY <1>1, RemovedList DEF Neighbours
<1>5. \A t \in {slots[s].prev, slots[s].next} : t = Nil \/ (t \in Slot /\ Matches(slots[t], side, price))
  <2>1. /\ n # Len(c) => n + 1 \in 1 .. Len(c)
        /\ n # 1 => n - 1 \in 1 .. Len(c)
    <3>1. Len(c) \in Nat /\ n \in 1 .. Len(c)
      BY <1>1
    <3> QED BY <3>1
  <2> QED BY <1>1, <1>2, <2>1 DEF Follows, Precedes
<1>6. ASSUME NEW i \in Sides, NEW o \in Prices, i # side \/ o # price
      PROVE  Strung(r, q[i][o], i, o)
  <2> DEFINE d == q[i][o]
             before == slots[s].prev
             after == slots[s].next
  <2>1. d \in Seq(Slot) /\ Strung(slots, d, i, o)
    BY ListIs DEF Threaded
  <2>2. \A k \in DOMAIN d : d[k] \in Slot /\ Matches(slots[d[k]], i, o)
    BY <2>1, LenProperties, Zenon DEF Strung, Matches
  <2>3. \A k \in DOMAIN d : d[k] \notin {s, before, after}
    BY <1>2, <1>5, <1>6, <2>2, ASlotIsNoNil DEF Matches
  <2>4. Neighbours(r, slots, s, before, after, after, before)
    OBVIOUS
  <2> HIDE DEF d, before, after
  <2>5. Strung(r, d, i, o)
    BY <2>1, <2>3, <2>4, OtherStrung, Zenon
  <2> QED BY <2>5 DEF d
<1>7. ASSUME NEW t \in Slot, r[t].active
      PROVE  \/ Matches(r[t], side, price) /\ t \in ToSet(new)
             \/ /\ ~ Matches(r[t], side, price)
                /\ slots[t].active /\ slots[t].side = r[t].side /\ slots[t].price = r[t].price
  <2>1. t # s
    BY <1>7
  <2>2. slots[t].active /\ slots[t].side = r[t].side /\ slots[t].price = r[t].price
    BY <1>7, <2>1 DEF Neighbours
  <2>3. Matches(slots[t], side, price) => t \in ToSet(c)
    BY MembersMatch
  <2> QED BY <1>4, <1>7, <2>1, <2>2, <2>3 DEF Matches
<1> QED BY <1>3, <1>4, <1>6, <1>7, Relisted, Zenon

-----------------------------------------------------------------------------
(* The book *)

(* The slots of live orders. *)
ActiveIn(slots) == {s \in Slot : slots[s].active}

(* The free stack holds each inactive slot once, wiped. *)
Pooled(free, slots, count) ==
  /\ free \in Seq(Slot) /\ NoRepeats(free)
  /\ \A s \in Slot : s \in ToSet(free) <=> ~ slots[s].active
  /\ \A s \in Slot : ~ slots[s].active => slots[s] = EmptySlot
  /\ count = Cardinality(ActiveIn(slots))

(* Exactly the live orders have a quantity. *)
ActiveHaveQuantity(slots) == \A s \in Slot : slots[s].active <=> slots[s].quantity > 0

(* The storage stands for the lists q, though a level may be empty and the *)
(* best prices may not be current.                                         *)
Assembled(b, q) ==
  /\ b \in Book /\ ActiveHaveQuantity(b.slots) /\ Pooled(b.free, b.slots, b.orderCount)
  /\ q \in Lists /\ Threaded(b.slots, q) /\ Queued(b.slots, q)
  /\ \A side \in Sides : LevelsFit(side, b.levels[side], b.slots, q[side])
  /\ IndexHolds(b.index, b.slots)

(* The price of the first level. *)
TopPrice(levels) == IF levels = <<>> THEN InvalidPrice ELSE levels[1].price

(* The storage stands for the lists q: no level is empty, and the cached   *)
(* best prices are those of the first levels.                              *)
Represents(b, q) ==
  /\ Assembled(b, q)
  /\ \A side \in Sides : NoneEmpty(b.levels[side], q[side])
  /\ b.bestBid = TopPrice(b.levels["Buy"]) /\ b.bestAsk = TopPrice(b.levels["Sell"])

(* The types of a book's parts. *)
LEMMA BookFields ==
  ASSUME NEW b \in Book
  PROVE  /\ b.levels \in [Sides -> Seq(LevelSlot)] /\ b.slots \in [Slot -> OrderSlot]
         /\ b.free \in Seq(Slot) /\ b.orderCount \in Nat
         /\ b.bestBid \in PriceArguments /\ b.bestAsk \in PriceArguments
BY DEF Book

(* w is b with other levels on one side, and other slots. *)
Restocked(w, b, side, levels, slots) ==
  /\ w \in Book /\ w.levels[side] = levels /\ w.slots = slots
  /\ \A other \in Sides \ {side} : w.levels[other] = b.levels[other]
  /\ w.free = b.free /\ w.index = b.index /\ w.orderCount = b.orderCount
  /\ w.bestBid = b.bestBid /\ w.bestAsk = b.bestAsk

(* What writing a side's levels and the slots leaves of the book. *)
LEMMA LevelsAndSlots ==
  ASSUME NEW b \in Book, NEW side \in Sides, NEW levels \in Seq(LevelSlot), NEW slots \in [Slot -> OrderSlot],
         NEW w, w = [b EXCEPT !.levels[side] = levels, !.slots = slots]
  PROVE  Restocked(w, b, side, levels, slots)
BY DEF Book, Restocked

(* The parts of a storage that stands for lists. *)
LEMMA AssembledParts ==
  ASSUME NEW b, NEW q, Assembled(b, q)
  PROVE  /\ b \in Book /\ b.slots \in [Slot -> OrderSlot] /\ b.levels \in [Sides -> Seq(LevelSlot)]
         /\ b.free \in Seq(Slot)
         /\ q \in Lists /\ Threaded(b.slots, q) /\ Queued(b.slots, q)
         /\ \A side \in Sides :
              /\ LevelsFit(side, b.levels[side], b.slots, q[side])
              /\ b.levels[side] \in Seq(LevelSlot)
              /\ q[side] \in [Prices -> Seq(Slot)]
              /\ \A price \in Prices : q[side][price] \in Seq(Slot) /\ NoRepeats(q[side][price])
BY BookFields DEF Assembled, Threaded, Strung, Lists

(* The rest of the book does not ask where levels are. *)
LEMMA Reassembled ==
  ASSUME NEW b, NEW q, Assembled(b, q), NEW w \in Book, SameButPlace(w.slots, b.slots),
         w.free = b.free, w.index = b.index, w.orderCount = b.orderCount,
         \A side \in Sides : LevelsFit(side, w.levels[side], w.slots, q[side])
  PROVE  Assembled(w, q)
<1>1. /\ b.slots \in [Slot -> OrderSlot] /\ q \in Lists
      /\ Threaded(b.slots, q) /\ Queued(b.slots, q)
      /\ IndexHolds(b.index, b.slots) /\ Pooled(b.free, b.slots, b.orderCount) /\ ActiveHaveQuantity(b.slots)
  BY BookFields DEF Assembled
<1> DEFINE old == b.slots
           new == w.slots
<1>2. old \in [Slot -> OrderSlot] /\ SameButPlace(new, old)
  BY <1>1
<1>3. Threaded(new, q) /\ Queued(new, q)
  <2> HIDE DEF old, new
  <2>1. Threaded(old, q) /\ Queued(old, q)
    BY <1>1 DEF old
  <2> QED BY <1>1, <1>2, <2>1, SameKeeps
<1>4. IndexHolds(w.index, new)
  <2>1. IndexHolds(w.index, old)
    BY <1>1
  <2>2. \A t \in Slot : new[t].active = old[t].active /\ new[t].orderId = old[t].orderId
    BY <1>2 DEF SameButPlace
  <2> HIDE DEF old, new
  <2> QED BY <1>2, <2>1, <2>2, IndexKeeps
<1>5. Pooled(w.free, new, w.orderCount)
  <2>1. ActiveIn(new) = ActiveIn(old)
    BY <1>2 DEF SameButPlace, ActiveIn
  <2>2. \A s \in Slot : new[s].active = old[s].active /\ (~ old[s].active => new[s] = old[s])
    BY <1>2 DEF SameButPlace
  <2> QED BY <1>1, <2>1, <2>2 DEF Pooled
<1>6. ActiveHaveQuantity(new)
  BY <1>1, <1>2 DEF SameButPlace, ActiveHaveQuantity
<1> QED BY <1>1, <1>3, <1>4, <1>5, <1>6 DEF Assembled

(* A side of b other than `side` fits as before. *)
LEMMA OtherSideFits ==
  ASSUME NEW b, NEW q, Assembled(b, q), NEW side \in Sides, NEW other \in Sides \ {side},
         NEW r, SameButPlace(r, b.slots), \A s \in Slot : b.slots[s].side # side => r[s] = b.slots[s]
  PROVE  LevelsFit(other, b.levels[other], r, q[other])
<1> DEFINE slots == b.slots
           levels == b.levels[other]
           lists == q[other]
<1>1. /\ slots \in [Slot -> OrderSlot] /\ LevelsFit(other, levels, slots, lists)
      /\ lists \in [Prices -> Seq(Slot)]
      /\ \A price \in Prices : NoRepeats(lists[price])
  BY AssembledParts
<1>2. \A s \in Slot : r[s].active /\ r[s].side = other =>
           /\ slots[s].active /\ slots[s].side = other
           /\ slots[s].price = r[s].price /\ slots[s].levelIndex = r[s].levelIndex
  BY DEF SameButPlace
<1>3. \A price \in Prices : \A k \in DOMAIN lists[price] :
           r[lists[price][k]].quantity = slots[lists[price][k]].quantity
  <2>1. \A price \in Prices : \A k \in DOMAIN lists[price] : lists[price][k] \in Slot
    BY <1>1, LenProperties
  <2> HIDE DEF lists
  <2> QED BY <2>1 DEF SameButPlace
<1> HIDE DEF slots, levels, lists
<1>4. LevelsFit(other, levels, r, lists)
  BY <1>1, <1>2, <1>3, SameFit
<1> QED BY <1>4 DEF levels, lists

(* w is b with a level for the price, at position; only that level may be  *)
(* empty.                                                                  *)
Opened(w, b, q, side, price, position) ==
  /\ Assembled(w, q) /\ SameButPlace(w.slots, b.slots)
  /\ position \in DOMAIN w.levels[side] /\ w.levels[side][position].price = price
  /\ w.free = b.free /\ w.index = b.index /\ w.orderCount = b.orderCount
  /\ w.bestBid = b.bestBid /\ w.bestAsk = b.bestAsk
  /\ \A other \in Sides \ {side} : w.levels[other] = b.levels[other]
  /\ NoneEmpty(b.levels[side], q[side]) =>
       \A i \in DOMAIN w.levels[side] \ {position} : q[side][w.levels[side][i].price] # <<>>

(* findOrInsertLevel leaves a storage of the same lists with a level for   *)
(* the price, at the position findLevel then returns: levels it shifted    *)
(* have told their orders.                                                 *)
LEMMA WithLevelOpens ==
  ASSUME NEW b, NEW q, Assembled(b, q), NEW side \in Sides, NEW price \in Prices,
         FindLevel(b, side, price) # 0 \/ Len(b.levels[side]) < MaxLevels,
         NEW w, w = WithLevel(b, side, price), NEW position, position = FindLevel(w, side, price)
  PROVE  Opened(w, b, q, side, price, position)
<1>1. CASE FindLevel(b, side, price) # 0
  <2>1. w = b
    BY <1>1 DEF WithLevel
  <2>2. position \in DOMAIN b.levels[side] /\ b.levels[side][position].price = price
    BY <1>1, <2>1, FindLevelIs, AssembledParts
  <2>3. SameButPlace(b.slots, b.slots)
    BY AssembledParts DEF SameButPlace
  <2> QED BY <2>1, <2>2, <2>3 DEF Opened, NoneEmpty
<1>2. CASE FindLevel(b, side, price) = 0
  <2> DEFINE levels == b.levels[side]
             slots == b.slots
             worse == SelectInSeq(levels, LAMBDA level : ~Better(side, level.price, price))
             at == IF worse = 0 THEN Len(levels) + 1 ELSE worse
             shifted == InsertAt(levels, at, EmptyLevel(price))
             r == UpdateLevelLinks(slots, shifted, at + 1)
  <2>1. w = [b EXCEPT !.levels[side] = shifted, !.slots = r]
    BY <1>2 DEF WithLevel
  <2>2. /\ b \in Book /\ slots \in [Slot -> OrderSlot] /\ levels \in Seq(LevelSlot) /\ q \in Lists
        /\ Threaded(slots, q) /\ Queued(slots, q) /\ LevelsFit(side, levels, slots, q[side])
        /\ Sorted(side, levels) /\ Len(levels) < MaxLevels
    BY <1>2, AssembledParts DEF LevelsFit
  <2>3. \A i \in DOMAIN levels : levels[i].price # price
    BY <1>2, <2>2, FindLevelIs
  <2> HIDE DEF levels, slots
  <2>4. /\ at \in 1 .. Len(levels) + 1
        /\ \A i \in DOMAIN levels : i < at => Better(side, levels[i].price, price)
        /\ \A i \in DOMAIN levels : i >= at => Better(side, price, levels[i].price)
    <3>1. worse = LET i == {j \in 1 .. Len(levels) : ~ Better(side, levels[j].price, price)}
                  IN  IF i # {} THEN Min(i) ELSE 0
      BY DEF SelectInSeq
    <3> HIDE DEF worse
    <3>2. Between(side, levels, at, price)
      BY <2>2, <2>3, <3>1, InsertsBetween
    <3> QED BY <3>2 DEF Between
  <2> HIDE DEF worse, at
  <2>5. /\ LevelsFit(side, shifted, r, q[side]) /\ SameButPlace(r, slots)
        /\ \A s \in Slot : slots[s].side # side => r[s] = slots[s]
        /\ at \in DOMAIN shifted /\ shifted[at].price = price
        /\ \A i \in DOMAIN shifted \ {at} : \E j \in DOMAIN levels : shifted[i] = levels[j]
    BY <2>2, <2>3, <2>4, LevelOpened
  <2> HIDE DEF shifted, r
  <2>6. shifted \in Seq(LevelSlot) /\ r \in [Slot -> OrderSlot]
    BY <2>5 DEF LevelsFit, SameButPlace
  <2>7. /\ w \in Book /\ w.levels[side] = shifted /\ w.slots = r
        /\ \A other \in Sides \ {side} : w.levels[other] = b.levels[other]
        /\ w.free = b.free /\ w.index = b.index /\ w.orderCount = b.orderCount
        /\ w.bestBid = b.bestBid /\ w.bestAsk = b.bestAsk
    <3>1. Restocked(w, b, side, shifted, r)
      BY <2>1, <2>2, <2>6, LevelsAndSlots
    <3> QED BY <3>1 DEF Restocked
  <2>8. Assembled(w, q)
    <3>1. \A other \in Sides : LevelsFit(other, w.levels[other], w.slots, q[other])
      BY <2>5, <2>7, OtherSideFits DEF slots
    <3> QED BY <2>5, <2>7, <3>1, Reassembled DEF slots
  <2>9. position = at
    <3>1. w.levels[side] \in Seq(LevelSlot) /\ Sorted(side, shifted)
      BY <2>5, <2>6, <2>7 DEF LevelsFit
    <3>2. /\ position = 0 => \A j \in DOMAIN shifted : shifted[j].price # price
          /\ position # 0 => position \in DOMAIN shifted /\ shifted[position].price = price
      BY <2>7, <3>1, FindLevelIs
    <3>3. position \in DOMAIN shifted /\ shifted[position].price = price
      BY <2>5, <3>2
    <3> QED BY <2>5, <2>6, <3>1, <3>3, PricesDiffer
  <2>10. NoneEmpty(levels, q[side]) => \A i \in DOMAIN shifted \ {at} : q[side][shifted[i].price] # <<>>
    BY <2>5 DEF NoneEmpty
  <2> QED BY <2>5, <2>7, <2>8, <2>9, <2>10 DEF Opened, levels, slots
<1> QED BY <1>1, <1>2

(* w is b without the level at position if that is empty. *)
Closed(w, b, q, side) ==
  /\ Assembled(w, q) /\ SameButPlace(w.slots, b.slots)
  /\ NoneEmpty(w.levels[side], q[side])
  /\ \A other \in Sides \ {side} : w.levels[other] = b.levels[other]
  /\ w.bestBid = b.bestBid /\ w.bestAsk = b.bestAsk

(* removeLevelIfEmpty leaves a storage of the same lists without the empty *)
(* level: levels it shifted have told their orders.                        *)
LEMMA RemoveLevelCloses ==
  ASSUME NEW b, NEW q, Assembled(b, q), NEW side \in Sides, NEW position \in DOMAIN b.levels[side],
         \A i \in DOMAIN b.levels[side] \ {position} : q[side][b.levels[side][i].price] # <<>>,
         NEW w, w = RemoveLevelIfEmpty(b, side, position)
  PROVE  Closed(w, b, q, side)
<1> DEFINE levels == b.levels[side]
           slots == b.slots
           c == q[side][levels[position].price]
           closed == RemoveAt(levels, position)
           r == UpdateLevelLinks(slots, closed, position)
<1>1. /\ b \in Book /\ slots \in [Slot -> OrderSlot] /\ levels \in Seq(LevelSlot) /\ q \in Lists
      /\ Threaded(slots, q) /\ Queued(slots, q) /\ LevelsFit(side, levels, slots, q[side])
  BY AssembledParts
<1>2. levels[position].orders = Len(c) /\ c \in Seq(Slot)
  <2>1. levels[position].price \in Prices
    BY <1>1, LevelSlots
  <2> QED BY <1>1, <2>1 DEF LevelsFit, Describes, Lists
<1>3. CASE levels[position].orders # 0
  <2>1. w = b
    BY <1>3 DEF RemoveLevelIfEmpty
  <2>2. c # <<>>
    BY <1>2, <1>3, EmptyList
  <2>3. SameButPlace(slots, slots)
    BY <1>1 DEF SameButPlace
  <2> QED BY <2>1, <2>2, <2>3 DEF Closed, NoneEmpty
<1>4. CASE levels[position].orders = 0
  <2>1. w = [b EXCEPT !.levels[side] = closed, !.slots = r]
    BY <1>4 DEF RemoveLevelIfEmpty
  <2>2. c = <<>>
    BY <1>2, <1>4, EmptyList
  <2>3. \A i \in DOMAIN levels \ {position} : q[side][levels[i].price] # <<>>
    OBVIOUS
  <2> HIDE DEF levels, slots
  <2>5. /\ LevelsFit(side, closed, r, q[side]) /\ SameButPlace(r, slots)
        /\ \A s \in Slot : slots[s].side # side => r[s] = slots[s]
        /\ \A i \in DOMAIN closed : \E j \in DOMAIN levels \ {position} : closed[i] = levels[j]
    <3>1. position \in DOMAIN levels
      BY DEF levels
    <3> QED BY <1>1, <2>2, <3>1, LevelClosed
  <2> HIDE DEF closed, r
  <2>6. closed \in Seq(LevelSlot) /\ r \in [Slot -> OrderSlot]
    BY <2>5 DEF LevelsFit, SameButPlace
  <2>7. Restocked(w, b, side, closed, r)
    BY <1>1, <2>1, <2>6, LevelsAndSlots
  <2>8. Assembled(w, q)
    <3>1. \A other \in Sides : LevelsFit(other, w.levels[other], w.slots, q[other])
      BY <2>5, <2>7, OtherSideFits DEF slots, Restocked
    <3> QED BY <2>5, <2>7, <3>1, Reassembled DEF slots, Restocked
  <2>9. NoneEmpty(closed, q[side])
    BY <2>3, <2>5 DEF NoneEmpty
  <2> QED BY <2>5, <2>7, <2>8, <2>9 DEF Closed, Restocked, slots
<1> QED BY <1>3, <1>4

(* updateBBO of the one side that changed makes both cached best prices    *)
(* current.                                                                *)
LEMMA UpdateBBOIs ==
  ASSUME NEW b, NEW q, Assembled(b, q), NEW side \in Sides,
         \A other \in Sides : NoneEmpty(b.levels[other], q[other]),
         side = "Buy" => b.bestAsk = TopPrice(b.levels["Sell"]),
         side = "Sell" => b.bestBid = TopPrice(b.levels["Buy"])
  PROVE  Represents(UpdateBBO(b, side), q)
<1> DEFINE w == UpdateBBO(b, side)
           top == TopPrice(b.levels[side])
<1>1. b \in Book /\ b.levels[side] \in Seq(LevelSlot)
  BY AssembledParts
<1>2. top \in PriceArguments
  <2> DEFINE levels == b.levels[side]
  <2>1. CASE levels = <<>>
    BY <2>1 DEF TopPrice, PriceArguments
  <2>2. CASE levels # <<>>
    <3>1. 1 \in DOMAIN levels
      <4> HIDE DEF levels
      <4> QED BY <1>1, <2>2, EmptyList, LenProperties DEF levels
    <3>2. levels[1].price \in Prices
      <4>1. levels \in Seq(LevelSlot)
        BY <1>1
      <4> HIDE DEF levels
      <4> QED BY <3>1, <4>1, LevelSlots
    <3> QED BY <2>2, <3>2 DEF TopPrice, PriceArguments
  <2> QED BY <2>1, <2>2
<1>3. w = IF side = "Buy" THEN [b EXCEPT !.bestBid = top] ELSE [b EXCEPT !.bestAsk = top]
  BY DEF UpdateBBO, TopPrice
<1>4. /\ w \in Book /\ w.levels = b.levels /\ w.slots = b.slots /\ w.free = b.free /\ w.index = b.index
      /\ w.orderCount = b.orderCount
      /\ w.bestBid = IF side = "Buy" THEN top ELSE b.bestBid
      /\ w.bestAsk = IF side = "Buy" THEN b.bestAsk ELSE top
  <2> HIDE DEF w, top
  <2>1. CASE side = "Buy"
    <3>1. w = [b EXCEPT !.bestBid = top]
      BY <1>3, <2>1
    <3> QED BY <1>1, <1>2, <2>1, <3>1 DEF Book
  <2>2. CASE side # "Buy"
    <3>1. w = [b EXCEPT !.bestAsk = top]
      BY <1>3, <2>2
    <3> QED BY <1>1, <1>2, <2>2, <3>1 DEF Book
  <2> QED BY <2>1, <2>2
<1> HIDE DEF w
<1>5. Assembled(w, q)
  BY <1>4 DEF Assembled
<1>6. w.bestBid = TopPrice(w.levels["Buy"]) /\ w.bestAsk = TopPrice(w.levels["Sell"])
  BY <1>4 DEF Sides
<1>7. Represents(w, q)
  BY <1>4, <1>5, <1>6 DEF Represents
<1> QED BY <1>7 DEF w

(* One level changed, with the list it describes; the other lists weigh    *)
(* what they did.                                                          *)
LevelChange(side, levels, slots, lists, position, level, new, r, changed, after) ==
  /\ side \in Sides /\ lists \in [Prices -> Seq(Slot)] /\ LevelsFit(side, levels, slots, lists)
  /\ position \in DOMAIN levels /\ level \in LevelSlot /\ level.price = levels[position].price
  /\ new \in Seq(Slot) /\ Describes(level, r, new) /\ Placed(side, levels, r)
  /\ \A o \in Prices \ {level.price} : Weight(r, ToSet(lists[o])) = Weight(slots, ToSet(lists[o]))
  /\ changed = [levels EXCEPT ![position] = level]
  /\ after = [lists EXCEPT ![level.price] = new]

(* A side's levels fit again when one level and its list changed together. *)
LEMMA LevelChanged ==
  ASSUME NEW side, NEW levels, NEW slots, NEW lists, NEW position, NEW level, NEW new, NEW r,
         NEW changed, NEW after,
         LevelChange(side, levels, slots, lists, position, level, new, r, changed, after)
  PROVE  LevelsFit(side, changed, r, after)
<1>0. /\ side \in Sides /\ lists \in [Prices -> Seq(Slot)] /\ LevelsFit(side, levels, slots, lists)
      /\ position \in DOMAIN levels /\ level \in LevelSlot /\ level.price = levels[position].price
      /\ new \in Seq(Slot) /\ Describes(level, r, new) /\ Placed(side, levels, r)
      /\ \A o \in Prices \ {level.price} : Weight(r, ToSet(lists[o])) = Weight(slots, ToSet(lists[o]))
      /\ changed = [levels EXCEPT ![position] = level]
      /\ after = [lists EXCEPT ![level.price] = new]
  BY DEF LevelChange
<1> USE <1>0
<1>1. /\ levels \in Seq(LevelSlot) /\ Len(levels) \in Nat /\ DOMAIN levels = 1 .. Len(levels)
      /\ \A i \in DOMAIN levels : levels[i].price \in Prices
      /\ Sorted(side, levels)
  BY LevelSlots DEF LevelsFit
<1>2. /\ changed \in Seq(LevelSlot) /\ Len(changed) = Len(levels)
      /\ \A j \in DOMAIN levels : changed[j] = IF j = position THEN level ELSE levels[j]
  BY <1>1, ExceptSeq
<1>3. DOMAIN changed = DOMAIN levels /\ \A i \in DOMAIN levels : changed[i].price = levels[i].price
  BY <1>1, <1>2
<1>4. Sorted(side, changed)
  BY <1>1, <1>3 DEF Sorted
<1>5. Placed(side, changed, r)
  BY <1>3 DEF Placed
<1>6. ASSUME NEW i \in DOMAIN changed
      PROVE  Describes(changed[i], r, after[changed[i].price])
  <2>1. CASE i = position
    <3>1. changed[i] = level /\ after[level.price] = new
      BY <1>1, <1>2, <2>1
    <3> QED BY <3>1
  <2>2. CASE i # position
    <3>1. changed[i] = levels[i] /\ levels[i].price # level.price /\ levels[i].price \in Prices
      BY <1>1, <1>2, <1>3, <2>2, PricesDiffer
    <3>2. after[levels[i].price] = lists[levels[i].price]
      BY <3>1
    <3>3. Describes(levels[i], slots, lists[levels[i].price])
      BY <1>3 DEF LevelsFit
    <3>4. Weight(r, ToSet(lists[levels[i].price])) = Weight(slots, ToSet(lists[levels[i].price]))
      BY <3>1
    <3> QED BY <3>1, <3>2, <3>3, <3>4 DEF Describes
  <2> QED BY <2>1, <2>2
<1>7. Len(changed) <= MaxLevels
  BY <1>2 DEF LevelsFit
<1> QED BY <1>2, <1>4, <1>5, <1>6, <1>7 DEF LevelsFit

-----------------------------------------------------------------------------
(* Levels and slots that are written *)

(* What an order's slot holds. *)
IsOrder(slot, id, side, price, quantity, position, prev, next) ==
  /\ slot \in OrderSlot
  /\ slot.orderId = id /\ slot.side = side /\ slot.price = price /\ slot.quantity = quantity
  /\ slot.levelIndex = position /\ slot.active /\ slot.prev = prev /\ slot.next = next

(* What a level holds. *)
IsLevel(level, price, total, orders, first, last) ==
  /\ level \in LevelSlot
  /\ level.price = price /\ level.totalQty = total /\ level.orders = orders
  /\ level.first = first /\ level.last = last

(* A wiped slot is a slot with no live order and no links. *)
LEMMA EmptySlotIs == EmptySlot \in OrderSlot /\ EmptySlot.next = Nil /\ EmptySlot.prev = Nil /\ ~ EmptySlot.active
                     /\ EmptySlot.quantity = 0
BY BookAssumption DEF EmptySlot, OrderSlot, Sides, PriceArguments

(* The book with the order written into slot s, before it is linked        *)
(* (Place's first stage).                                                  *)
Stored(w, s, id, side, price, quantity, position) ==
  [w EXCEPT !.free = SubSeq(@, 1, Len(@) - 1),
            !.slots[s] = [EmptySlot EXCEPT !.orderId = id, !.side = side, !.price = price,
                            !.quantity = quantity, !.levelIndex = position, !.active = TRUE]]

(* What that book has. *)
IsStored(stored, w, s, id, side, price, quantity, position) ==
  /\ stored \in Book
  /\ stored.levels = w.levels /\ stored.free = SubSeq(w.free, 1, Len(w.free) - 1)
  /\ stored.index = w.index /\ stored.orderCount = w.orderCount
  /\ stored.bestBid = w.bestBid /\ stored.bestAsk = w.bestAsk
  /\ IsOrder(stored.slots[s], id, side, price, quantity, position, Nil, Nil)
  /\ \A t \in Slot \ {s} : stored.slots[t] = w.slots[t]

(* A new order takes the slot on top of the stack. *)
LEMMA StoredIs ==
  ASSUME NEW w \in Book, NEW s \in Slot, w.free # <<>>,
         NEW id \in OrderIds, NEW side \in Sides, NEW price \in Prices, NEW quantity \in Nat,
         NEW position \in 1 .. MaxLevels
  PROVE  IsStored(Stored(w, s, id, side, price, quantity, position), w, s, id, side, price, quantity, position)
<1> DEFINE new == [EmptySlot EXCEPT !.orderId = id, !.side = side, !.price = price,
                     !.quantity = quantity, !.levelIndex = position, !.active = TRUE]
           front == SubSeq(w.free, 1, Len(w.free) - 1)
           stored == Stored(w, s, id, side, price, quantity, position)
<1>1. IsOrder(new, id, side, price, quantity, position, Nil, Nil)
  <2>1. EmptySlot \in OrderSlot /\ EmptySlot.next = Nil /\ EmptySlot.prev = Nil
    BY EmptySlotIs
  <2>2. new \in OrderSlot
    BY <2>1 DEF OrderSlot, PriceArguments
  <2>3. new.orderId = id /\ new.side = side /\ new.price = price /\ new.quantity = quantity
    BY <2>1 DEF OrderSlot
  <2>4. new.levelIndex = position /\ new.active /\ new.prev = Nil /\ new.next = Nil
    BY <2>1 DEF OrderSlot
  <2> HIDE DEF new
  <2> QED BY <2>2, <2>3, <2>4 DEF IsOrder
<1>2. stored = [w EXCEPT !.free = SubSeq(@, 1, Len(@) - 1), !.slots[s] = new]
  BY DEF Stored
<1> HIDE DEF new, stored
<1>3. /\ stored.levels = w.levels /\ stored.free = front /\ stored.index = w.index
      /\ stored.orderCount = w.orderCount /\ stored.bestBid = w.bestBid /\ stored.bestAsk = w.bestAsk
      /\ stored.slots = [w.slots EXCEPT ![s] = new]
  BY <1>2 DEF Book
<1>4. front \in Seq(Slot)
  <2>1. w.free \in Seq(Slot) /\ Len(w.free) \in Nat /\ \A k \in 1 .. Len(w.free) - 1 : w.free[k] \in Slot
    BY BookFields, LenProperties
  <2> QED BY <2>1, SubSeqProperties
<1>5. stored \in Book
  <2>1. stored = [w EXCEPT !.free = front, !.slots[s] = new]
    BY <1>2
  <2>2. new \in OrderSlot
    BY <1>1 DEF IsOrder
  <2> HIDE DEF front
  <2> QED BY <1>4, <2>1, <2>2 DEF Book
<1>6. w.slots \in [Slot -> OrderSlot]
  BY BookFields
<1>7. stored.slots[s] = new /\ \A t \in Slot \ {s} : stored.slots[t] = w.slots[t]
  BY <1>3, <1>6
<1> QED BY <1>1, <1>3, <1>5, <1>7 DEF IsStored, stored

(* x has the parts of a book. *)
HasParts(x) ==
  /\ DOMAIN x = {"levels", "slots", "free", "index", "orderCount", "bestBid", "bestAsk"}
  /\ x = [part \in DOMAIN x |-> x[part]]

(* A record with the parts of a book, of their types, is one. *)
LEMMA WholeBook ==
  ASSUME NEW b \in Book, NEW x, HasParts(x),
         x.levels \in [Sides -> Seq(LevelSlot)], x.slots \in [Slot -> OrderSlot],
         x.free = b.free, x.index = b.index, x.orderCount = b.orderCount,
         x.bestBid = b.bestBid, x.bestAsk = b.bestAsk
  PROVE  x \in Book
<1>2. b.free \in Seq(Slot) /\ b.orderCount \in Nat /\ b.bestBid \in PriceArguments /\ b.bestAsk \in PriceArguments
      /\ b.index \in [Index!Bucket -> [orderId : OrderIds \cup {Nil}, slot : Slot \cup {Nil}]]
  BY DEF Book
<1>3. x = [levels |-> x.levels, slots |-> x.slots, free |-> x.free, index |-> x.index,
           orderCount |-> x.orderCount, bestBid |-> x.bestBid, bestAsk |-> x.bestAsk]
  BY DEF HasParts
<1> QED BY <1>2, <1>3 DEF Book

(* x and b agree on all but levels and slots. *)
SameRest(x, b) ==
  /\ x.free = b.free /\ x.index = b.index /\ x.orderCount = b.orderCount
  /\ x.bestBid = b.bestBid /\ x.bestAsk = b.bestAsk

(* x is b with one level written, and slots. *)
LevelWritten(x, b, side, position, level, slots) ==
  /\ x \in Book /\ x.slots = slots
  /\ x.levels[side] = [b.levels[side] EXCEPT ![position] = level]
  /\ x.levels[side][position] = level
  /\ \A other \in Sides \ {side} : x.levels[other] = b.levels[other]
  /\ SameRest(x, b)

(* What writing one level and the slots leaves of the book. *)
LEMMA WritesLevelAndSlots ==
  ASSUME NEW b \in Book, NEW side \in Sides, NEW position \in DOMAIN b.levels[side],
         NEW level \in LevelSlot, NEW slots \in [Slot -> OrderSlot],
         NEW x, x = [b EXCEPT !.slots = slots, !.levels[side][position] = level]
  PROVE  LevelWritten(x, b, side, position, level, slots)
<1> DEFINE changed == [b.levels[side] EXCEPT ![position] = level]
<1>1. b.levels \in [Sides -> Seq(LevelSlot)] /\ b.levels[side] \in Seq(LevelSlot)
  BY BookFields
<1>2. changed \in Seq(LevelSlot)
  BY <1>1, ExceptSeq
<1>3. /\ x.slots = slots /\ x.free = b.free /\ x.index = b.index /\ x.orderCount = b.orderCount
      /\ x.bestBid = b.bestBid /\ x.bestAsk = b.bestAsk
  BY DEF Book
<1>4. x.levels = [b.levels EXCEPT ![side] = changed]
  BY <1>1 DEF Book
<1>5. HasParts(x)
  BY DEF HasParts, Book
<1>6. changed[position] = level
  OBVIOUS
<1> HIDE DEF changed
<1>7. x.levels \in [Sides -> Seq(LevelSlot)]
  BY <1>1, <1>2, <1>4
<1>8. x.slots \in [Slot -> OrderSlot]
  BY <1>3
<1>9. x \in Book
  BY <1>3, <1>5, <1>7, <1>8, WholeBook
<1>10. x.levels[side] = changed /\ \A other \in Sides \ {side} : x.levels[other] = b.levels[other]
  BY <1>1, <1>4
<1> QED BY <1>3, <1>6, <1>9, <1>10 DEF LevelWritten, SameRest, changed

(* What writing one level leaves of the book. *)
LEMMA WritesLevel ==
  ASSUME NEW b \in Book, NEW side \in Sides, NEW position \in DOMAIN b.levels[side],
         NEW level \in LevelSlot,
         NEW x, x = [b EXCEPT !.levels[side][position] = level]
  PROVE  LevelWritten(x, b, side, position, level, b.slots)
<1> DEFINE changed == [b.levels[side] EXCEPT ![position] = level]
<1>1. b.levels \in [Sides -> Seq(LevelSlot)] /\ b.levels[side] \in Seq(LevelSlot)
      /\ b.slots \in [Slot -> OrderSlot]
  BY BookFields
<1>2. changed \in Seq(LevelSlot)
  BY <1>1, ExceptSeq
<1>3. /\ x.slots = b.slots /\ x.free = b.free /\ x.index = b.index /\ x.orderCount = b.orderCount
      /\ x.bestBid = b.bestBid /\ x.bestAsk = b.bestAsk
  BY DEF Book
<1>4. x.levels = [b.levels EXCEPT ![side] = changed]
  BY <1>1 DEF Book
<1>5. HasParts(x)
  BY DEF HasParts, Book
<1>6. changed[position] = level
  OBVIOUS
<1> HIDE DEF changed
<1>7. x.levels \in [Sides -> Seq(LevelSlot)]
  BY <1>1, <1>2, <1>4
<1>8. x.slots \in [Slot -> OrderSlot]
  BY <1>1, <1>3
<1>9. x \in Book
  BY <1>3, <1>5, <1>7, <1>8, WholeBook
<1>10. x.levels[side] = changed /\ \A other \in Sides \ {side} : x.levels[other] = b.levels[other]
  BY <1>1, <1>4
<1> QED BY <1>3, <1>6, <1>9, <1>10 DEF LevelWritten, SameRest, changed

(* What the four changes of a level write: joining at its end, leaving it, *)
(* and its sums going up and down; a sum that is large enough goes down    *)
(* without being clamped.                                                  *)
LEMMA LevelEdits ==
  ASSUME NEW level \in LevelSlot
  PROVE  /\ \A s \in Slot : IsLevel(EndedBy(level, s), level.price, level.totalQty, level.orders,
                                   IF level.last = Nil THEN s ELSE level.first, s)
         /\ \A gone \in OrderSlot :
              IsLevel(LeftBy(level, gone), level.price, level.totalQty, level.orders,
                      IF gone.prev = Nil THEN gone.next ELSE level.first,
                      IF gone.next = Nil THEN gone.prev ELSE level.last)
         /\ \A quantity, orders \in Int :
              level.totalQty + quantity \in Nat /\ level.orders + orders \in Nat =>
                IsLevel(Increased(level, quantity, orders), level.price, level.totalQty + quantity,
                        level.orders + orders, level.first, level.last)
         /\ \A quantity \in Nat : level.totalQty >= quantity /\ level.orders > 0 =>
              IsLevel(Decreased(level, quantity), level.price, level.totalQty - quantity,
                      level.orders - 1, level.first, level.last)
<1>1. level.first \in Slot \cup {Nil} /\ level.last \in Slot \cup {Nil} /\ level.totalQty \in Nat /\ level.orders \in Nat
  BY DEF LevelSlot
<1>2. ASSUME NEW s \in Slot
      PROVE  IsLevel(EndedBy(level, s), level.price, level.totalQty, level.orders,
                     IF level.last = Nil THEN s ELSE level.first, s)
  BY <1>1 DEF EndedBy, IsLevel, LevelSlot
<1>3. ASSUME NEW gone \in OrderSlot
      PROVE  IsLevel(LeftBy(level, gone), level.price, level.totalQty, level.orders,
                     IF gone.prev = Nil THEN gone.next ELSE level.first,
                     IF gone.next = Nil THEN gone.prev ELSE level.last)
  <2> DEFINE first == IF gone.prev = Nil THEN gone.next ELSE level.first
             last == IF gone.next = Nil THEN gone.prev ELSE level.last
  <2>1. first \in Slot \cup {Nil} /\ last \in Slot \cup {Nil}
    BY <1>1 DEF OrderSlot
  <2>2. LeftBy(level, gone) = [level EXCEPT !.first = first, !.last = last]
    BY DEF LeftBy
  <2> HIDE DEF first, last
  <2>3. IsLevel(LeftBy(level, gone), level.price, level.totalQty, level.orders, first, last)
    BY <2>1, <2>2 DEF IsLevel, LevelSlot
  <2> QED BY <2>3 DEF first, last
<1>4. ASSUME NEW quantity \in Int, NEW orders \in Int, level.totalQty + quantity \in Nat, level.orders + orders \in Nat
      PROVE  IsLevel(Increased(level, quantity, orders), level.price, level.totalQty + quantity,
                     level.orders + orders, level.first, level.last)
  BY <1>1, <1>4 DEF Increased, IsLevel, LevelSlot
<1>5. ASSUME NEW quantity \in Nat, level.totalQty >= quantity, level.orders > 0
      PROVE  IsLevel(Decreased(level, quantity), level.price, level.totalQty - quantity,
                     level.orders - 1, level.first, level.last)
  <2> DEFINE total == level.totalQty - quantity
             orders == level.orders - 1
  <2>1. total \in Nat /\ orders \in Nat
    BY <1>1, <1>5
  <2>2. Decreased(level, quantity) = [level EXCEPT !.totalQty = total, !.orders = orders]
    BY <1>1, <1>5 DEF Decreased
  <2> HIDE DEF total, orders
  <2>3. IsLevel(Decreased(level, quantity), level.price, total, orders, level.first, level.last)
    BY <2>1, <2>2 DEF IsLevel, LevelSlot
  <2> QED BY <2>3 DEF total, orders
<1> QED BY <1>2, <1>3, <1>4, <1>5

-----------------------------------------------------------------------------
(* Links and weights that change *)

(* s is behind last in r, and says of its order what it said in slots. *)
Joined(r, slots, s, last) ==
  /\ Neighbours(r, slots, s, last, Nil, s, Nil)
  /\ r[s].orderId = slots[s].orderId /\ r[s].side = slots[s].side /\ r[s].price = slots[s].price
  /\ r[s].quantity = slots[s].quantity /\ r[s].active = slots[s].active
  /\ r[s].levelIndex = slots[s].levelIndex /\ r[s].prev = last /\ r[s].next = Nil

(* When s joins behind last only last's link forward moves. *)
LEMMA EndLinks ==
  ASSUME NEW slots \in [Slot -> OrderSlot], NEW last \in Slot \cup {Nil}, NEW s \in Slot, last # s,
         NEW r, r = LinkedAtEnd(slots, last, s)
  PROVE  Joined(r, slots, s, last)
<1>1. Nil \notin Slot
  BY ASlotIsNoNil
<1>2. ASSUME NEW slot \in OrderSlot, NEW new, new = [slot EXCEPT !.prev = last, !.next = Nil]
      PROVE  /\ new \in OrderSlot /\ new.orderId = slot.orderId /\ new.side = slot.side
             /\ new.price = slot.price /\ new.quantity = slot.quantity /\ new.active = slot.active
             /\ new.levelIndex = slot.levelIndex /\ new.prev = last /\ new.next = Nil
  BY <1>2 DEF OrderSlot
<1>3. ASSUME NEW slot \in OrderSlot, NEW new, new = [slot EXCEPT !.next = s]
      PROVE  /\ new \in OrderSlot /\ new.orderId = slot.orderId /\ new.side = slot.side
             /\ new.price = slot.price /\ new.quantity = slot.quantity /\ new.active = slot.active
             /\ new.levelIndex = slot.levelIndex /\ new.prev = slot.prev /\ new.next = s
  BY <1>3 DEF OrderSlot
<1>4. /\ r[s] = [slots[s] EXCEPT !.prev = last, !.next = Nil]
      /\ \A t \in Slot \ {s} : r[t] = IF t = last THEN [slots[t] EXCEPT !.next = s] ELSE slots[t]
      /\ r = [t \in Slot |-> r[t]]
  BY DEF LinkedAtEnd
<1>5. slots[s] \in OrderSlot
  OBVIOUS
<1>6. /\ r[s] \in OrderSlot /\ r[s].orderId = slots[s].orderId /\ r[s].side = slots[s].side
      /\ r[s].price = slots[s].price /\ r[s].quantity = slots[s].quantity /\ r[s].active = slots[s].active
      /\ r[s].levelIndex = slots[s].levelIndex /\ r[s].prev = last /\ r[s].next = Nil
  BY <1>2, <1>4, <1>5
<1>7. ASSUME NEW t \in Slot \ {s}
      PROVE  /\ r[t] \in OrderSlot
             /\ r[t].orderId = slots[t].orderId /\ r[t].side = slots[t].side /\ r[t].price = slots[t].price
             /\ r[t].quantity = slots[t].quantity /\ r[t].active = slots[t].active
             /\ r[t].levelIndex = slots[t].levelIndex
             /\ r[t].next = (IF t = last THEN s ELSE slots[t].next)
             /\ r[t].prev = (IF t = Nil THEN Nil ELSE slots[t].prev)
  <2>1. slots[t] \in OrderSlot /\ t # Nil
    BY <1>1
  <2>2. CASE t = last
    <3>1. r[t] = [slots[t] EXCEPT !.next = s]
      BY <1>4, <2>2
    <3>2. /\ r[t] \in OrderSlot
          /\ r[t].orderId = slots[t].orderId /\ r[t].side = slots[t].side /\ r[t].price = slots[t].price
          /\ r[t].quantity = slots[t].quantity /\ r[t].active = slots[t].active
          /\ r[t].levelIndex = slots[t].levelIndex /\ r[t].prev = slots[t].prev /\ r[t].next = s
      <4> DEFINE slot == slots[t]
                 new == r[t]
      <4>1. slot \in OrderSlot /\ new = [slot EXCEPT !.next = s]
        BY <2>1, <3>1
      <4> HIDE DEF slot, new
      <4>2. /\ new \in OrderSlot /\ new.orderId = slot.orderId /\ new.side = slot.side
            /\ new.price = slot.price /\ new.quantity = slot.quantity /\ new.active = slot.active
            /\ new.levelIndex = slot.levelIndex /\ new.prev = slot.prev /\ new.next = s
        BY <1>3, <4>1
      <4> QED BY <4>2 DEF slot, new
    <3> QED BY <2>1, <2>2, <3>2
  <2>3. CASE t # last
    BY <1>4, <2>1, <2>3
  <2> QED BY <2>2, <2>3
<1>8. r \in [Slot -> OrderSlot]
  BY <1>4, <1>6, <1>7
<1> QED BY <1>6, <1>7, <1>8 DEF Neighbours, Joined

(* When s leaves only its neighbours' links to it move. *)
LEMMA LinksClose ==
  ASSUME NEW slots \in [Slot -> OrderSlot], NEW s \in Slot, NEW r, r = Unlinked(slots, s)
  PROVE  Neighbours(r, slots, s, slots[s].prev, slots[s].next, slots[s].next, slots[s].prev)
<1> DEFINE prev == slots[s].prev
           next == slots[s].next
<1>1. prev \in Slot \cup {Nil} /\ next \in Slot \cup {Nil}
  BY DEF OrderSlot
<1>2. /\ \A t \in Slot : r[t] = [slots[t] EXCEPT
           !.next = IF t = s THEN Nil ELSE IF t = prev THEN next ELSE @,
           !.prev = IF t = s THEN Nil ELSE IF t = next THEN prev ELSE @]
      /\ r = [t \in Slot |-> r[t]]
  BY DEF Unlinked
<1> HIDE DEF prev, next
<1>3. ASSUME NEW t \in Slot
      PROVE  /\ r[t] \in OrderSlot
             /\ r[t].orderId = slots[t].orderId /\ r[t].side = slots[t].side /\ r[t].price = slots[t].price
             /\ r[t].quantity = slots[t].quantity /\ r[t].active = slots[t].active
             /\ r[t].levelIndex = slots[t].levelIndex
             /\ t # s => r[t].next = (IF t = prev THEN next ELSE slots[t].next)
             /\ t # s => r[t].prev = (IF t = next THEN prev ELSE slots[t].prev)
  <2> DEFINE slot == slots[t]
             n == IF t = s THEN Nil ELSE IF t = prev THEN next ELSE slot.next
             p == IF t = s THEN Nil ELSE IF t = next THEN prev ELSE slot.prev
  <2>1. slot \in OrderSlot
    OBVIOUS
  <2>2. n \in Slot \cup {Nil} /\ p \in Slot \cup {Nil}
    BY <1>1, <2>1 DEF OrderSlot
  <2>3. r[t] = [slot EXCEPT !.next = n, !.prev = p]
    BY <1>2
  <2>4. /\ t # s => n = (IF t = prev THEN next ELSE slots[t].next)
        /\ t # s => p = (IF t = next THEN prev ELSE slots[t].prev)
    OBVIOUS
  <2> HIDE DEF n, p
  <2>5. r[t].next = n /\ r[t].prev = p
    BY <2>1, <2>3 DEF OrderSlot
  <2>6. r[t] \in OrderSlot
    <3> HIDE DEF slot
    <3> QED BY <2>1, <2>2, <2>3 DEF OrderSlot
  <2>7. /\ r[t].orderId = slots[t].orderId /\ r[t].side = slots[t].side /\ r[t].price = slots[t].price
        /\ r[t].quantity = slots[t].quantity /\ r[t].active = slots[t].active
        /\ r[t].levelIndex = slots[t].levelIndex
    BY <2>1, <2>3 DEF OrderSlot
  <2> QED BY <2>4, <2>5, <2>6, <2>7
<1>4. r \in [Slot -> OrderSlot]
  BY <1>2, <1>3
<1> QED BY <1>3, <1>4 DEF Neighbours, prev, next

(* Orders of the same quantities weigh the same. *)
LEMMA WeightSame ==
  ASSUME NEW slots \in [Slot -> OrderSlot], NEW r \in [Slot -> OrderSlot], NEW T \in SUBSET Slot,
         \A t \in T : r[t].quantity = slots[t].quantity
  PROVE  Weight(r, T) = Weight(slots, T)
<1> DEFINE f == [s \in Slot |-> r[s].quantity]
           g == [s \in Slot |-> slots[s].quantity]
<1>1. IsFiniteSet(T)
  BY ASlotIsNoNil, FS_Subset
<1>2. \A t \in T : f[t] = g[t]
  OBVIOUS
<1> HIDE DEF f, g
<1>3. SumFunctionOnSet(f, T) = SumFunctionOnSet(g, T)
  BY <1>1, <1>2, SumSame
<1> QED BY <1>3 DEF Weight, f, g

(* With one more member a list weighs its quantity more. *)
LEMMA WeightGrows ==
  ASSUME NEW slots \in [Slot -> OrderSlot], NEW r \in [Slot -> OrderSlot], NEW T \in SUBSET Slot,
         NEW s \in T, \A t \in T \ {s} : r[t].quantity = slots[t].quantity
  PROVE  Weight(r, T) = Weight(slots, T \ {s}) + r[s].quantity /\ Weight(slots, T \ {s}) \in Nat
<1> DEFINE f == [t \in Slot |-> r[t].quantity]
           g == [t \in Slot |-> slots[t].quantity]
<1>1. IsFiniteSet(T) /\ IsFiniteSet(T \ {s}) /\ T \ {s} \in SUBSET Slot
  BY ASlotIsNoNil, FS_Subset
<1>2. \A t \in Slot : f[t] \in Nat /\ g[t] \in Nat
  BY DEF OrderSlot
<1>3. f[s] = r[s].quantity
  OBVIOUS
<1>4. Weight(r, T \ {s}) = Weight(slots, T \ {s})
  BY <1>1, WeightSame
<1>5. Weight(r, T) = SumFunctionOnSet(f, T) /\ Weight(r, T \ {s}) = SumFunctionOnSet(f, T \ {s})
      /\ Weight(slots, T \ {s}) = SumFunctionOnSet(g, T \ {s})
  BY DEF Weight
<1> HIDE DEF f, g
<1>6. \A t \in T : f[t] \in Int
  BY <1>2
<1>7. SumFunctionOnSet(f, T) = f[s] + SumFunctionOnSet(f, T \ {s})
  BY <1>1, <1>6, SumTake
<1>8. SumFunctionOnSet(g, T \ {s}) \in Nat
  BY <1>1, <1>2, SumSign
<1>9. \A m, n : n \in Nat /\ m \in Nat => m + n = n + m
  OBVIOUS
<1>10. f[s] + SumFunctionOnSet(f, T \ {s}) = Weight(slots, T \ {s}) + r[s].quantity
  <2>1. f[s] \in Nat /\ SumFunctionOnSet(f, T \ {s}) \in Nat
    BY <1>2, <1>4, <1>5, <1>8
  <2>2. f[s] + SumFunctionOnSet(f, T \ {s}) = SumFunctionOnSet(f, T \ {s}) + f[s]
    BY <2>1, <1>9, Zenon
  <2> QED BY <1>3, <1>4, <1>5, <2>2, Zenon
<1> QED BY <1>4, <1>5, <1>7, <1>8, <1>10, Zenon

-----------------------------------------------------------------------------
(* Adding an order *)

(* The book with the stored order linked and counted in its level (Place's *)
(* second stage).                                                          *)
LinkedIn(stored, side, position, s, quantity) ==
  [AppendOrderToLevel(stored, side, position, s) EXCEPT
    !.levels[side][position] = Increased(@, quantity, 1)]

(* x is w with the order in slot s, taken from the top of the stack.       *)
Linked(x, w, id, side, price, quantity, position, s) ==
  LET level == w.levels[side][position]
  IN  /\ x \in Book /\ x.free = SubSeq(w.free, 1, Len(w.free) - 1)
      /\ x.bestBid = w.bestBid /\ x.bestAsk = w.bestAsk
      /\ x.levels[side] = [w.levels[side] EXCEPT ![position] = x.levels[side][position]]
      /\ \A other \in Sides \ {side} : x.levels[other] = w.levels[other]
      /\ IsLevel(x.levels[side][position], level.price, level.totalQty + quantity, level.orders + 1,
                 IF level.last = Nil THEN s ELSE level.first, s)
      /\ Neighbours(x.slots, w.slots, s, level.last, Nil, s, Nil)
      /\ IsOrder(x.slots[s], id, side, price, quantity, position, level.last, Nil)

(* The types of one level's parts. *)
LEMMA LevelIs ==
  ASSUME NEW b \in Book, NEW side \in Sides, NEW position \in DOMAIN b.levels[side], Len(b.levels[side]) <= MaxLevels
  PROVE  /\ b.levels[side][position] \in LevelSlot
         /\ b.levels[side][position].last \in Slot \cup {Nil}
         /\ b.levels[side][position].first \in Slot \cup {Nil}
         /\ b.levels[side][position].totalQty \in Nat /\ b.levels[side][position].orders \in Nat
         /\ b.levels[side][position].price \in Prices
         /\ position \in 1 .. MaxLevels /\ b.levels[side] \in Seq(LevelSlot)
<1>1. b.levels[side] \in Seq(LevelSlot)
  BY BookFields
<1>2. b.levels[side][position] \in LevelSlot /\ DOMAIN b.levels[side] = 1 .. Len(b.levels[side])
      /\ Len(b.levels[side]) \in Nat
  BY <1>1, LevelSlots
<1>3. /\ b.levels[side][position].last \in Slot \cup {Nil} /\ b.levels[side][position].first \in Slot \cup {Nil}
      /\ b.levels[side][position].totalQty \in Nat /\ b.levels[side][position].orders \in Nat
      /\ b.levels[side][position].price \in Prices
  BY <1>2 DEF LevelSlot
<1>4. MaxLevels \in Nat
  BY BookAssumption
<1>5. position \in 1 .. MaxLevels
  BY <1>2, <1>4
<1> QED BY <1>1, <1>2, <1>3, <1>5

(* Storing and linking an order writes its slot, its predecessor's link    *)
(* and its level, and nothing else.                                        *)
LEMMA LinkIs ==
  ASSUME NEW w \in Book, NEW side \in Sides, NEW position \in DOMAIN w.levels[side],
         Len(w.levels[side]) <= MaxLevels,
         NEW id \in OrderIds, NEW price \in Prices, NEW quantity \in Nat,
         NEW s \in Slot, s # w.levels[side][position].last, w.free # <<>>,
         NEW stored, stored = Stored(w, s, id, side, price, quantity, position),
         NEW linked, linked = LinkedIn(stored, side, position, s, quantity)
  PROVE  /\ Linked(linked, w, id, side, price, quantity, position, s)
         /\ linked.index = w.index /\ linked.orderCount = w.orderCount
<1> DEFINE level == w.levels[side][position]
           last == level.last
           first == IF last = Nil THEN s ELSE level.first
           slots == LinkedAtEnd(stored.slots, last, s)
           ended == EndedBy(level, s)
           grown == Increased(ended, quantity, 1)
           appended == AppendOrderToLevel(stored, side, position, s)
<1>1. /\ w.levels[side] \in Seq(LevelSlot) /\ level \in LevelSlot
      /\ last \in Slot \cup {Nil} /\ first \in Slot \cup {Nil} /\ level.totalQty \in Nat /\ level.orders \in Nat
      /\ position \in 1 .. MaxLevels
  BY LevelIs
<1>2. IsStored(stored, w, s, id, side, price, quantity, position)
  BY <1>1, StoredIs
<1>3. /\ stored \in Book /\ stored.levels = w.levels /\ stored.slots \in [Slot -> OrderSlot]
      /\ w.slots \in [Slot -> OrderSlot]
  BY <1>2, BookFields DEF IsStored
<1>4. Joined(slots, stored.slots, s, last)
  <2>1. last # s /\ slots = LinkedAtEnd(stored.slots, last, s)
    OBVIOUS
  <2> HIDE DEF level, last, slots
  <2> QED BY <1>1, <1>3, <2>1, EndLinks
<1>5. slots \in [Slot -> OrderSlot]
  BY <1>4, Zenon DEF Joined, Neighbours
<1>6. IsLevel(ended, level.price, level.totalQty, level.orders, first, s)
  <2> HIDE DEF level
  <2> QED BY <1>1, LevelEdits DEF last
<1>7. LevelWritten(appended, stored, side, position, ended, slots)
  <2>1. appended = [stored EXCEPT !.slots = slots, !.levels[side][position] = ended]
    BY <1>3 DEF AppendOrderToLevel
  <2>2. position \in DOMAIN stored.levels[side] /\ ended \in LevelSlot
    BY <1>3, <1>6 DEF IsLevel
  <2> HIDE DEF appended, slots, ended
  <2> QED BY <1>3, <1>5, <2>1, <2>2, WritesLevelAndSlots
<1> HIDE DEF appended
<1>8. IsLevel(grown, level.price, level.totalQty + quantity, level.orders + 1, first, s)
  <2>1. /\ ended \in LevelSlot /\ ended.price = level.price /\ ended.totalQty = level.totalQty
        /\ ended.orders = level.orders /\ ended.first = first /\ ended.last = s
    BY <1>6 DEF IsLevel
  <2> HIDE DEF ended, level, first
  <2>2. ended.totalQty + quantity \in Nat /\ ended.orders + 1 \in Nat /\ quantity \in Int /\ 1 \in Int
    BY <1>1, <2>1
  <2>3. IsLevel(Increased(ended, quantity, 1), ended.price, ended.totalQty + quantity,
                ended.orders + 1, ended.first, ended.last)
    BY <2>1, <2>2, LevelEdits
  <2> QED BY <2>1, <2>3
<1>9. LevelWritten(linked, appended, side, position, grown, slots)
  <2>1. appended \in Book /\ appended.levels[side][position] = ended /\ appended.slots = slots
        /\ position \in DOMAIN appended.levels[side]
    BY <1>3, <1>7 DEF LevelWritten
  <2>2. grown \in LevelSlot
    BY <1>8 DEF IsLevel
  <2> HIDE DEF ended, slots
  <2>3. linked = [appended EXCEPT !.levels[side][position] = grown]
    BY <2>1 DEF LinkedIn, appended
  <2> HIDE DEF grown
  <2> QED BY <2>1, <2>2, <2>3, WritesLevel
<1>10. /\ linked \in Book /\ linked.slots = slots /\ linked.levels[side][position] = grown
       /\ linked.levels[side] = [w.levels[side] EXCEPT ![position] = grown]
       /\ \A other \in Sides \ {side} : linked.levels[other] = w.levels[other]
       /\ SameRest(linked, stored)
  <2> HIDE DEF ended, grown, slots
  <2>1. linked.levels[side] = [[w.levels[side] EXCEPT ![position] = ended] EXCEPT ![position] = grown]
    BY <1>3, <1>7, <1>9 DEF LevelWritten
  <2>2. linked.levels[side] = [w.levels[side] EXCEPT ![position] = grown]
    BY <2>1
  <2> QED BY <1>3, <1>7, <1>9, <2>2 DEF LevelWritten, SameRest
<1>11. IsOrder(slots[s], id, side, price, quantity, position, last, Nil)
  BY <1>2, <1>4, <1>5 DEF IsStored, IsOrder, Joined
<1>12. Neighbours(slots, w.slots, s, last, Nil, s, Nil)
  <2>1. \A t \in Slot \ {s} : stored.slots[t] = w.slots[t]
    BY <1>2 DEF IsStored
  <2> DEFINE old == stored.slots
             older == w.slots
  <2>2. Neighbours(slots, old, s, last, Nil, s, Nil) /\ \A t \in Slot \ {s} : old[t] = older[t]
    BY <1>4, <2>1 DEF Joined
  <2> HIDE DEF old, older, slots, last
  <2>3. Neighbours(slots, older, s, last, Nil, s, Nil)
    BY <2>2 DEF Neighbours
  <2> QED BY <2>3 DEF older
<1>13. /\ linked.free = SubSeq(w.free, 1, Len(w.free) - 1) /\ linked.bestBid = w.bestBid
       /\ linked.bestAsk = w.bestAsk /\ linked.index = w.index /\ linked.orderCount = w.orderCount
  BY <1>2, <1>10 DEF SameRest, IsStored
<1> HIDE DEF slots, grown
<1> QED BY <1>8, <1>10, <1>11, <1>12, <1>13 DEF Linked

-----------------------------------------------------------------------------
(* The pool *)

(* What popping the free stack returns and leaves. *)
LEMMA SubSeqIs ==
  ASSUME NEW S, NEW c \in Seq(S), c # <<>>
  PROVE  /\ Len(c) \in DOMAIN c /\ c[Len(c)] \in S /\ Last(c) = c[Len(c)]
         /\ Removed(SubSeq(c, 1, Len(c) - 1), c, Len(c), S)
<1>1. Len(c) \in Nat /\ Len(c) # 0 /\ DOMAIN c = 1 .. Len(c) /\ \A k \in 1 .. Len(c) : c[k] \in S
  BY LenProperties, EmptyList
<1>2. \A k \in 1 .. Len(c) - 1 : c[k] \in S
  BY <1>1
<1>3. /\ SubSeq(c, 1, Len(c) - 1) \in Seq(S) /\ Len(SubSeq(c, 1, Len(c) - 1)) = Len(c) - 1
      /\ \A k \in 1 .. Len(c) - 1 : SubSeq(c, 1, Len(c) - 1)[k] = c[k]
  BY <1>1, <1>2, SubSeqProperties
<1>4. Removed(SubSeq(c, 1, Len(c) - 1), c, Len(c), S)
  BY <1>1, <1>3 DEF Removed
<1> QED BY <1>1, <1>4 DEF Last

(* Slots whose orders say the same are the same. *)
LEMMA SameSlot ==
  ASSUME NEW slot \in OrderSlot, NEW new \in OrderSlot,
         new.orderId = slot.orderId, new.side = slot.side, new.price = slot.price,
         new.quantity = slot.quantity, new.active = slot.active, new.levelIndex = slot.levelIndex,
         new.next = slot.next, new.prev = slot.prev
  PROVE  new = slot
BY DEF OrderSlot

(* Apart from s, r has the same live orders and the same wiped slots. *)
OthersStay(r, slots, s) ==
  /\ r \in [Slot -> OrderSlot] /\ slots \in [Slot -> OrderSlot]
  /\ \A t \in Slot \ {s} :
       /\ r[t].active = slots[t].active /\ r[t].orderId = slots[t].orderId
       /\ r[t].quantity = slots[t].quantity
       /\ ~ slots[t].active => r[t] = slots[t]

(* The slot on top of the free stack is unused; with it taken, the stack   *)
(* holds the other unused slots.                                           *)
LEMMA PoolTakes ==
  ASSUME NEW free, NEW slots, NEW count, Pooled(free, slots, count), free # <<>>, count \in Nat,
         NEW s, s = Last(free), NEW r, OthersStay(r, slots, s), r[s].active
  PROVE  /\ s \in Slot /\ ~ slots[s].active
         /\ Pooled(SubSeq(free, 1, Len(free) - 1), r, count + 1)
<1> DEFINE rest == SubSeq(free, 1, Len(free) - 1)
<1>1. /\ free \in Seq(Slot) /\ NoRepeats(free)
      /\ \A t \in Slot : t \in ToSet(free) <=> ~ slots[t].active
      /\ \A t \in Slot : ~ slots[t].active => slots[t] = EmptySlot
      /\ count = Cardinality(ActiveIn(slots))
  BY DEF Pooled
<1>2. /\ Len(free) \in DOMAIN free /\ s \in Slot /\ s = free[Len(free)]
      /\ Removed(rest, free, Len(free), Slot)
  BY <1>1, SubSeqIs
<1>3. s \in ToSet(free)
  BY <1>2 DEF ToSet
<1>4. rest \in Seq(Slot) /\ NoRepeats(rest) /\ ToSet(rest) = ToSet(free) \ {s}
  <2> HIDE DEF rest
  <2> QED BY <1>1, <1>2, RemovedList
<1>5. ~ slots[s].active
  BY <1>1, <1>2, <1>3
<1> HIDE DEF rest
<1>6. \A t \in Slot : t \in ToSet(rest) <=> ~ r[t].active
  BY <1>1, <1>4 DEF OthersStay
<1>7. \A t \in Slot : ~ r[t].active => r[t] = EmptySlot
  BY <1>1 DEF OthersStay
<1>8. ActiveIn(r) = ActiveIn(slots) \cup {s} /\ s \notin ActiveIn(slots)
  BY <1>2, <1>5 DEF OthersStay, ActiveIn
<1>9. IsFiniteSet(ActiveIn(slots))
  BY ASlotIsNoNil, FS_Subset DEF ActiveIn
<1>10. Cardinality(ActiveIn(r)) = count + 1
  BY <1>1, <1>8, <1>9, FS_AddElement
<1> QED BY <1>2, <1>4, <1>5, <1>6, <1>7, <1>10 DEF Pooled, rest

(* With a wiped slot put back, the stack holds the unused slots again,     *)
(* none of them twice.                                                     *)
LEMMA PoolReturns ==
  ASSUME NEW free, NEW slots, NEW count, Pooled(free, slots, count), NEW s \in Slot, slots[s].active,
         NEW r, OthersStay(r, slots, s), r[s] = EmptySlot
  PROVE  Pooled(Append(free, s), r, count - 1) /\ count \in Nat \ {0}
<1> DEFINE more == Append(free, s)
<1>1. /\ free \in Seq(Slot) /\ NoRepeats(free)
      /\ \A t \in Slot : t \in ToSet(free) <=> ~ slots[t].active
      /\ \A t \in Slot : ~ slots[t].active => slots[t] = EmptySlot
      /\ count = Cardinality(ActiveIn(slots))
  BY DEF Pooled
<1>2. more \in Seq(Slot) /\ NoRepeats(more) /\ ToSet(more) = ToSet(free) \cup {s}
  <2>1. Inserted(more, free, Len(free) + 1, s, Slot)
    BY <1>1, AppendIs
  <2>2. s \notin ToSet(free)
    BY <1>1
  <2> HIDE DEF more
  <2> QED BY <1>1, <2>1, <2>2, InsertedList
<1> HIDE DEF more
<1>3. ~ r[s].active
  BY EmptySlotIs
<1>4. \A t \in Slot : t \in ToSet(more) <=> ~ r[t].active
  BY <1>1, <1>2, <1>3 DEF OthersStay
<1>5. \A t \in Slot : ~ r[t].active => r[t] = EmptySlot
  BY <1>1 DEF OthersStay
<1>6. ActiveIn(r) = ActiveIn(slots) \ {s} /\ s \in ActiveIn(slots)
  BY <1>3 DEF OthersStay, ActiveIn
<1>7. IsFiniteSet(ActiveIn(slots))
  BY ASlotIsNoNil, FS_Subset DEF ActiveIn
<1>8. Cardinality(ActiveIn(r)) = count - 1 /\ count \in Nat \ {0}
  <2>1. Cardinality(ActiveIn(r)) = Cardinality(ActiveIn(slots)) - 1
    BY <1>6, <1>7, FS_RemoveElement
  <2>2. Cardinality(ActiveIn(slots)) \in Nat /\ Cardinality(ActiveIn(slots)) # 0
    BY <1>6, <1>7, FS_CardinalityType, FS_EmptySet
  <2> QED BY <1>1, <2>1, <2>2
<1> QED BY <1>2, <1>4, <1>5, <1>8 DEF Pooled, more

(* Links that move between live orders leave the other orders and the      *)
(* wiped slots as they were.                                               *)
LEMMA NeighboursStay ==
  ASSUME NEW slots \in [Slot -> OrderSlot], NEW r, NEW s, NEW before, NEW after, NEW next, NEW prev,
         Neighbours(r, slots, s, before, after, next, prev),
         \A t \in Slot : t \in {before, after} => slots[t].active
  PROVE  OthersStay(r, slots, s)
<1>1. ASSUME NEW t \in Slot \ {s}, ~ slots[t].active
      PROVE  r[t] = slots[t]
  <2>1. t # before /\ t # after
    BY <1>1
  <2>2. r[t] \in OrderSlot /\ slots[t] \in OrderSlot
    BY DEF Neighbours
  <2>3. /\ r[t].orderId = slots[t].orderId /\ r[t].side = slots[t].side /\ r[t].price = slots[t].price
        /\ r[t].quantity = slots[t].quantity /\ r[t].active = slots[t].active
        /\ r[t].levelIndex = slots[t].levelIndex
        /\ r[t].next = slots[t].next /\ r[t].prev = slots[t].prev
    BY <2>1 DEF Neighbours
  <2> QED BY <2>2, <2>3, SameSlot
<1> QED BY <1>1 DEF OthersStay, Neighbours

-----------------------------------------------------------------------------
(* One list changed *)

(* r differs from slots in s only, as far as levels care. *)
OneMoved(r, slots, s) ==
  /\ r \in [Slot -> OrderSlot]
  /\ \A t \in Slot \ {s} :
       /\ r[t].side = slots[t].side /\ r[t].price = slots[t].price /\ r[t].quantity = slots[t].quantity
       /\ r[t].active = slots[t].active /\ r[t].levelIndex = slots[t].levelIndex

(* The list at position, of price, became new; the level and the slot s    *)
(* changed with it.                                                        *)
ListChange(b, q, side, price, position, level, levels, s, r, new, p) ==
  /\ Assembled(b, q) /\ side \in Sides /\ position \in DOMAIN b.levels[side]
  /\ price = b.levels[side][position].price
  /\ level \in LevelSlot /\ level.price = price
  /\ levels \in [Sides -> Seq(LevelSlot)]
  /\ levels[side] = [b.levels[side] EXCEPT ![position] = level]
  /\ \A other \in Sides \ {side} : levels[other] = b.levels[other]
  /\ s \in Slot /\ (b.slots[s].active => Matches(b.slots[s], side, price))
  /\ OneMoved(r, b.slots, s)
  /\ (r[s].active => Matches(r[s], side, price) /\ r[s].levelIndex = position)
  /\ new \in Seq(Slot) /\ Describes(level, r, new)
  /\ p = [q EXCEPT ![side][price] = new]

(* The levels fit the lists again. *)
LEMMA ListChanged ==
  ASSUME NEW b, NEW q, NEW side, NEW price, NEW position, NEW level, NEW levels, NEW s, NEW r, NEW new, NEW p,
         ListChange(b, q, side, price, position, level, levels, s, r, new, p)
  PROVE  \A i \in Sides : LevelsFit(i, levels[i], r, p[i])
<1>0. /\ Assembled(b, q) /\ side \in Sides /\ position \in DOMAIN b.levels[side]
      /\ price = b.levels[side][position].price
      /\ level \in LevelSlot /\ level.price = price
      /\ levels \in [Sides -> Seq(LevelSlot)]
      /\ levels[side] = [b.levels[side] EXCEPT ![position] = level]
      /\ \A other \in Sides \ {side} : levels[other] = b.levels[other]
      /\ s \in Slot /\ (b.slots[s].active => Matches(b.slots[s], side, price))
      /\ OneMoved(r, b.slots, s)
      /\ (r[s].active => Matches(r[s], side, price) /\ r[s].levelIndex = position)
      /\ new \in Seq(Slot) /\ Describes(level, r, new)
      /\ p = [q EXCEPT ![side][price] = new]
  BY DEF ListChange
<1> USE <1>0
<1> DEFINE slots == b.slots
<1>1. /\ slots \in [Slot -> OrderSlot] /\ q \in Lists /\ Threaded(slots, q) /\ Queued(slots, q)
      /\ r \in [Slot -> OrderSlot] /\ price \in Prices
  BY AssembledParts, LevelSlots DEF OneMoved
<1>2. q[side] \in [Prices -> Seq(Slot)] /\ p[side] = [q[side] EXCEPT ![price] = new]
      /\ \A other \in Sides \ {side} : p[other] = q[other]
  BY <1>1 DEF Lists
<1>3. /\ LevelsFit(side, b.levels[side], slots, q[side])
      /\ \A other \in Sides : LevelsFit(other, b.levels[other], slots, q[other])
  BY AssembledParts
<1>4. ASSUME NEW other \in Sides, NEW o \in Prices, other # side \/ o # price
      PROVE  \A t \in ToSet(q[other][o]) : t \in Slot \ {s} /\ r[t].quantity = slots[t].quantity
  <2>1. s \in ToSet(q[other][o]) <=> Matches(slots[s], other, o)
    BY <1>1, MembersMatch
  <2>2. s \notin ToSet(q[other][o])
    BY <1>4, <2>1 DEF Matches
  <2>3. ToSet(q[other][o]) \subseteq Slot
    BY <1>1, ListIs, ListFits
  <2> QED BY <2>2, <2>3 DEF OneMoved
<1>5. LevelsFit(side, levels[side], r, p[side])
  <2>1. ASSUME NEW o \in Prices \ {price}
        PROVE  Weight(r, ToSet(q[side][o])) = Weight(slots, ToSet(q[side][o]))
    <3> DEFINE T == ToSet(q[side][o])
    <3>1. T \in SUBSET Slot /\ \A t \in T : r[t].quantity = slots[t].quantity
      BY <1>4
    <3> HIDE DEF slots, T
    <3>2. Weight(r, T) = Weight(slots, T)
      BY <1>1, <3>1, WeightSame
    <3> QED BY <3>2 DEF T
  <2>2. Placed(side, b.levels[side], r)
    <3>1. Placed(side, b.levels[side], slots)
      BY <1>3 DEF LevelsFit
    <3>2. ASSUME NEW t \in Slot, r[t].active, r[t].side = side
          PROVE  /\ r[t].levelIndex \in DOMAIN b.levels[side]
                 /\ b.levels[side][r[t].levelIndex].price = r[t].price
      <4>1. CASE t = s
        BY <3>2, <4>1 DEF Matches
      <4>2. CASE t # s
        BY <3>1, <3>2, <4>2 DEF Placed, OneMoved
      <4> QED BY <4>1, <4>2
    <3> QED BY <3>2 DEF Placed
  <2> DEFINE lists == q[side]
             old == b.levels[side]
  <2>3. /\ LevelsFit(side, old, slots, lists) /\ lists \in [Prices -> Seq(Slot)] /\ position \in DOMAIN old
        /\ level.price = old[position].price /\ Placed(side, old, r)
        /\ \A o \in Prices \ {level.price} : Weight(r, ToSet(lists[o])) = Weight(slots, ToSet(lists[o]))
    BY <1>2, <1>3, <2>1, <2>2
  <2> DEFINE changed == levels[side]
             after == p[side]
  <2>4. changed = [old EXCEPT ![position] = level] /\ after = [lists EXCEPT ![level.price] = new]
    BY <1>2
  <2>5. LevelChange(side, old, slots, lists, position, level, new, r, changed, after)
    <3> HIDE DEF slots, lists, old, changed, after
    <3> QED BY <2>3, <2>4 DEF LevelChange
  <2>6. LevelsFit(side, changed, r, after)
    <3> HIDE DEF slots, lists, old, changed, after
    <3> QED BY <2>5, LevelChanged
  <2> QED BY <2>6
<1>6. ASSUME NEW other \in Sides \ {side}
      PROVE  LevelsFit(other, levels[other], r, p[other])
  <2>1. q[other] \in [Prices -> Seq(Slot)] /\ \A o \in Prices : NoRepeats(q[other][o])
    BY AssembledParts
  <2>2. \A t \in Slot : r[t].active /\ r[t].side = other =>
          /\ slots[t].active /\ slots[t].side = other
          /\ slots[t].price = r[t].price /\ slots[t].levelIndex = r[t].levelIndex
    BY <1>6 DEF OneMoved, Matches
  <2>3. ASSUME NEW o \in Prices, NEW k \in DOMAIN q[other][o]
        PROVE  r[q[other][o][k]].quantity = slots[q[other][o][k]].quantity
    <3>1. q[other][o][k] \in ToSet(q[other][o])
      BY DEF ToSet
    <3> QED BY <1>4, <1>6, <3>1
  <2> DEFINE lists == q[other]
             old == b.levels[other]
  <2>4. LevelsFit(other, old, slots, lists)
    BY <1>3
  <2>5. \A o \in Prices : \A k \in DOMAIN lists[o] : r[lists[o][k]].quantity = slots[lists[o][k]].quantity
    BY <2>3
  <2>6. lists \in [Prices -> Seq(Slot)] /\ \A o \in Prices : NoRepeats(lists[o])
    BY <2>1
  <2>7. LevelsFit(other, old, r, lists)
    <3> HIDE DEF lists, old, slots
    <3> QED BY <1>1, <2>2, <2>4, <2>5, <2>6, SameFit
  <2> QED BY <1>2, <2>7
<1> QED BY <1>5, <1>6

(* The top of the stack is a slot no order has. *)
LEMMA TopIsFree ==
  ASSUME NEW free, NEW slots, NEW count, Pooled(free, slots, count), free # <<>>, NEW s, s = Last(free)
  PROVE  s \in Slot /\ ~ slots[s].active
<1>1. free \in Seq(Slot) /\ \A t \in Slot : t \in ToSet(free) <=> ~ slots[t].active
  BY DEF Pooled
<1>2. Len(free) \in DOMAIN free /\ s \in Slot /\ s = free[Len(free)]
  BY <1>1, SubSeqIs
<1>3. s \in ToSet(free)
  BY <1>2 DEF ToSet
<1> QED BY <1>1, <1>2, <1>3

(* The ends of a list. *)
LEMMA EndsIn ==
  ASSUME NEW c \in Seq(Slot)
  PROVE  /\ c # <<>> => 1 \in DOMAIN c /\ Len(c) \in DOMAIN c
         /\ LastOf(c) = Nil <=> c = <<>>
         /\ FirstOf(c) = Nil <=> c = <<>>
         /\ c # <<>> => LastOf(c) \in ToSet(c) /\ FirstOf(c) \in ToSet(c)
<1>1. Len(c) \in Nat /\ DOMAIN c = 1 .. Len(c) /\ \A k \in 1 .. Len(c) : c[k] \in Slot
  BY LenProperties
<1>2. c # <<>> => Len(c) # 0
  BY EmptyList
<1>3. c # <<>> => 1 \in DOMAIN c /\ Len(c) \in DOMAIN c
  BY <1>1, <1>2
<1> QED BY <1>1, <1>3, ASlotIsNoNil DEF LastOf, FirstOf, ToSet

(* x is w with order id in slot s, behind the others of its price: it      *)
(* stands for p.                                                           *)
Filled(x, linked, w, id, side, price, quantity, position, s, p) ==
  /\ Index!CanInsert(w.index, id) /\ s \in Slot /\ ~ w.slots[s].active
  /\ Assembled(x, p) /\ p[side][price] # <<>>
  /\ linked.levels[side][position].totalQty = Weight(x.slots, ToSet(p[side][price]))
  /\ x.slots[s].orderId = id /\ x.slots[s].quantity = quantity
  /\ \A t \in Slot \ {s} : x.slots[t].orderId = w.slots[t].orderId /\ x.slots[t].quantity = w.slots[t].quantity
  /\ DOMAIN x.levels[side] = DOMAIN w.levels[side]
  /\ \A i \in DOMAIN w.levels[side] : x.levels[side][i].price = w.levels[side][i].price
  /\ \A other \in Sides \ {side} : x.levels[other] = w.levels[other]
  /\ x.bestBid = w.bestBid /\ x.bestAsk = w.bestAsk

(* The index takes the order, the count counts it. *)
IndexWritten(x, b, table, count) ==
  /\ x \in Book /\ x.index = table /\ x.orderCount = count
  /\ x.levels = b.levels /\ x.slots = b.slots /\ x.free = b.free
  /\ x.bestBid = b.bestBid /\ x.bestAsk = b.bestAsk

(* What writing the index and the count leaves of the book. *)
LEMMA WritesIndex ==
  ASSUME NEW b \in Book, NEW x, NEW table \in [Index!Bucket -> [orderId : OrderIds \cup {Nil}, slot : Slot \cup {Nil}]],
         NEW count \in Nat, x = [b EXCEPT !.index = table, !.orderCount = count]
  PROVE  IndexWritten(x, b, table, count)
BY DEF Book, IndexWritten

(* A table of the index has a place in the book. *)
LEMMA TableIs ==
  ASSUME NEW table \in Ids!Table
  PROVE  table \in [Index!Bucket -> [orderId : OrderIds \cup {Nil}, slot : Slot \cup {Nil}]]
<1>1. table \in [Ids!Bucket -> Ids!Entry \cup {Ids!Empty}]
  BY DEF Ids!Table
<1>2. Ids!Bucket = Index!Bucket
  BY DEF Ids!Bucket, Index!Bucket
<1>3. Ids!Entry \cup {Ids!Empty} \subseteq [orderId : OrderIds \cup {Nil}, slot : Slot \cup {Nil}]
  BY DEF Ids!Entry, Ids!Empty
<1> QED BY <1>1, <1>2, <1>3

(* A list and an order behind its last. *)
Lengthened(new, c, s) ==
  /\ new \in Seq(Slot) /\ NoRepeats(new) /\ ToSet(new) = ToSet(c) \cup {s}
  /\ Len(c) \in Nat /\ Len(new) = Len(c) + 1 /\ new # <<>>
  /\ \A k \in 1 .. Len(c) : new[k] = c[k]
  /\ new[Len(c) + 1] = s
  /\ Inserted(new, c, Len(c) + 1, s, Slot)

(* What appending an order to a list returns. *)
LEMMA Lengthens ==
  ASSUME NEW c \in Seq(Slot), NoRepeats(c), NEW s \in Slot, s \notin ToSet(c), NEW new, new = Append(c, s)
  PROVE  Lengthened(new, c, s)
<1>1. Inserted(Append(c, s), c, Len(c) + 1, s, Slot)
  BY AppendIs
<1>2. Inserted(new, c, Len(c) + 1, s, Slot)
  BY <1>1
<1>3. /\ new \in Seq(Slot) /\ NoRepeats(new) /\ ToSet(new) = ToSet(c) \cup {s}
      /\ Len(c) \in Nat /\ Len(new) = Len(c) + 1 /\ new # <<>>
      /\ \A k \in 1 .. Len(c) : new[k] = c[k]
      /\ new[Len(c) + 1] = s
  <2> DEFINE n == new
  <2>1. Inserted(n, c, Len(c) + 1, s, Slot)
    BY <1>2
  <2> HIDE DEF n
  <2>2. /\ n \in Seq(Slot) /\ NoRepeats(n) /\ ToSet(n) = ToSet(c) \cup {s}
        /\ Len(c) \in Nat /\ Len(n) = Len(c) + 1 /\ n # <<>>
        /\ \A k \in 1 .. Len(c) : n[k] = c[k]
        /\ n[Len(c) + 1] = s
    BY <2>1, InsertedList
  <2> QED BY <2>2 DEF n
<1> QED BY <1>2, <1>3 DEF Lengthened

(* The lists p and the book once the order is in it. *)
AllJoined(linked, w, side, price, s, p) ==
  /\ p \in Lists /\ Threaded(linked.slots, p) /\ Queued(linked.slots, p)
  /\ \A i \in Sides : LevelsFit(i, linked.levels[i], linked.slots, p[i])
  /\ p[side][price] # <<>>
  /\ OthersStay(linked.slots, w.slots, s)

(* Once the order is linked, the slots spell its list with it at the end,  *)
(* and every level of both sides fits.                                     *)
LEMMA JoinedList ==
  ASSUME NEW w, NEW q, Assembled(w, q), NEW side \in Sides, NEW price \in Prices,
         NEW position \in DOMAIN w.levels[side], w.levels[side][position].price = price,
         NEW id \in OrderIds, NEW quantity \in Nat \ {0},
         NEW s \in Slot, ~ w.slots[s].active,
         NEW linked, Linked(linked, w, id, side, price, quantity, position, s),
         NEW new, new = Append(q[side][price], s),
         NEW p, p = [q EXCEPT ![side][price] = new]
  PROVE  AllJoined(linked, w, side, price, s, p)
<1> DEFINE slots == w.slots
           r == linked.slots
           c == q[side][price]
           old == w.levels[side][position]
           level == linked.levels[side][position]
<1>1. /\ w \in Book /\ slots \in [Slot -> OrderSlot] /\ q \in Lists /\ Threaded(slots, q) /\ Queued(slots, q)
      /\ c \in Seq(Slot) /\ NoRepeats(c) /\ w.levels[side] \in Seq(LevelSlot)
      /\ LevelsFit(side, w.levels[side], slots, q[side])
  BY AssembledParts
<1>2. Describes(old, slots, c)
  BY <1>1 DEF LevelsFit
<1>3. /\ old.first = FirstOf(c) /\ old.last = LastOf(c) /\ old.orders = Len(c)
      /\ old.totalQty = Weight(slots, ToSet(c))
  BY <1>2 DEF Describes
<1>4. /\ linked \in Book /\ linked.levels \in [Sides -> Seq(LevelSlot)]
      /\ linked.levels[side] = [w.levels[side] EXCEPT ![position] = level]
      /\ \A other \in Sides \ {side} : linked.levels[other] = w.levels[other]
      /\ IsLevel(level, price, old.totalQty + quantity, old.orders + 1,
                 IF old.last = Nil THEN s ELSE old.first, s)
      /\ Neighbours(r, slots, s, LastOf(c), Nil, s, Nil)
      /\ IsOrder(r[s], id, side, price, quantity, position, LastOf(c), Nil)
  BY <1>3, BookFields DEF Linked
<1>5. \A t \in ToSet(c) : t \in Slot /\ slots[t].active
  <2>1. Strung(slots, c, side, price)
    BY <1>1 DEF Threaded
  <2> HIDE DEF c, slots
  <2>2. \A k \in DOMAIN c : slots[c[k]].active
    BY <2>1 DEF Strung
  <2> QED BY <1>1, <2>2, ListFits DEF ToSet
<1>6. s \notin ToSet(c)
  BY <1>5
<1>7. Lengthened(new, c, s)
  <2>1. c \in Seq(Slot) /\ NoRepeats(c) /\ new = Append(c, s)
    BY <1>1
  <2> HIDE DEF c
  <2> QED BY <1>6, <2>1, Lengthens
<1>8. /\ new \in Seq(Slot) /\ NoRepeats(new) /\ ToSet(new) = ToSet(c) \cup {s}
      /\ Len(c) \in Nat /\ Len(new) = Len(c) + 1 /\ new # <<>>
      /\ \A k \in 1 .. Len(c) : new[k] = c[k]
      /\ new[Len(c) + 1] = s
      /\ Inserted(new, c, Len(c) + 1, s, Slot)
  BY <1>7 DEF Lengthened
<1>0. p = [q EXCEPT ![side][price] = new]
  OBVIOUS
<1>9. /\ r[s] \in OrderSlot /\ Matches(r[s], side, price) /\ r[s].prev = LastOf(c) /\ r[s].next = Nil
      /\ r[s].quantity = quantity /\ r[s].levelIndex = position /\ r[s].active
  BY <1>4 DEF IsOrder, Matches
<1>10. r \in [Slot -> OrderSlot]
  BY <1>4 DEF Neighbours
<1>11. p \in Lists /\ Threaded(r, p) /\ Queued(r, p)
  <2>1. c = q[side][price] /\ ~ slots[s].active
    OBVIOUS
  <2> HIDE DEF c, r, slots
  <2>3. Spelled(r, p)
    BY <1>1, <1>4, <1>8, <1>9, <2>1, Joins
  <2> QED BY <2>3 DEF Spelled
<1>12. OthersStay(r, slots, s)
  <2>1. \A t \in Slot : t \in {LastOf(c), Nil} => slots[t].active
    <3> HIDE DEF c, slots
    <3>1. ASSUME NEW t \in Slot, t = LastOf(c) PROVE slots[t].active
      <4>1. LastOf(c) # Nil
        BY <3>1, ASlotIsNoNil
      <4> QED BY <1>1, <1>5, <3>1, <4>1, EndsIn
    <3> QED BY <3>1, ASlotIsNoNil
  <2>2. Neighbours(r, slots, s, LastOf(c), Nil, s, Nil) /\ slots \in [Slot -> OrderSlot]
    BY <1>1, <1>4
  <2> HIDE DEF c, slots, r
  <2> QED BY <2>1, <2>2, NeighboursStay
<1>13. Describes(level, r, new)
  <2>1. /\ level.totalQty = old.totalQty + quantity /\ level.orders = old.orders + 1
        /\ level.first = (IF old.last = Nil THEN s ELSE old.first) /\ level.last = s
    BY <1>4 DEF IsLevel
  <2>2. Weight(r, ToSet(new)) = Weight(slots, ToSet(c)) + quantity
    <3> DEFINE T == ToSet(new)
    <3>1. T \in SUBSET Slot /\ T \ {s} = ToSet(c) /\ s \in T
      BY <1>5, <1>6, <1>8
    <3>2. \A t \in T \ {s} : r[t].quantity = slots[t].quantity
      BY <1>5, <1>12, <3>1 DEF OthersStay
    <3>3. Weight(r, T) = Weight(slots, T \ {s}) + r[s].quantity
      <4>1. slots \in [Slot -> OrderSlot] /\ T \in SUBSET Slot /\ s \in T
        BY <1>1, <3>1
      <4> HIDE DEF T, r, slots
      <4> QED BY <1>10, <3>2, <4>1, WeightGrows
    <3> HIDE DEF T, r, slots
    <3> QED BY <1>9, <3>1, <3>3 DEF T
  <2> HIDE DEF level, old, r, slots, c
  <2>3. level.first = FirstOf(new)
    <3>1. CASE c = <<>>
      <4>1. old.last = Nil /\ Len(c) = 0
        BY <1>3, <1>1, <3>1, EndsIn, EmptyList
      <4> QED BY <1>8, <2>1, <4>1 DEF FirstOf
    <3>2. CASE c # <<>>
      <4>1. old.last # Nil /\ 1 \in DOMAIN c
        BY <1>1, <1>3, <3>2, EndsIn
      <4>2. new[1] = c[1]
        BY <1>1, <1>8, <4>1, LenProperties
      <4> QED BY <1>3, <1>8, <2>1, <3>2, <4>1, <4>2 DEF FirstOf
    <3> QED BY <3>1, <3>2
  <2>4. level.last = LastOf(new)
    BY <1>8, <2>1 DEF LastOf
  <2>5. level.totalQty = Weight(r, ToSet(new)) /\ level.orders = Len(new)
    BY <1>3, <1>8, <2>1, <2>2
  <2> QED BY <2>3, <2>4, <2>5 DEF Describes
<1>14. OneMoved(r, slots, s)
  BY <1>4 DEF Neighbours, OneMoved
<1>15. p[side][price] = new
  BY <1>0, <1>1 DEF Lists
<1> DEFINE levels == linked.levels
<1>16. ListChange(w, q, side, price, position, level, levels, s, r, new, p)
  <2>1. level \in LevelSlot /\ level.price = price
    BY <1>4 DEF IsLevel
  <2>3. OneMoved(r, w.slots, s) /\ levels \in [Sides -> Seq(LevelSlot)]
        /\ levels[side] = [w.levels[side] EXCEPT ![position] = level]
        /\ \A other \in Sides \ {side} : levels[other] = w.levels[other]
    BY <1>4, <1>14
  <2> HIDE DEF level, levels, r
  <2> QED BY <1>8, <1>9, <1>0, <1>13, <2>1, <2>3 DEF ListChange
<1>17. \A i \in Sides : LevelsFit(i, levels[i], r, p[i])
  <2> HIDE DEF level, levels, r
  <2> QED BY <1>16, ListChanged, Zenon
<1> QED BY <1>8, <1>11, <1>12, <1>15, <1>17 DEF AllJoined

(* Once the linked order is in the index too, the storage stands for the   *)
(* lists with the order at the end of its price's, and the index had room: *)
(* the undoing branch of addOrder is not taken.                            *)
LEMMA Fills ==
  ASSUME NEW w, NEW q, Assembled(w, q), NEW side \in Sides, NEW price \in Prices,
         NEW position \in DOMAIN w.levels[side], w.levels[side][position].price = price,
         NEW id \in OrderIds, NEW quantity \in Nat \ {0},
         FindOrderSlot(w, id) = Nil, w.free # <<>>, NEW s, s = Last(w.free),
         NEW stored, stored = Stored(w, s, id, side, price, quantity, position),
         NEW linked, linked = LinkedIn(stored, side, position, s, quantity),
         NEW x, x = [linked EXCEPT !.index = Index!Insert(@, id, s), !.orderCount = @ + 1],
         NEW new, new = Append(q[side][price], s),
         NEW p, p = [q EXCEPT ![side][price] = new]
  PROVE  Filled(x, linked, w, id, side, price, quantity, position, s, p)
<1> DEFINE slots == w.slots
           r == linked.slots
           table == Index!Insert(w.index, id, s)
           count == w.orderCount + 1
<1>1. /\ w \in Book /\ slots \in [Slot -> OrderSlot] /\ q \in Lists /\ w.levels[side] \in Seq(LevelSlot)
      /\ IndexHolds(w.index, slots) /\ Pooled(w.free, slots, w.orderCount) /\ ActiveHaveQuantity(slots)
      /\ w.orderCount \in Nat /\ Len(w.levels[side]) <= MaxLevels
      /\ Threaded(slots, q)
  BY AssembledParts, BookFields DEF Assembled, LevelsFit
<1>2. s \in Slot /\ ~ slots[s].active
  BY <1>1, TopIsFree
<1>3. s # w.levels[side][position].last
  <2> DEFINE c == q[side][price]
  <2>1. Describes(w.levels[side][position], slots, c) /\ c \in Seq(Slot) /\ Strung(slots, c, side, price)
    BY <1>1, AssembledParts DEF LevelsFit, Threaded
  <2>2. w.levels[side][position].last = LastOf(c)
    BY <2>1 DEF Describes
  <2>3. c # <<>> => slots[LastOf(c)].active
    <3>1. c # <<>> => Len(c) \in DOMAIN c
      BY <2>1, EndsIn
    <3> HIDE DEF c, slots
    <3> QED BY <2>1, <3>1 DEF Strung, LastOf
  <2>4. c = <<>> => LastOf(c) = Nil
    BY DEF LastOf
  <2> QED BY <1>2, <2>2, <2>3, <2>4, ASlotIsNoNil
<1>4. Linked(linked, w, id, side, price, quantity, position, s) /\ linked.index = w.index
      /\ linked.orderCount = w.orderCount
  BY <1>1, <1>2, <1>3, LinkIs
<1>5. linked \in Book /\ IsOrder(r[s], id, side, price, quantity, position, w.levels[side][position].last, Nil)
      /\ Neighbours(r, slots, s, w.levels[side][position].last, Nil, s, Nil)
      /\ linked.free = SubSeq(w.free, 1, Len(w.free) - 1)
  BY <1>4 DEF Linked
<1>7. /\ p \in Lists /\ Threaded(r, p) /\ Queued(r, p)
      /\ \A i \in Sides : LevelsFit(i, linked.levels[i], r, p[i])
      /\ p[side][price] # <<>>
      /\ OthersStay(r, slots, s)
  <2>1. AllJoined(linked, w, side, price, s, p)
    <3> QED BY <1>2, <1>4, JoinedList, Zenon
  <2> QED BY <2>1 DEF AllJoined
<1>8. r[s].active /\ r[s].orderId = id /\ r[s].quantity = quantity /\ r[s] \in OrderSlot /\ r \in [Slot -> OrderSlot]
  BY <1>5, <1>7, Zenon DEF IsOrder, OthersStay
<1>9. Index!CanInsert(w.index, id) /\ IndexHolds(table, r)
  <2> DEFINE index == w.index
  <2>1. Index!Find(index, id) = Nil /\ IndexHolds(index, slots)
    BY <1>1 DEF FindOrderSlot
  <2>2. \A t \in Slot \ {s} : r[t].active = slots[t].active /\ r[t].orderId = slots[t].orderId
    BY <1>7 DEF OthersStay
  <2> HIDE DEF index, slots, r
  <2>3. Index!CanInsert(index, id) /\ IndexHolds(Index!Insert(index, id, s), r)
    BY <1>1, <1>2, <1>8, <2>1, <2>2, IndexAdds
  <2> QED BY <2>3 DEF index
<1>10. Pooled(linked.free, r, count)
  <2>1. OthersStay(r, slots, s) /\ r[s].active /\ Pooled(w.free, slots, w.orderCount) /\ w.orderCount \in Nat
    BY <1>1, <1>7, <1>8
  <2> HIDE DEF slots, r
  <2> QED BY <1>5, <2>1, PoolTakes
<1>11. /\ x \in Book /\ x.index = table /\ x.orderCount = count
       /\ x.levels = linked.levels /\ x.slots = r /\ x.free = linked.free
       /\ x.bestBid = linked.bestBid /\ x.bestAsk = linked.bestAsk
  <2>1. table \in Ids!Table
    BY <1>9 DEF IndexHolds
  <2>2. table \in [Index!Bucket -> [orderId : OrderIds \cup {Nil}, slot : Slot \cup {Nil}]]
    <3> HIDE DEF table
    <3> QED BY <2>1, TableIs
  <2>3. x = [linked EXCEPT !.index = table, !.orderCount = count] /\ count \in Nat
    BY <1>1, <1>4, <1>5 DEF Book
  <2> HIDE DEF table, count
  <2>4. IndexWritten(x, linked, table, count)
    BY <1>5, <2>2, <2>3, WritesIndex
  <2> QED BY <2>4 DEF IndexWritten
<1>12. ActiveHaveQuantity(r)
  <2>1. ASSUME NEW t \in Slot PROVE r[t].active <=> r[t].quantity > 0
    <3>1. CASE t = s
      BY <1>8, <3>1
    <3>2. CASE t # s
      BY <1>1, <1>7, <3>2 DEF ActiveHaveQuantity, OthersStay
    <3> QED BY <3>1, <3>2
  <2> QED BY <2>1 DEF ActiveHaveQuantity
<1>13. Assembled(x, p)
  <2> HIDE DEF table, count, r
  <2> QED BY <1>7, <1>9, <1>10, <1>11, <1>12 DEF Assembled
<1>14. \A t \in Slot \ {s} : x.slots[t].orderId = slots[t].orderId /\ x.slots[t].quantity = slots[t].quantity
  BY <1>7, <1>11 DEF OthersStay
<1>15. linked.levels[side][position].totalQty = Weight(x.slots, ToSet(p[side][price]))
  <2> DEFINE level == linked.levels[side][position]
  <2>1. LevelsFit(side, linked.levels[side], r, p[side])
    BY <1>7
  <2>2. DOMAIN linked.levels[side] = DOMAIN w.levels[side]
    BY <1>4 DEF Linked
  <2>3. Describes(level, r, p[side][level.price])
    BY <2>1, <2>2, Zenon DEF LevelsFit
  <2>4. level.price = price
    BY <1>4 DEF Linked, IsLevel
  <2> QED BY <1>11, <2>3, <2>4 DEF Describes
<1>16. /\ DOMAIN x.levels[side] = DOMAIN w.levels[side]
       /\ \A i \in DOMAIN w.levels[side] : x.levels[side][i].price = w.levels[side][i].price
       /\ \A other \in Sides \ {side} : x.levels[other] = w.levels[other]
  <2> DEFINE level == linked.levels[side][position]
  <2>1. /\ linked.levels[side] = [w.levels[side] EXCEPT ![position] = level]
        /\ \A other \in Sides \ {side} : linked.levels[other] = w.levels[other]
    BY <1>4, Zenon DEF Linked
  <2>2. level.price = price
    BY <1>4 DEF Linked, IsLevel
  <2> HIDE DEF level
  <2> QED BY <1>11, <2>1, <2>2
<1>17. x.bestBid = w.bestBid /\ x.bestAsk = w.bestAsk
  BY <1>4, <1>11, Zenon DEF Linked
<1> QED BY <1>2, <1>7, <1>8, <1>9, <1>11, <1>13, <1>14, <1>15, <1>16, <1>17, Zenon DEF Filled

(* Slot s holds a new order, no other order changed. *)
NewIn(r, slots, s, id, quantity) ==
  /\ s \in Slot /\ ~ slots[s].active
  /\ r[s].orderId = id /\ r[s].quantity = quantity
  /\ \A t \in Slot \ {s} : r[t].orderId = slots[t].orderId /\ r[t].quantity = slots[t].quantity

(* What adding an order does: it goes behind the others of its price. *)
AddsTo(out, b, q, id, side, price, quantity) ==
  \E s, new, p :
    /\ new = Append(q[side][price], s) /\ p = [q EXCEPT ![side][price] = new]
    /\ Represents(out.book, p) /\ NewIn(out.book.slots, b.slots, s, id, quantity)
    /\ out.returned = TRUE
    /\ out.events = <<Update("Add", side, price, quantity, Weight(out.book.slots, ToSet(new)), id)>>

(* updateBBO writes no slot. *)
LEMMA BBOKeeps ==
  ASSUME NEW b \in Book, NEW side
  PROVE  UpdateBBO(b, side).slots = b.slots
BY DEF UpdateBBO, Book

(* An order that addOrder does not refuse goes behind the others of its    *)
(* price, is reported with its level's new total, and leaves the storage   *)
(* standing for lists.                                                     *)
LEMMA Placing ==
  ASSUME NEW b, NEW q, Represents(b, q), NEW side \in Sides, NEW price \in Prices,
         NEW id \in OrderIds, NEW quantity \in Nat \ {0},
         FindOrderSlot(b, id) = Nil, b.free # <<>>,
         FindLevel(b, side, price) # 0 \/ Len(b.levels[side]) < MaxLevels
  PROVE  AddsTo(Place(b, id, side, price, quantity), b, q, id, side, price, quantity)
<1> DEFINE s == Last(b.free)
           w == WithLevel(b, side, price)
           position == FindLevel(w, side, price)
           stored == Stored(w, s, id, side, price, quantity, position)
           linked == LinkedIn(stored, side, position, s, quantity)
           x == [linked EXCEPT !.index = Index!Insert(@, id, s), !.orderCount = @ + 1]
           new == Append(q[side][price], s)
           p == [q EXCEPT ![side][price] = new]
           out == Place(b, id, side, price, quantity)
<1>1. Assembled(b, q) /\ (\A other \in Sides : NoneEmpty(b.levels[other], q[other]))
      /\ b.bestBid = TopPrice(b.levels["Buy"]) /\ b.bestAsk = TopPrice(b.levels["Sell"])
  BY DEF Represents
<1>2. Opened(w, b, q, side, price, position)
  <2> HIDE DEF w, position
  <2> QED BY <1>1, WithLevelOpens DEF w, position
<1>3. /\ Assembled(w, q) /\ position \in DOMAIN w.levels[side] /\ w.levels[side][position].price = price
      /\ w.free = b.free /\ w.index = b.index /\ SameButPlace(w.slots, b.slots)
      /\ w.bestBid = b.bestBid /\ w.bestAsk = b.bestAsk
      /\ \A other \in Sides \ {side} : w.levels[other] = b.levels[other]
      /\ \A i \in DOMAIN w.levels[side] \ {position} : q[side][w.levels[side][i].price] # <<>>
  <2>1. NoneEmpty(b.levels[side], q[side])
    BY <1>1
  <2> QED BY <1>1, <1>2, <2>1, Zenon DEF Opened
<1> HIDE DEF w, position
<1>4. Filled(x, linked, w, id, side, price, quantity, position, s, p)
  <2>1. FindOrderSlot(w, id) = Nil /\ w.free # <<>> /\ s = Last(w.free)
    BY <1>3 DEF FindOrderSlot
  <2>2. /\ stored = Stored(w, s, id, side, price, quantity, position)
        /\ linked = LinkedIn(stored, side, position, s, quantity)
        /\ x = [linked EXCEPT !.index = Index!Insert(@, id, s), !.orderCount = @ + 1]
        /\ new = Append(q[side][price], s) /\ p = [q EXCEPT ![side][price] = new]
    OBVIOUS
  <2> HIDE DEF s, stored, linked, x, new, p
  <2> QED BY <1>3, <2>1, <2>2, Fills
<1> HIDE DEF linked, x
<1>5. /\ Index!CanInsert(w.index, id) /\ s \in Slot /\ ~ w.slots[s].active
      /\ Assembled(x, p) /\ p[side][price] # <<>>
      /\ linked.levels[side][position].totalQty = Weight(x.slots, ToSet(p[side][price]))
      /\ x.slots[s].orderId = id /\ x.slots[s].quantity = quantity
      /\ (\A t \in Slot \ {s} : x.slots[t].orderId = w.slots[t].orderId /\ x.slots[t].quantity = w.slots[t].quantity)
      /\ DOMAIN x.levels[side] = DOMAIN w.levels[side]
      /\ (\A i \in DOMAIN w.levels[side] : x.levels[side][i].price = w.levels[side][i].price)
      /\ (\A other \in Sides \ {side} : x.levels[other] = w.levels[other])
      /\ x.bestBid = w.bestBid /\ x.bestAsk = w.bestAsk
  BY <1>4 DEF Filled
<1>6. q \in Lists /\ p[side][price] = new /\ x \in Book
  BY <1>1, <1>5, AssembledParts DEF Lists
<1>7. ASSUME NEW other \in Sides
      PROVE  NoneEmpty(x.levels[other], p[other])
  <2>1. CASE other # side
    <3>1. x.levels[other] = b.levels[other] /\ p[other] = q[other]
      BY <1>3, <1>5, <1>6, <2>1 DEF Lists
    <3> QED BY <1>1, <3>1
  <2>2. CASE other = side
    <3>1. ASSUME NEW i \in DOMAIN x.levels[side]
          PROVE  p[side][x.levels[side][i].price] # <<>>
      <4> DEFINE o == w.levels[side][i].price
      <4>1. x.levels[side][i].price = o /\ i \in DOMAIN w.levels[side]
        BY <1>5
      <4>2. o \in Prices
        <5>1. w.levels[side] \in Seq(LevelSlot)
          BY <1>3, AssembledParts
        <5> QED BY <4>1, <5>1, LevelSlots
      <4>3. CASE o = price
        BY <1>5, <4>1, <4>3
      <4>4. CASE o # price
        <5>1. q[side][o] # <<>>
          BY <1>3, <4>1, <4>4
        <5>2. p[side][o] = q[side][o]
          <6> HIDE DEF o, new
          <6> QED BY <1>6, <4>2, <4>4 DEF Lists
        <5> QED BY <4>1, <5>1, <5>2
      <4> QED BY <4>3, <4>4
    <3> QED BY <2>2, <3>1 DEF NoneEmpty
  <2> QED BY <2>1, <2>2
<1>8. Represents(UpdateBBO(x, side), p)
  <2>1. side = "Buy" => x.bestAsk = TopPrice(x.levels["Sell"])
    BY <1>1, <1>3, <1>5 DEF Sides
  <2>2. side = "Sell" => x.bestBid = TopPrice(x.levels["Buy"])
    BY <1>1, <1>3, <1>5 DEF Sides
  <2> HIDE DEF p
  <2> QED BY <1>5, <1>7, <2>1, <2>2, UpdateBBOIs
<1>9. out = Outcome(UpdateBBO(x, side), TRUE,
             <<Update("Add", side, price, quantity, linked.levels[side][position].totalQty, id)>>)
  <2>1. Index!CanInsert(b.index, id)
    BY <1>3, <1>5
  <2> QED BY <2>1 DEF Place, Stored, LinkedIn, w, position, linked, x
<1>10. /\ out.book = UpdateBBO(x, side) /\ out.returned = TRUE
       /\ out.events = <<Update("Add", side, price, quantity, linked.levels[side][position].totalQty, id)>>
  BY <1>9 DEF Outcome
<1>11. out.book.slots = x.slots
  BY <1>6, <1>10, BBOKeeps
<1>12. NewIn(out.book.slots, b.slots, s, id, quantity)
  BY <1>3, <1>5, <1>11 DEF NewIn, SameButPlace
<1>13. /\ Represents(out.book, p) /\ new = Append(q[side][price], s) /\ p = [q EXCEPT ![side][price] = new]
       /\ out.events = <<Update("Add", side, price, quantity, Weight(out.book.slots, ToSet(new)), id)>>
  BY <1>5, <1>6, <1>8, <1>10, <1>11
<1> HIDE DEF out, s, new, p
<1>14. AddsTo(out, b, q, id, side, price, quantity)
  BY <1>10, <1>12, <1>13 DEF AddsTo
<1> QED BY <1>14 DEF out

-----------------------------------------------------------------------------
(* Deleting an order *)

(* x is b with slot s wiped and on the free stack. *)
Released(x, b, s) ==
  /\ x \in Book /\ x.slots = [b.slots EXCEPT ![s] = EmptySlot] /\ x.free = Append(b.free, s)
  /\ x.levels = b.levels /\ x.index = b.index /\ x.orderCount = b.orderCount
  /\ x.bestBid = b.bestBid /\ x.bestAsk = b.bestAsk

(* What releaseOrderSlot leaves of the book. *)
LEMMA Releases ==
  ASSUME NEW b \in Book, NEW s \in Slot, NEW x, x = ReleaseOrderSlot(b, s)
  PROVE  Released(x, b, s)
<1> DEFINE slots == [b.slots EXCEPT ![s] = EmptySlot]
           free == Append(b.free, s)
<1>1. slots \in [Slot -> OrderSlot] /\ free \in Seq(Slot)
  BY EmptySlotIs, BookFields
<1>2. x = [b EXCEPT !.slots = slots, !.free = free]
  BY DEF ReleaseOrderSlot
<1> HIDE DEF slots, free
<1>3. /\ x \in Book /\ x.slots = slots /\ x.free = free
      /\ x.levels = b.levels /\ x.index = b.index /\ x.orderCount = b.orderCount
      /\ x.bestBid = b.bestBid /\ x.bestAsk = b.bestAsk
  BY <1>1, <1>2 DEF Book
<1> QED BY <1>3 DEF Released, slots, free

(* The book with an order taken out of its level's sums and list (Delete's *)
(* first stage).                                                           *)
UnlinkedFrom(b, side, position, s, quantity) ==
  UnlinkOrderFromLevel([b EXCEPT !.levels[side][position] = Decreased(@, quantity)], side, position, s)

(* x is b without the order in slot s, as far as its level and its         *)
(* neighbours go.                                                          *)
Detached(x, b, side, position, s, quantity) ==
  LET level == b.levels[side][position]
      gone == b.slots[s]
  IN  /\ x \in Book /\ SameRest(x, b)
      /\ x.levels[side] = [b.levels[side] EXCEPT ![position] = x.levels[side][position]]
      /\ \A other \in Sides \ {side} : x.levels[other] = b.levels[other]
      /\ IsLevel(x.levels[side][position], level.price, level.totalQty - quantity, level.orders - 1,
                 IF gone.prev = Nil THEN gone.next ELSE level.first,
                 IF gone.next = Nil THEN gone.prev ELSE level.last)
      /\ Neighbours(x.slots, b.slots, s, gone.prev, gone.next, gone.next, gone.prev)

(* That writes the level and the links of the order's neighbours, and      *)
(* nothing else; the sums are not clamped.                                 *)
LEMMA UnlinkIs ==
  ASSUME NEW b \in Book, NEW side \in Sides, NEW position \in DOMAIN b.levels[side],
         Len(b.levels[side]) <= MaxLevels, NEW s \in Slot, NEW quantity \in Nat,
         b.levels[side][position].totalQty >= quantity, b.levels[side][position].orders > 0,
         NEW x, x = UnlinkedFrom(b, side, position, s, quantity)
  PROVE  Detached(x, b, side, position, s, quantity)
<1> DEFINE level == b.levels[side][position]
           gone == b.slots[s]
           less == Decreased(level, quantity)
           fewer == [b EXCEPT !.levels[side][position] = less]
           slots == Unlinked(b.slots, s)
           left == LeftBy(less, gone)
           first == IF gone.prev = Nil THEN gone.next ELSE level.first
           last == IF gone.next = Nil THEN gone.prev ELSE level.last
<1>1. /\ b.levels[side] \in Seq(LevelSlot) /\ level \in LevelSlot /\ b.slots \in [Slot -> OrderSlot]
      /\ gone \in OrderSlot
  BY LevelIs, BookFields
<1>2. IsLevel(less, level.price, level.totalQty - quantity, level.orders - 1, level.first, level.last)
  <2>1. level.totalQty >= quantity /\ level.orders > 0
    OBVIOUS
  <2> HIDE DEF level
  <2> QED BY <1>1, <2>1, LevelEdits
<1>3. /\ less \in LevelSlot /\ less.price = level.price /\ less.totalQty = level.totalQty - quantity
      /\ less.orders = level.orders - 1 /\ less.first = level.first /\ less.last = level.last
  BY <1>2 DEF IsLevel
<1>4. IsLevel(left, level.price, level.totalQty - quantity, level.orders - 1, first, last)
  <2> HIDE DEF less, gone, level
  <2>1. IsLevel(left, less.price, less.totalQty, less.orders,
                IF gone.prev = Nil THEN gone.next ELSE less.first,
                IF gone.next = Nil THEN gone.prev ELSE less.last)
    BY <1>1, <1>3, LevelEdits
  <2> QED BY <1>3, <2>1
<1>5. LevelWritten(fewer, b, side, position, less, b.slots)
  <2>1. fewer = [b EXCEPT !.levels[side][position] = less]
    OBVIOUS
  <2> HIDE DEF less, fewer
  <2> QED BY <1>3, <2>1, WritesLevel
<1>6. /\ fewer \in Book /\ fewer.slots = b.slots /\ fewer.levels[side][position] = less
      /\ fewer.levels[side] = [b.levels[side] EXCEPT ![position] = less]
      /\ (\A other \in Sides \ {side} : fewer.levels[other] = b.levels[other])
      /\ SameRest(fewer, b)
  BY <1>5 DEF LevelWritten
<1>7. x = UnlinkOrderFromLevel(fewer, side, position, s)
  BY DEF UnlinkedFrom
<1> HIDE DEF fewer
<1>8. LevelWritten(x, fewer, side, position, left, slots)
  <2>1. x = [fewer EXCEPT !.slots = slots, !.levels[side][position] = left]
    BY <1>6, <1>7 DEF UnlinkOrderFromLevel
  <2>2. left \in LevelSlot
    BY <1>4 DEF IsLevel
  <2>3. slots \in [Slot -> OrderSlot]
    BY <1>1, LinksClose DEF Neighbours
  <2>4. position \in DOMAIN fewer.levels[side]
    BY <1>6
  <2> HIDE DEF left, slots
  <2> QED BY <1>6, <2>1, <2>2, <2>3, <2>4, WritesLevelAndSlots
<1>9. Neighbours(slots, b.slots, s, gone.prev, gone.next, gone.next, gone.prev)
  BY <1>1, LinksClose
<1>10. /\ x \in Book /\ x.slots = slots /\ x.levels[side][position] = left
       /\ x.levels[side] = [b.levels[side] EXCEPT ![position] = left]
       /\ (\A other \in Sides \ {side} : x.levels[other] = b.levels[other])
       /\ SameRest(x, b)
  <2> HIDE DEF left, slots, less
  <2>1. x.levels[side] = [[b.levels[side] EXCEPT ![position] = less] EXCEPT ![position] = left]
    BY <1>6, <1>8 DEF LevelWritten
  <2>2. x.levels[side] = [b.levels[side] EXCEPT ![position] = left]
    BY <2>1
  <2> QED BY <1>6, <1>8, <2>2 DEF LevelWritten, SameRest
<1> HIDE DEF left, slots
<1> QED BY <1>4, <1>9, <1>10 DEF Detached

(* The ends of a list that lost its n-th member. *)
LEMMA RemovedEnds ==
  ASSUME NEW c \in Seq(Slot), NoRepeats(c), NEW n \in DOMAIN c, NEW new, Removed(new, c, n, Slot)
  PROVE  /\ FirstOf(new) = IF Precedes(c, n) = Nil THEN Follows(c, n) ELSE FirstOf(c)
         /\ LastOf(new) = IF Follows(c, n) = Nil THEN Precedes(c, n) ELSE LastOf(c)
<1>1. /\ Len(c) \in Nat /\ DOMAIN c = 1 .. Len(c) /\ (\A k \in 1 .. Len(c) : c[k] \in Slot /\ c[k] # Nil)
      /\ n \in 1 .. Len(c) /\ Len(c) > 0
  BY LenProperties, ASlotIsNoNil
<1>2. /\ new \in Seq(Slot) /\ Len(new) = Len(c) - 1
      /\ \A k \in 1 .. Len(c) - 1 : new[k] = IF k < n THEN c[k] ELSE c[k + 1]
  BY DEF Removed
<1>3. new = <<>> <=> Len(c) = 1
  <2>1. new = <<>> <=> Len(new) = 0
    BY <1>2, EmptyList
  <2> QED BY <1>1, <1>2, <2>1
<1>4. c # <<>>
  BY <1>1, EmptyList
<1>5. Precedes(c, n) = Nil <=> n = 1
  BY <1>1 DEF Precedes
<1>6. Follows(c, n) = Nil <=> n = Len(c)
  BY <1>1 DEF Follows
<1>7. FirstOf(new) = IF n = 1 THEN Follows(c, n) ELSE c[1]
  <2>1. CASE Len(c) = 1
    BY <1>1, <1>3, <2>1 DEF FirstOf, Follows
  <2>2. CASE Len(c) # 1
    <3>1. FirstOf(new) = new[1] /\ 1 \in 1 .. Len(c) - 1
      BY <1>1, <1>3, <2>2 DEF FirstOf
    <3> QED BY <1>1, <1>2, <2>2, <3>1 DEF Follows
  <2> QED BY <2>1, <2>2
<1>8. LastOf(new) = IF n = Len(c) THEN Precedes(c, n) ELSE c[Len(c)]
  <2>1. CASE Len(c) = 1
    BY <1>1, <1>3, <2>1 DEF LastOf, Precedes
  <2>2. CASE Len(c) # 1
    <3>1. LastOf(new) = new[Len(c) - 1] /\ Len(c) - 1 \in 1 .. Len(c) - 1
      BY <1>1, <1>2, <1>3, <2>2 DEF LastOf
    <3> QED BY <1>1, <1>2, <2>2, <3>1 DEF Precedes
  <2> QED BY <2>1, <2>2
<1> QED BY <1>4, <1>5, <1>6, <1>7, <1>8 DEF FirstOf, LastOf

(* Where the live order in slot s is. *)
At(b, q, s, side, price, position, n) ==
  /\ s \in Slot /\ b.slots[s].active
  /\ side = b.slots[s].side /\ price = b.slots[s].price /\ position = b.slots[s].levelIndex
  /\ side \in Sides /\ price \in Prices
  /\ position \in DOMAIN b.levels[side] /\ b.levels[side][position].price = price
  /\ n \in DOMAIN q[side][price] /\ q[side][price][n] = s
  /\ Describes(b.levels[side][position], b.slots, q[side][price])
  /\ Strung(b.slots, q[side][price], side, price)
  /\ Len(b.levels[side]) <= MaxLevels

(* A live order's slot tells truly where it is: its level, at its          *)
(* position, has the list the order is in.                                 *)
LEMMA LiveIsAt ==
  ASSUME NEW b, NEW q, Assembled(b, q), NEW s \in Slot, b.slots[s].active
  PROVE  \E n : At(b, q, s, b.slots[s].side, b.slots[s].price, b.slots[s].levelIndex, n)
<1> DEFINE side == b.slots[s].side
           price == b.slots[s].price
           position == b.slots[s].levelIndex
<1>1. b.slots \in [Slot -> OrderSlot] /\ Threaded(b.slots, q) /\ Queued(b.slots, q)
      /\ \A i \in Sides : LevelsFit(i, b.levels[i], b.slots, q[i])
  BY AssembledParts
<1>2. side \in Sides
  BY <1>1 DEF OrderSlot
<1>3. price \in Prices /\ \E n \in DOMAIN q[side][price] : q[side][price][n] = s
  BY <1>1 DEF Queued
<1>4. LevelsFit(side, b.levels[side], b.slots, q[side])
  BY <1>1, <1>2
<1>5. position \in DOMAIN b.levels[side] /\ b.levels[side][position].price = price /\ Len(b.levels[side]) <= MaxLevels
  BY <1>4, Zenon DEF LevelsFit, Placed
<1>6. Describes(b.levels[side][position], b.slots, q[side][price])
  BY <1>4, <1>5, Zenon DEF LevelsFit
<1>7. Strung(b.slots, q[side][price], side, price)
  BY <1>1, <1>2, <1>3 DEF Threaded
<1> QED BY <1>2, <1>3, <1>5, <1>6, <1>7, Zenon DEF At

(* What its level sums up. *)
Weighs(b, q, s, side, price, position) ==
  /\ b.levels[side][position].totalQty =
       Weight(b.slots, ToSet(q[side][price]) \ {s}) + b.slots[s].quantity
  /\ Weight(b.slots, ToSet(q[side][price]) \ {s}) \in Nat /\ b.slots[s].quantity \in Nat
  /\ b.levels[side][position].orders = Len(q[side][price]) /\ Len(q[side][price]) \in Nat \ {0}
  /\ s \in ToSet(q[side][price]) /\ ToSet(q[side][price]) \subseteq Slot

(* A level's total is the order's quantity and that of the list's others,  *)
(* so taking the order out of it cannot clamp.                             *)
LEMMA LevelWeighs ==
  ASSUME NEW b, NEW q, Assembled(b, q), NEW s, NEW side, NEW price, NEW position, NEW n,
         At(b, q, s, side, price, position, n)
  PROVE  Weighs(b, q, s, side, price, position)
<1> DEFINE c == q[side][price]
           slots == b.slots
           T == ToSet(c)
<1>1. /\ s \in Slot /\ n \in DOMAIN c /\ c[n] = s /\ Describes(b.levels[side][position], slots, c)
      /\ side \in Sides /\ price \in Prices /\ slots[s].active
  BY Zenon DEF At
<1>2. slots \in [Slot -> OrderSlot] /\ c \in Seq(Slot) /\ NoRepeats(c)
  BY <1>1, AssembledParts
<1>3. s \in T /\ T \subseteq Slot
  <2> HIDE DEF c
  <2> QED BY <1>1, <1>2, ListFits DEF ToSet
<1>4. Weight(slots, T) = Weight(slots, T \ {s}) + slots[s].quantity /\ Weight(slots, T \ {s}) \in Nat
  <2>1. \A t \in T \ {s} : slots[t].quantity = slots[t].quantity
    OBVIOUS
  <2> HIDE DEF slots, T
  <2> QED BY <1>2, <1>3, <2>1, WeightGrows
<1>5. slots[s].quantity \in Nat
  BY <1>1, <1>2 DEF OrderSlot
<1>6. Len(c) \in Nat \ {0}
  <2> HIDE DEF c
  <2> QED BY <1>1, <1>2, LenProperties
<1>7. b.levels[side][position].totalQty = Weight(slots, T) /\ b.levels[side][position].orders = Len(c)
  BY <1>1 DEF Describes
<1> QED BY <1>3, <1>4, <1>5, <1>6, <1>7 DEF Weighs

(* A list without its n-th member. *)
Shortened(new, c, n) ==
  /\ new \in Seq(Slot) /\ NoRepeats(new) /\ ToSet(new) = ToSet(c) \ {c[n]}
  /\ Len(c) \in Nat \ {0} /\ Len(new) = Len(c) - 1
  /\ Removed(new, c, n, Slot)
  /\ FirstOf(new) = (IF Precedes(c, n) = Nil THEN Follows(c, n) ELSE FirstOf(c))
  /\ LastOf(new) = (IF Follows(c, n) = Nil THEN Precedes(c, n) ELSE LastOf(c))

(* What taking the n-th order out of a list returns. *)
LEMMA Shortens ==
  ASSUME NEW c \in Seq(Slot), NoRepeats(c), NEW n \in DOMAIN c, NEW new, new = RemoveAt(c, n)
  PROVE  Shortened(new, c, n)
<1>1. Removed(RemoveAt(c, n), c, n, Slot)
  BY RemoveAtIs, LenProperties
<1> DEFINE short == new
<1>2. Removed(short, c, n, Slot)
  BY <1>1
<1> HIDE DEF short
<1>3. /\ short \in Seq(Slot) /\ NoRepeats(short) /\ ToSet(short) = ToSet(c) \ {c[n]}
      /\ Len(c) \in Nat \ {0} /\ Len(short) = Len(c) - 1
  BY <1>2, RemovedList
<1>4. /\ FirstOf(short) = (IF Precedes(c, n) = Nil THEN Follows(c, n) ELSE FirstOf(c))
      /\ LastOf(short) = (IF Follows(c, n) = Nil THEN Precedes(c, n) ELSE LastOf(c))
  BY <1>2, RemovedEnds
<1>5. Shortened(short, c, n)
  BY <1>2, <1>3, <1>4 DEF Shortened
<1> QED BY <1>5 DEF short

(* The lists p and the book x once the order in slot s is out, the level   *)
(* standing at `total`.                                                    *)
AllLeft(x, b, side, price, s, p, total) ==
  /\ Spelled(x.slots, p)
  /\ \A i \in Sides : LevelsFit(i, x.levels[i], x.slots, p[i])
  /\ OthersStay(x.slots, b.slots, s) /\ x.slots[s] = EmptySlot
  /\ total = Weight(x.slots, ToSet(p[side][price]))

(* Once the order is unlinked and its slot released, the slots spell its   *)
(* list without it, every level of both sides fits, and the level's total  *)
(* is that of who stays.                                                   *)
LEMMA LeftList ==
  ASSUME NEW b, NEW q, Assembled(b, q), NEW s, NEW side, NEW price, NEW position, NEW n,
         At(b, q, s, side, price, position, n),
         NEW u, Detached(u, b, side, position, s, b.slots[s].quantity),
         NEW x, Released(x, u, s),
         NEW new, new = RemoveAt(q[side][price], n),
         NEW p, p = [q EXCEPT ![side][price] = new]
  PROVE  AllLeft(x, b, side, price, s, p, u.levels[side][position].totalQty)
<1> DEFINE slots == b.slots
           r == x.slots
           c == q[side][price]
           old == b.levels[side][position]
           level == u.levels[side][position]
           prev == slots[s].prev
           next == slots[s].next
           quantity == slots[s].quantity
<1>1. /\ s \in Slot /\ slots[s].active /\ side = slots[s].side /\ price = slots[s].price
      /\ position = slots[s].levelIndex /\ side \in Sides /\ price \in Prices
      /\ position \in DOMAIN b.levels[side] /\ old.price = price
      /\ n \in DOMAIN c /\ c[n] = s
      /\ Describes(old, slots, c) /\ Strung(slots, c, side, price)
  BY Zenon DEF At
<1>2. /\ b \in Book /\ slots \in [Slot -> OrderSlot] /\ q \in Lists /\ Threaded(slots, q) /\ Queued(slots, q)
      /\ c \in Seq(Slot) /\ NoRepeats(c)
  BY <1>1, AssembledParts, Zenon
<1>3. Matches(slots[s], side, price)
  BY <1>1, Zenon DEF Matches
<1>4. /\ u \in Book /\ u.levels[side] = [b.levels[side] EXCEPT ![position] = level]
      /\ (\A other \in Sides \ {side} : u.levels[other] = b.levels[other])
      /\ IsLevel(level, old.price, old.totalQty - quantity, old.orders - 1,
                 IF prev = Nil THEN next ELSE old.first, IF next = Nil THEN prev ELSE old.last)
      /\ Neighbours(u.slots, slots, s, prev, next, next, prev)
  BY DEF Detached
<1>5. x \in Book /\ r = [u.slots EXCEPT ![s] = EmptySlot] /\ x.levels = u.levels
  BY DEF Released
<1>6. r \in [Slot -> OrderSlot] /\ r[s] = EmptySlot /\ \A t \in Slot \ {s} : r[t] = u.slots[t]
  <2> DEFINE v == u.slots
  <2>1. v \in [Slot -> OrderSlot]
    BY <1>4 DEF Neighbours
  <2>2. r = [v EXCEPT ![s] = EmptySlot]
    BY <1>5
  <2> HIDE DEF v, r
  <2>3. r \in [Slot -> OrderSlot] /\ r[s] = EmptySlot /\ \A t \in Slot \ {s} : r[t] = v[t]
    BY <1>1, <2>1, <2>2, EmptySlotIs, Zenon
  <2> QED BY <2>3 DEF v
<1>7. Neighbours(r, slots, s, prev, next, next, prev)
  <2> DEFINE v == u.slots
  <2>1. Neighbours(v, slots, s, prev, next, next, prev) /\ \A t \in Slot \ {s} : r[t] = v[t]
    BY <1>4, <1>6
  <2> HIDE DEF v, r, slots, prev, next
  <2> QED BY <1>6, <2>1 DEF Neighbours
<1>8. ~ r[s].active
  BY <1>6, EmptySlotIs
<1>9. Shortened(new, c, n)
  <2>1. new = RemoveAt(c, n)
    OBVIOUS
  <2> HIDE DEF c
  <2> QED BY <1>1, <1>2, <2>1, Shortens, Zenon
<1>10. /\ new \in Seq(Slot) /\ ToSet(new) = ToSet(c) \ {s}
       /\ Len(c) \in Nat \ {0} /\ Len(new) = Len(c) - 1
       /\ Removed(new, c, n, Slot)
  BY <1>1, <1>9, Zenon DEF Shortened
<1>11. prev = Precedes(c, n) /\ next = Follows(c, n)
  BY <1>1, Zenon DEF Strung
<1>12. Spelled(r, p)
  <2>1. c = q[side][price] /\ s = c[n]
    BY <1>1, Zenon
  <2>2. Neighbours(r, slots, s, slots[s].prev, slots[s].next, slots[s].next, slots[s].prev)
    BY <1>7
  <2> HIDE DEF c, r, slots
  <2> QED BY <1>1, <1>2, <1>8, <1>10, <2>1, <2>2, Leaves, Zenon
<1>13. OthersStay(r, slots, s)
  <2>1. \A t \in Slot : t \in {prev, next} => slots[t].active
    <3>1. \A k \in DOMAIN c : slots[c[k]].active
      BY <1>1, Zenon DEF Strung
    <3>2. DOMAIN c = 1 .. Len(c) /\ n \in 1 .. Len(c) /\ Len(c) \in Nat
      BY <1>1, <1>2, LenProperties, Zenon
    <3>3. prev \in Slot => n - 1 \in DOMAIN c /\ prev = c[n - 1]
      BY <1>11, <3>2, ASlotIsNoNil DEF Precedes
    <3>4. next \in Slot => n + 1 \in DOMAIN c /\ next = c[n + 1]
      BY <1>11, <3>2, ASlotIsNoNil DEF Follows
    <3> HIDE DEF c, prev, next
    <3> QED BY <3>1, <3>3, <3>4
  <2> HIDE DEF slots, r, prev, next
  <2> QED BY <1>2, <1>7, <2>1, NeighboursStay
<1>14. /\ old.totalQty = Weight(slots, ToSet(c) \ {s}) + quantity
       /\ Weight(slots, ToSet(c) \ {s}) \in Nat /\ quantity \in Nat
       /\ old.orders = Len(c) /\ s \in ToSet(c) /\ ToSet(c) \subseteq Slot
  <2>1. Weighs(b, q, s, side, price, position)
    BY LevelWeighs
  <2> QED BY <2>1 DEF Weighs
<1>15. Weight(r, ToSet(new)) = Weight(slots, ToSet(c) \ {s})
  <2> DEFINE T == ToSet(c) \ {s}
  <2>1. T \in SUBSET Slot /\ \A t \in T : r[t].quantity = slots[t].quantity
    BY <1>13, <1>14 DEF OthersStay
  <2>2. Weight(r, T) = Weight(slots, T)
    <3> HIDE DEF T, r, slots
    <3> QED BY <1>2, <1>6, <2>1, WeightSame
  <2> QED BY <1>10, <2>2
<1>16. /\ level \in LevelSlot /\ level.price = old.price /\ level.totalQty = old.totalQty - quantity
       /\ level.orders = old.orders - 1
       /\ level.first = (IF prev = Nil THEN next ELSE old.first)
       /\ level.last = (IF next = Nil THEN prev ELSE old.last)
  BY <1>4 DEF IsLevel
<1>17. level.totalQty = Weight(r, ToSet(new)) /\ level.orders = Len(new)
  <2>1. \A i, j, k : i \in Nat /\ j \in Nat /\ k = i + j => k - j = i
    OBVIOUS
  <2> QED BY <1>10, <1>14, <1>15, <1>16, <2>1
<1>18. level.first = FirstOf(new) /\ level.last = LastOf(new)
  <2>1. old.first = FirstOf(c) /\ old.last = LastOf(c)
    BY <1>1, Zenon DEF Describes
  <2> HIDE DEF level, prev, next, old, c
  <2> QED BY <1>9, <1>11, <1>16, <2>1 DEF Shortened
<1>19. Describes(level, r, new)
  BY <1>17, <1>18 DEF Describes
<1>20. OneMoved(r, slots, s)
  BY <1>7 DEF Neighbours, OneMoved
<1>21. p[side][price] = new
  BY <1>1, <1>2, Zenon DEF Lists
<1> DEFINE levels == x.levels
<1>22. ListChange(b, q, side, price, position, level, levels, s, r, new, p)
  <2>1. level \in LevelSlot /\ level.price = price /\ price = b.levels[side][position].price
    BY <1>1, <1>16, Zenon
  <2>2. OneMoved(r, b.slots, s) /\ levels \in [Sides -> Seq(LevelSlot)]
        /\ levels[side] = [b.levels[side] EXCEPT ![position] = level]
        /\ (\A other \in Sides \ {side} : levels[other] = b.levels[other])
        /\ Matches(b.slots[s], side, price)
    BY <1>3, <1>4, <1>5, <1>20, BookFields
  <2>3. p = [q EXCEPT ![side][price] = new]
    OBVIOUS
  <2> HIDE DEF level, levels, r
  <2> QED BY <1>1, <1>8, <1>10, <1>19, <2>1, <2>2, <2>3, Zenon DEF ListChange
<1>23. \A i \in Sides : LevelsFit(i, levels[i], r, p[i])
  <2> HIDE DEF level, levels, r
  <2> QED BY <1>22, ListChanged
<1> QED BY <1>6, <1>12, <1>13, <1>17, <1>21, <1>23 DEF AllLeft

(* findOrderSlot returns the slot of the live order of that id, or Nil if  *)
(* there is none.                                                          *)
LEMMA FindIs ==
  ASSUME NEW b, NEW q, Assembled(b, q), NEW id \in OrderIds, NEW s, s = FindOrderSlot(b, id)
  PROVE  /\ s # Nil => s \in Slot /\ b.slots[s].active /\ b.slots[s].orderId = id
         /\ s = Nil => \A t \in Slot : b.slots[t].active => b.slots[t].orderId # id
<1> DEFINE slots == b.slots
           index == b.index
<1>1. slots \in [Slot -> OrderSlot] /\ IndexHolds(index, slots)
  BY AssembledParts DEF Assembled
<1>2. s = Index!Find(index, id)
  BY DEF FindOrderSlot
<1> HIDE DEF slots, index
<1>3. s = LiveOf(slots)[id]
  BY <1>1, <1>2, FindsLive
<1>4. OneOrderPerId(slots)
  BY <1>1 DEF IndexHolds
<1>5. /\ \A t \in Slot : slots[t].active => LiveOf(slots)[slots[t].orderId] = t
      /\ \A i \in OrderIds : LiveOf(slots)[i] # Nil =>
              /\ LiveOf(slots)[i] \in Slot
              /\ slots[LiveOf(slots)[i]].active /\ slots[LiveOf(slots)[i]].orderId = i
  BY <1>1, <1>4, LiveIs
<1>6. s # Nil => s \in Slot /\ slots[s].active /\ slots[s].orderId = id
  BY <1>3, <1>5
<1>7. ASSUME s = Nil, NEW t \in Slot, slots[t].active, slots[t].orderId = id
      PROVE  FALSE
  <2>1. LiveOf(slots)[slots[t].orderId] = t
    BY <1>5, <1>7
  <2>2. t = Nil
    BY <1>3, <1>7, <2>1
  <2> QED BY <2>2, ASlotIsNoNil
<1> QED BY <1>6, <1>7 DEF slots

(* Slots other than s keep their order's id and quantity. *)
OthersKeep(r, slots, s) ==
  \A t \in Slot \ {s} : r[t].orderId = slots[t].orderId /\ r[t].quantity = slots[t].quantity

(* What deleting the order id does: it leaves its list. *)
DeletesFrom(out, b, q, id) ==
  \E s, side, price, position, n, new, p :
    /\ s = FindOrderSlot(b, id) /\ b.slots[s].orderId = id
    /\ At(b, q, s, side, price, position, n)
    /\ new = RemoveAt(q[side][price], n) /\ p = [q EXCEPT ![side][price] = new]
    /\ Represents(out.book, p) /\ OthersKeep(out.book.slots, b.slots, s)
    /\ out.returned = TRUE
    /\ out.events = <<Update("Delete", side, price, 0, Weight(out.book.slots, ToSet(new)), id)>>

(* x, of the slots of y, is b without the order in slot s, its level       *)
(* still there.                                                            *)
TakenOut(x, y, b, side, position, s, p) ==
  /\ x.slots = y.slots
  /\ Assembled(x, p) /\ OthersStay(x.slots, b.slots, s)
  /\ DOMAIN x.levels[side] = DOMAIN b.levels[side]
  /\ \A i \in DOMAIN b.levels[side] : x.levels[side][i].price = b.levels[side][i].price
  /\ \A other \in Sides \ {side} : x.levels[other] = b.levels[other]
  /\ x.bestBid = b.bestBid /\ x.bestAsk = b.bestAsk

(* Once the released order is erased from the index too, the storage       *)
(* stands for the lists without it, its level perhaps empty.               *)
LEMMA TakesOut ==
  ASSUME NEW b, NEW q, Assembled(b, q), NEW s, NEW side, NEW price, NEW position, NEW n,
         At(b, q, s, side, price, position, n), NEW id, id = b.slots[s].orderId,
         NEW u, Detached(u, b, side, position, s, b.slots[s].quantity),
         NEW y, Released(y, u, s),
         NEW p, AllLeft(y, b, side, price, s, p, u.levels[side][position].totalQty),
         NEW x, x = [y EXCEPT !.index = Index!Erase(@, id), !.orderCount = @ - 1]
  PROVE  TakenOut(x, y, b, side, position, s, p)
<1> DEFINE slots == b.slots
           r == y.slots
           table == Index!Erase(b.index, id)
           count == b.orderCount - 1
<1>1. s \in Slot /\ slots[s].active /\ side \in Sides /\ position \in DOMAIN b.levels[side]
      /\ b.levels[side][position].price = price
  BY Zenon DEF At
<1>2. /\ b \in Book /\ slots \in [Slot -> OrderSlot] /\ b.levels \in [Sides -> Seq(LevelSlot)]
      /\ IndexHolds(b.index, slots) /\ Pooled(b.free, slots, b.orderCount) /\ ActiveHaveQuantity(slots)
  BY AssembledParts DEF Assembled
<1>3. /\ y \in Book /\ y.free = Append(b.free, s) /\ y.levels = u.levels
      /\ y.index = b.index /\ y.orderCount = b.orderCount
      /\ y.bestBid = b.bestBid /\ y.bestAsk = b.bestAsk
  BY DEF Released, Detached, SameRest
<1>4. /\ Spelled(r, p) /\ (\A i \in Sides : LevelsFit(i, y.levels[i], r, p[i]))
      /\ OthersStay(r, slots, s) /\ r[s] = EmptySlot
  BY DEF AllLeft
<1>5. r \in [Slot -> OrderSlot] /\ ~ r[s].active /\ r[s].quantity = 0
  BY <1>4, EmptySlotIs DEF OthersStay
<1>6. IndexHolds(table, r)
  <2> DEFINE index == b.index
  <2>1. \A t \in Slot \ {s} : r[t].active = slots[t].active /\ r[t].orderId = slots[t].orderId
    BY <1>4 DEF OthersStay
  <2>2. IndexHolds(index, slots)
    BY <1>2
  <2> HIDE DEF index, slots, r
  <2>3. IndexHolds(Index!Erase(index, slots[s].orderId), r)
    BY <1>1, <1>2, <1>5, <2>1, <2>2, IndexDrops
  <2> QED BY <2>3 DEF index, slots
<1>7. Pooled(y.free, r, count) /\ count \in Nat
  <2>1. Pooled(b.free, slots, b.orderCount)
    BY <1>2
  <2> HIDE DEF slots, r
  <2>2. Pooled(Append(b.free, s), r, b.orderCount - 1) /\ b.orderCount \in Nat \ {0}
    BY <1>1, <1>4, <2>1, PoolReturns DEF slots
  <2> QED BY <1>3, <2>2
<1>8. IndexWritten(x, y, table, count)
  <2>1. table \in Ids!Table
    BY <1>6 DEF IndexHolds
  <2>2. table \in [Index!Bucket -> [orderId : OrderIds \cup {Nil}, slot : Slot \cup {Nil}]]
    <3> HIDE DEF table
    <3> QED BY <2>1, TableIs
  <2>3. x = [y EXCEPT !.index = table, !.orderCount = count]
    BY <1>3 DEF Book
  <2> HIDE DEF table, count
  <2> QED BY <1>3, <1>7, <2>2, <2>3, WritesIndex
<1>9. /\ x \in Book /\ x.index = table /\ x.orderCount = count
      /\ x.levels = y.levels /\ x.slots = r /\ x.free = y.free
      /\ x.bestBid = y.bestBid /\ x.bestAsk = y.bestAsk
  BY <1>8 DEF IndexWritten
<1>10. ActiveHaveQuantity(r)
  <2>1. ASSUME NEW t \in Slot PROVE r[t].active <=> r[t].quantity > 0
    <3>1. CASE t = s
      BY <1>5, <3>1
    <3>2. CASE t # s
      BY <1>2, <1>4, <3>2 DEF ActiveHaveQuantity, OthersStay
    <3> QED BY <3>1, <3>2
  <2> QED BY <2>1 DEF ActiveHaveQuantity
<1>11. Assembled(x, p)
  <2> HIDE DEF table, count, r
  <2> QED BY <1>4, <1>6, <1>7, <1>9, <1>10 DEF Assembled, Spelled
<1>12. /\ DOMAIN x.levels[side] = DOMAIN b.levels[side]
       /\ \A i \in DOMAIN b.levels[side] : x.levels[side][i].price = b.levels[side][i].price
       /\ \A other \in Sides \ {side} : x.levels[other] = b.levels[other]
  <2> DEFINE level == u.levels[side][position]
  <2>1. /\ u.levels[side] = [b.levels[side] EXCEPT ![position] = level]
        /\ \A other \in Sides \ {side} : u.levels[other] = b.levels[other]
    BY DEF Detached
  <2>2. level.price = price
    BY <1>1 DEF Detached, IsLevel
  <2> HIDE DEF level
  <2> QED BY <1>1, <1>3, <1>9, <2>1, <2>2
<1> QED BY <1>3, <1>4, <1>9, <1>11, <1>12 DEF TakenOut

(* deleteOrder of a live order takes it, and only it, out of its list,     *)
(* closes the level if it was the last, is reported with what is left at   *)
(* the level, and leaves the storage standing for lists.                   *)
LEMMA Deleting ==
  ASSUME NEW b, NEW q, Represents(b, q), NEW id \in OrderIds, FindOrderSlot(b, id) # Nil
  PROVE  DeletesFrom(Delete(b, id), b, q, id)
<1> DEFINE s == FindOrderSlot(b, id)
           side == b.slots[s].side
           price == b.slots[s].price
           quantity == b.slots[s].quantity
           position == b.slots[s].levelIndex
           u == UnlinkedFrom(b, side, position, s, quantity)
           y == ReleaseOrderSlot(u, s)
           x == [y EXCEPT !.index = Index!Erase(@, id), !.orderCount = @ - 1]
           z == RemoveLevelIfEmpty(x, side, position)
           total == u.levels[side][position].totalQty
           out == Delete(b, id)
<1>1. out = Outcome(UpdateBBO(z, side), TRUE, <<Update("Delete", side, price, 0, total, id)>>)
  BY Zenon DEF Delete, UnlinkedFrom
<1>2. Assembled(b, q) /\ (\A other \in Sides : NoneEmpty(b.levels[other], q[other]))
      /\ b.bestBid = TopPrice(b.levels["Buy"]) /\ b.bestAsk = TopPrice(b.levels["Sell"])
  BY DEF Represents
<1>3. s \in Slot /\ b.slots[s].active /\ b.slots[s].orderId = id
  <2> HIDE DEF s
  <2> QED BY <1>2, FindIs DEF s
<1>4. PICK n : At(b, q, s, side, price, position, n)
  <2> HIDE DEF s
  <2> QED BY <1>2, <1>3, LiveIsAt
<1> DEFINE new == RemoveAt(q[side][price], n)
           p == [q EXCEPT ![side][price] = new]
<1> HIDE DEF out, s, side, price, quantity, position
<1>5. /\ side \in Sides /\ price \in Prices /\ position \in DOMAIN b.levels[side]
      /\ b.levels[side][position].price = price /\ Len(b.levels[side]) <= MaxLevels
      /\ n \in DOMAIN q[side][price]
  BY <1>4, Zenon DEF At
<1>6. b \in Book /\ b.levels[side] \in Seq(LevelSlot) /\ q \in Lists
  BY <1>2, <1>5, AssembledParts
<1>7. quantity \in Nat /\ b.levels[side][position].totalQty >= quantity /\ b.levels[side][position].orders > 0
  <2>1. Weighs(b, q, s, side, price, position)
    BY <1>2, <1>4, LevelWeighs
  <2> DEFINE rest == Weight(b.slots, ToSet(q[side][price]) \ {s})
             c == q[side][price]
             level == b.levels[side][position]
  <2>2. /\ level.totalQty = rest + quantity /\ rest \in Nat /\ quantity \in Nat
        /\ level.orders = Len(c) /\ Len(c) \in Nat \ {0}
    BY <2>1 DEF Weighs, quantity
  <2> HIDE DEF rest, c, level
  <2>3. level.totalQty >= quantity /\ level.orders > 0
    BY <2>2
  <2> QED BY <2>2, <2>3 DEF level
<1>8. Detached(u, b, side, position, s, quantity)
  BY <1>3, <1>5, <1>6, <1>7, UnlinkIs
<1> HIDE DEF u
<1>9. Released(y, u, s)
  BY <1>3, <1>8, Releases DEF Detached
<1> HIDE DEF y
<1>10. AllLeft(y, b, side, price, s, p, total)
  <2>1. new = RemoveAt(q[side][price], n) /\ p = [q EXCEPT ![side][price] = new]
    OBVIOUS
  <2> HIDE DEF new, p
  <2> QED BY <1>2, <1>4, <1>8, <1>9, <2>1, LeftList DEF quantity
<1>11. p[side][price] = new
  BY <1>5, <1>6 DEF Lists
<1>12. \A i \in DOMAIN b.levels[side] \ {position} : p[side][b.levels[side][i].price] # <<>>
  <2> SUFFICES ASSUME NEW i \in DOMAIN b.levels[side] \ {position}
               PROVE  p[side][b.levels[side][i].price] # <<>>
    OBVIOUS
  <2> DEFINE o == b.levels[side][i].price
  <2>1. o # price
    <3>1. Sorted(side, b.levels[side])
      BY <1>2, <1>5, AssembledParts DEF LevelsFit
    <3> QED BY <1>5, <1>6, <3>1, PricesDiffer
  <2>2. o \in Prices /\ q[side][o] # <<>>
    BY <1>2, <1>5, <1>6, LevelSlots DEF NoneEmpty
  <2>3. p[side][o] = q[side][o]
    <3> HIDE DEF o, new
    <3> QED BY <1>5, <1>6, <2>1, <2>2 DEF Lists
  <2> QED BY <2>2, <2>3
<1>13. \A other \in Sides \ {side} : p[other] = q[other]
  BY <1>5, <1>6 DEF Lists
<1>14. new = RemoveAt(q[side][price], n) /\ p = [q EXCEPT ![side][price] = new]
  OBVIOUS
<1> HIDE DEF new, p
<1>0. x = [y EXCEPT !.index = Index!Erase(@, id), !.orderCount = @ - 1]
  OBVIOUS
<1> HIDE DEF x
<1>15. TakenOut(x, y, b, side, position, s, p)
  BY <1>0, <1>2, <1>3, <1>4, <1>8, <1>9, <1>10, TakesOut DEF quantity
<1>16. /\ Assembled(x, p) /\ OthersStay(x.slots, b.slots, s)
       /\ DOMAIN x.levels[side] = DOMAIN b.levels[side]
       /\ (\A i \in DOMAIN b.levels[side] : x.levels[side][i].price = b.levels[side][i].price)
       /\ (\A other \in Sides \ {side} : x.levels[other] = b.levels[other])
       /\ x.bestBid = b.bestBid /\ x.bestAsk = b.bestAsk
  BY <1>15 DEF TakenOut
<1>17. Closed(z, x, p, side)
  <2>1. position \in DOMAIN x.levels[side]
        /\ \A i \in DOMAIN x.levels[side] \ {position} : p[side][x.levels[side][i].price] # <<>>
    BY <1>5, <1>12, <1>16
  <2> QED BY <1>5, <1>16, <2>1, RemoveLevelCloses
<1> HIDE DEF z
<1>18. /\ Assembled(z, p) /\ SameButPlace(z.slots, x.slots)
       /\ NoneEmpty(z.levels[side], p[side])
       /\ (\A other \in Sides \ {side} : z.levels[other] = b.levels[other])
       /\ z.bestBid = b.bestBid /\ z.bestAsk = b.bestAsk
  BY <1>16, <1>17 DEF Closed
<1>19. Represents(UpdateBBO(z, side), p)
  <2>1. \A other \in Sides : NoneEmpty(z.levels[other], p[other])
    BY <1>2, <1>13, <1>18
  <2>2. side = "Buy" => z.bestAsk = TopPrice(z.levels["Sell"])
    BY <1>2, <1>18 DEF Sides
  <2>3. side = "Sell" => z.bestBid = TopPrice(z.levels["Buy"])
    BY <1>2, <1>18 DEF Sides
  <2> QED BY <1>5, <1>18, <2>1, <2>2, <2>3, UpdateBBOIs
<1>20. z \in Book
  BY <1>18, AssembledParts
<1>21. /\ out.book = UpdateBBO(z, side) /\ out.returned = TRUE
       /\ out.events = <<Update("Delete", side, price, 0, total, id)>>
  BY <1>1 DEF Outcome
<1>22. out.book.slots = z.slots
  BY <1>20, <1>21, BBOKeeps
<1>23. OthersKeep(out.book.slots, b.slots, s)
  BY <1>16, <1>18, <1>22 DEF OthersKeep, SameButPlace, OthersStay
<1>24. total = Weight(z.slots, ToSet(new))
  <2>1. total = Weight(x.slots, ToSet(p[side][price]))
    BY <1>10, <1>15 DEF AllLeft, TakenOut
  <2>2. Weight(z.slots, ToSet(p[side][price])) = Weight(x.slots, ToSet(p[side][price]))
    <3>1. x.slots \in [Slot -> OrderSlot] /\ p \in Lists /\ Threaded(x.slots, p) /\ Queued(x.slots, p)
      BY <1>16, AssembledParts
    <3>2. SameButPlace(z.slots, x.slots)
      BY <1>18
    <3>3. \A o \in Sides, m \in Prices : Weight(z.slots, ToSet(p[o][m])) = Weight(x.slots, ToSet(p[o][m]))
      BY <3>1, <3>2, SameKeeps
    <3> QED BY <1>5, <3>3
  <2> QED BY <1>11, <2>1, <2>2
<1>25. Represents(out.book, p) /\ out.events = <<Update("Delete", side, price, 0, Weight(out.book.slots, ToSet(new)), id)>>
  BY <1>19, <1>21, <1>22, <1>24
<1>26. s = FindOrderSlot(b, id)
  BY DEF s
<1> HIDE DEF total
<1>27. DeletesFrom(out, b, q, id)
  BY <1>3, <1>4, <1>14, <1>21, <1>23, <1>25, <1>26 DEF DeletesFrom
<1> QED BY <1>27 DEF out

-----------------------------------------------------------------------------
(* Changing a quantity *)

(* r is slots with another quantity in s. *)
Requantified(r, slots, s, quantity) ==
  /\ r \in [Slot -> OrderSlot] /\ r[s].quantity = quantity
  /\ \A t \in Slot :
       /\ r[t].orderId = slots[t].orderId /\ r[t].side = slots[t].side /\ r[t].price = slots[t].price
       /\ r[t].active = slots[t].active /\ r[t].levelIndex = slots[t].levelIndex
       /\ r[t].next = slots[t].next /\ r[t].prev = slots[t].prev
  /\ \A t \in Slot \ {s} : r[t] = slots[t]

(* What writing a quantity leaves of the slots. *)
LEMMA Requantifies ==
  ASSUME NEW slots \in [Slot -> OrderSlot], NEW s \in Slot, NEW quantity \in Nat,
         NEW r, r = [slots EXCEPT ![s].quantity = quantity]
  PROVE  Requantified(r, slots, s, quantity)
<1> DEFINE slot == [slots[s] EXCEPT !.quantity = quantity]
<1>1. /\ slot \in OrderSlot /\ slot.quantity = quantity
      /\ slot.orderId = slots[s].orderId /\ slot.side = slots[s].side /\ slot.price = slots[s].price
      /\ slot.active = slots[s].active /\ slot.levelIndex = slots[s].levelIndex
      /\ slot.next = slots[s].next /\ slot.prev = slots[s].prev
  <2> DEFINE old == slots[s]
  <2>1. old \in OrderSlot
    OBVIOUS
  <2> HIDE DEF old
  <2>2. slot = [old EXCEPT !.quantity = quantity]
    BY DEF old
  <2> HIDE DEF slot
  <2>3. /\ slot \in OrderSlot /\ slot.quantity = quantity
        /\ slot.orderId = old.orderId /\ slot.side = old.side /\ slot.price = old.price
        /\ slot.active = old.active /\ slot.levelIndex = old.levelIndex
        /\ slot.next = old.next /\ slot.prev = old.prev
    BY <2>1, <2>2 DEF OrderSlot
  <2> QED BY <2>3 DEF old
<1>2. r = [slots EXCEPT ![s] = slot]
  OBVIOUS
<1> HIDE DEF slot
<1>3. r \in [Slot -> OrderSlot] /\ r[s] = slot /\ \A t \in Slot \ {s} : r[t] = slots[t]
  BY <1>1, <1>2
<1>4. ASSUME NEW t \in Slot
      PROVE  /\ r[t].orderId = slots[t].orderId /\ r[t].side = slots[t].side /\ r[t].price = slots[t].price
             /\ r[t].active = slots[t].active /\ r[t].levelIndex = slots[t].levelIndex
             /\ r[t].next = slots[t].next /\ r[t].prev = slots[t].prev
  <2>1. CASE t = s
    BY <1>1, <1>3, <2>1
  <2>2. CASE t # s
    BY <1>3, <2>2
  <2> QED BY <2>1, <2>2
<1> QED BY <1>1, <1>3, <1>4 DEF Requantified

(* Another quantity changes no list. *)
LEMMA RequantifiedKeeps ==
  ASSUME NEW slots \in [Slot -> OrderSlot], NEW s \in Slot, NEW quantity, NEW r, Requantified(r, slots, s, quantity),
         NEW q \in Lists, Threaded(slots, q), Queued(slots, q)
  PROVE  Spelled(r, q)
<1>1. \A t \in Slot :
       /\ r[t].side = slots[t].side /\ r[t].price = slots[t].price
       /\ r[t].active = slots[t].active
       /\ r[t].next = slots[t].next /\ r[t].prev = slots[t].prev
  BY DEF Requantified
<1>2. ASSUME NEW side \in Sides, NEW price \in Prices
      PROVE  Strung(r, q[side][price], side, price)
  <2> DEFINE c == q[side][price]
  <2>1. c \in Seq(Slot) /\ Strung(slots, c, side, price)
    BY DEF Lists, Threaded
  <2>2. \A k \in DOMAIN c : c[k] \in Slot
    <3> HIDE DEF c
    <3> QED BY <2>1, LenProperties
  <2> HIDE DEF c
  <2>3. Strung(r, c, side, price)
    BY <1>1, <2>1, <2>2 DEF Strung
  <2> QED BY <2>3 DEF c
<1>3. Queued(r, q)
  BY <1>1 DEF Queued
<1> QED BY <1>2, <1>3 DEF Threaded, Spelled

(* A side whose levels keep their prices keeps its best one. *)
LEMMA TopSame ==
  ASSUME NEW levels \in Seq(LevelSlot), NEW changed \in Seq(LevelSlot), DOMAIN changed = DOMAIN levels,
         \A i \in DOMAIN levels : changed[i].price = levels[i].price
  PROVE  TopPrice(changed) = TopPrice(levels)
<1>1. CASE levels = <<>>
  BY <1>1, EmptyList DEF TopPrice
<1>2. CASE levels # <<>>
  <2>1. changed # <<>> /\ 1 \in DOMAIN levels
    BY <1>2, EmptyList, LenProperties
  <2> QED BY <1>2, <2>1 DEF TopPrice
<1> QED BY <1>1, <1>2

(* What changing the quantity of order id does. *)
ModifiesIn(out, b, q, id, quantity) ==
  \E s, side, price, position, n :
    /\ s = FindOrderSlot(b, id) /\ b.slots[s].orderId = id
    /\ At(b, q, s, side, price, position, n)
    /\ Represents(out.book, q) /\ OthersKeep(out.book.slots, b.slots, s)
    /\ out.book.slots[s].orderId = id /\ out.book.slots[s].quantity = quantity
    /\ out.returned = TRUE
    /\ out.events = <<Update("Modify", side, price, quantity, Weight(out.book.slots, ToSet(q[side][price])), id)>>

(* With the difference of the quantities added the level describes its     *)
(* list again.                                                             *)
LEMMA Requantity ==
  ASSUME NEW b, NEW q, Assembled(b, q), NEW s, NEW side, NEW price, NEW position, NEW n,
         At(b, q, s, side, price, position, n), NEW quantity \in Nat \ {0},
         NEW level, level = Increased(b.levels[side][position], quantity - b.slots[s].quantity, 0),
         NEW r, Requantified(r, b.slots, s, quantity)
  PROVE  level \in LevelSlot /\ level.price = price /\ Describes(level, r, q[side][price])
<1> DEFINE slots == b.slots
           c == q[side][price]
           old == b.levels[side][position]
           was == slots[s].quantity
           T == ToSet(c)
           rest == Weight(slots, T \ {s})
<1>1. /\ s \in Slot /\ side \in Sides /\ price \in Prices /\ position \in DOMAIN b.levels[side]
      /\ old.price = price /\ Describes(old, slots, c)
  BY Zenon DEF At
<1>2. slots \in [Slot -> OrderSlot] /\ b \in Book /\ old \in LevelSlot
  BY <1>1, AssembledParts, LevelSlots
<1>3. /\ old.totalQty = rest + was /\ rest \in Nat /\ was \in Nat
      /\ old.orders = Len(c) /\ Len(c) \in Nat \ {0} /\ s \in T /\ T \subseteq Slot
  <2>1. Weighs(b, q, s, side, price, position)
    BY LevelWeighs
  <2> QED BY <2>1 DEF Weighs
<1>4. Weight(r, T) = rest + quantity
  <2>1. r \in [Slot -> OrderSlot] /\ r[s].quantity = quantity /\ \A t \in T \ {s} : r[t].quantity = slots[t].quantity
    BY <1>3 DEF Requantified
  <2> HIDE DEF slots, T
  <2> QED BY <1>2, <1>3, <2>1, WeightGrows DEF rest
<1> HIDE DEF rest, was, c, T
<1>5. IsLevel(level, old.price, rest + quantity, Len(c), old.first, old.last)
  <2>1. /\ quantity - was \in Int /\ 0 \in Int /\ old.totalQty + (quantity - was) = rest + quantity
        /\ rest + quantity \in Nat
        /\ old.orders + 0 = Len(c) /\ Len(c) \in Nat
    BY <1>3
  <2>2. level = Increased(old, quantity - was, 0)
    BY DEF was
  <2> HIDE DEF old
  <2>3. IsLevel(Increased(old, quantity - was, 0), old.price, old.totalQty + (quantity - was), old.orders + 0,
                old.first, old.last)
    BY <1>2, <2>1, LevelEdits
  <2> QED BY <2>1, <2>2, <2>3
<1>6. /\ level \in LevelSlot /\ level.price = old.price /\ level.totalQty = rest + quantity
      /\ level.orders = Len(c) /\ level.first = old.first /\ level.last = old.last
  BY <1>5 DEF IsLevel
<1>7. Describes(level, r, c)
  <2>1. old.first = FirstOf(c) /\ old.last = LastOf(c)
    BY <1>1 DEF Describes
  <2> QED BY <1>4, <1>6, <2>1 DEF Describes, T
<1> QED BY <1>1, <1>6, <1>7 DEF c

(* A live order with another positive quantity changes nothing for the     *)
(* index, the pool and the other levels.                                   *)
LEMMA RequantifiedRest ==
  ASSUME NEW b, NEW q, Assembled(b, q), NEW s \in Slot, b.slots[s].active, NEW quantity \in Nat \ {0},
         NEW r, Requantified(r, b.slots, s, quantity)
  PROVE  /\ IndexHolds(b.index, r) /\ Pooled(b.free, r, b.orderCount) /\ ActiveHaveQuantity(r)
         /\ OneMoved(r, b.slots, s) /\ OthersKeep(r, b.slots, s)
<1> DEFINE slots == b.slots
           index == b.index
<1>1. /\ slots \in [Slot -> OrderSlot] /\ IndexHolds(index, slots)
      /\ Pooled(b.free, slots, b.orderCount) /\ ActiveHaveQuantity(slots)
  BY AssembledParts DEF Assembled
<1>2. /\ r \in [Slot -> OrderSlot] /\ r[s].quantity = quantity
      /\ (\A t \in Slot : r[t].active = slots[t].active /\ r[t].orderId = slots[t].orderId)
      /\ (\A t \in Slot \ {s} : r[t] = slots[t])
  BY DEF Requantified
<1>3. IndexHolds(index, r)
  <2> HIDE DEF index, slots
  <2> QED BY <1>1, <1>2, IndexKeeps
<1>4. Pooled(b.free, r, b.orderCount)
  <2>1. ActiveIn(r) = ActiveIn(slots)
    BY <1>2 DEF ActiveIn
  <2>2. \A t \in Slot : ~ r[t].active => r[t] = slots[t]
    BY <1>2
  <2> QED BY <1>1, <1>2, <2>1, <2>2 DEF Pooled
<1>5. ActiveHaveQuantity(r)
  <2>1. ASSUME NEW t \in Slot PROVE r[t].active <=> r[t].quantity > 0
    <3>1. CASE t = s
      BY <1>2, <3>1
    <3>2. CASE t # s
      BY <1>1, <1>2, <3>2 DEF ActiveHaveQuantity
    <3> QED BY <3>1, <3>2
  <2> QED BY <2>1 DEF ActiveHaveQuantity
<1>6. OneMoved(r, slots, s)
  BY <1>2 DEF OneMoved
<1>7. OthersKeep(r, slots, s)
  BY <1>2 DEF OthersKeep
<1> QED BY <1>3, <1>4, <1>5, <1>6, <1>7

(* modifyOrder of a live order to a positive quantity keeps every list, so *)
(* the order keeps its place; the best prices need no update.              *)
LEMMA Modifying ==
  ASSUME NEW b, NEW q, Represents(b, q), NEW id \in OrderIds, FindOrderSlot(b, id) # Nil,
         NEW quantity \in Nat \ {0}
  PROVE  ModifiesIn(Modify(b, id, quantity), b, q, id, quantity)
<1> DEFINE s == FindOrderSlot(b, id)
           side == b.slots[s].side
           price == b.slots[s].price
           position == b.slots[s].levelIndex
           was == b.slots[s].quantity
           level == Increased(b.levels[side][position], quantity - was, 0)
           x == [b EXCEPT !.slots[s].quantity = quantity,
                          !.levels[side][position] = Increased(@, quantity - was, 0)]
           r == [b.slots EXCEPT ![s].quantity = quantity]
           out == Modify(b, id, quantity)
<1>1. out = Outcome(x, TRUE, <<Update("Modify", side, price, quantity, x.levels[side][position].totalQty, id)>>)
  <2>1. ~ (quantity <= 0)
    OBVIOUS
  <2> QED BY <2>1 DEF Modify
<1>2. Assembled(b, q) /\ (\A other \in Sides : NoneEmpty(b.levels[other], q[other]))
      /\ b.bestBid = TopPrice(b.levels["Buy"]) /\ b.bestAsk = TopPrice(b.levels["Sell"])
  BY DEF Represents
<1>3. s \in Slot /\ b.slots[s].active /\ b.slots[s].orderId = id
  <2> HIDE DEF s
  <2> QED BY <1>2, FindIs DEF s
<1>4. PICK n : At(b, q, s, side, price, position, n)
  <2> HIDE DEF s
  <2> QED BY <1>2, <1>3, LiveIsAt
<1>5. s = FindOrderSlot(b, id) /\ level = Increased(b.levels[side][position], quantity - b.slots[s].quantity, 0)
  OBVIOUS
<1> HIDE DEF out, s, side, price, position
<1>6. /\ side \in Sides /\ price \in Prices /\ position \in DOMAIN b.levels[side]
      /\ b.levels[side][position].price = price /\ Matches(b.slots[s], side, price)
      /\ b.slots[s].levelIndex = position
  BY <1>4, Zenon DEF At, Matches
<1>7. /\ b \in Book /\ b.levels[side] \in Seq(LevelSlot) /\ q \in Lists /\ b.slots \in [Slot -> OrderSlot]
      /\ Threaded(b.slots, q) /\ Queued(b.slots, q)
      /\ q[side][price] \in Seq(Slot)
  BY <1>2, <1>6, AssembledParts
<1>8. Requantified(r, b.slots, s, quantity)
  <2> DEFINE slots == b.slots
  <2>1. r = [slots EXCEPT ![s].quantity = quantity] /\ slots \in [Slot -> OrderSlot]
    BY <1>7
  <2>2. quantity \in Nat
    OBVIOUS
  <2> HIDE DEF r, slots
  <2>3. Requantified(r, slots, s, quantity)
    BY <1>3, <2>1, <2>2, Requantifies
  <2> QED BY <2>3 DEF slots
<1>9. x = [b EXCEPT !.slots = r, !.levels[side][position] = level]
  BY <1>7 DEF Book
<1> HIDE DEF x, r, was
<1>10. level \in LevelSlot /\ level.price = price /\ Describes(level, r, q[side][price])
  <2> HIDE DEF level
  <2> QED BY <1>2, <1>4, <1>5, <1>8, Requantity
<1> HIDE DEF level
<1>11. LevelWritten(x, b, side, position, level, r)
  <2>1. r \in [Slot -> OrderSlot]
    BY <1>8 DEF Requantified
  <2> QED BY <1>6, <1>7, <1>9, <1>10, <2>1, WritesLevelAndSlots
<1>12. /\ x \in Book /\ x.slots = r
       /\ x.levels[side] = [b.levels[side] EXCEPT ![position] = level]
       /\ x.levels[side][position] = level
       /\ (\A other \in Sides \ {side} : x.levels[other] = b.levels[other])
       /\ SameRest(x, b)
  BY <1>11 DEF LevelWritten
<1>13. Spelled(r, q)
  <2> DEFINE slots == b.slots
  <2>1. slots \in [Slot -> OrderSlot] /\ Requantified(r, slots, s, quantity)
        /\ Threaded(slots, q) /\ Queued(slots, q)
    BY <1>7, <1>8
  <2> HIDE DEF slots
  <2> QED BY <1>3, <1>7, <2>1, RequantifiedKeeps
<1>14. /\ IndexHolds(b.index, r) /\ Pooled(b.free, r, b.orderCount) /\ ActiveHaveQuantity(r)
       /\ OneMoved(r, b.slots, s) /\ OthersKeep(r, b.slots, s)
  BY <1>2, <1>3, <1>8, RequantifiedRest, Zenon
<1> DEFINE new == q[side][price]
           levels == x.levels
<1>15. q = [q EXCEPT ![side][price] = new]
  BY <1>6, <1>7 DEF Lists
<1>16. ListChange(b, q, side, price, position, level, levels, s, r, new, q)
  <2>1. levels \in [Sides -> Seq(LevelSlot)]
        /\ levels[side] = [b.levels[side] EXCEPT ![position] = level]
        /\ (\A other \in Sides \ {side} : levels[other] = b.levels[other])
    BY <1>12, BookFields
  <2>2. r[s].active => Matches(r[s], side, price) /\ r[s].levelIndex = position
    BY <1>3, <1>6, <1>8 DEF Requantified, Matches
  <2>3. new \in Seq(Slot) /\ Describes(level, r, new) /\ price = b.levels[side][position].price
    BY <1>6, <1>7, <1>10
  <2> HIDE DEF levels, new
  <2> QED BY <1>2, <1>3, <1>6, <1>10, <1>14, <1>15, <2>1, <2>2, <2>3 DEF ListChange
<1>17. \A i \in Sides : LevelsFit(i, levels[i], r, q[i])
  <2> HIDE DEF levels, new
  <2> QED BY <1>16, ListChanged
<1>18. Assembled(x, q)
  BY <1>12, <1>13, <1>14, <1>17 DEF Assembled, Spelled, SameRest
<1>19. /\ DOMAIN x.levels[side] = DOMAIN b.levels[side]
       /\ \A i \in DOMAIN b.levels[side] : x.levels[side][i].price = b.levels[side][i].price
  BY <1>6, <1>10, <1>12
<1>20. \A other \in Sides : NoneEmpty(x.levels[other], q[other]) /\ TopPrice(x.levels[other]) = TopPrice(b.levels[other])
  <2>1. NoneEmpty(x.levels[side], q[side])
    BY <1>2, <1>6, <1>19 DEF NoneEmpty
  <2>2. TopPrice(x.levels[side]) = TopPrice(b.levels[side])
    <3>1. x.levels[side] \in Seq(LevelSlot)
      <4>1. x \in Book
        BY <1>12
      <4> QED BY <1>6, <4>1, BookFields
    <3> QED BY <1>7, <1>19, <3>1, TopSame
  <2> QED BY <1>2, <1>12, <2>1, <2>2
<1>21. Represents(x, q)
  BY <1>2, <1>12, <1>18, <1>20 DEF Represents, Sides, SameRest
<1>22. out.book = x /\ out.returned = TRUE
       /\ out.events = <<Update("Modify", side, price, quantity, x.levels[side][position].totalQty, id)>>
  BY <1>1 DEF Outcome
<1>23. out.events = <<Update("Modify", side, price, quantity, Weight(out.book.slots, ToSet(q[side][price])), id)>>
  BY <1>10, <1>12, <1>22 DEF Describes
<1>24. out.book.slots[s].orderId = id /\ out.book.slots[s].quantity = quantity
  BY <1>3, <1>8, <1>12, <1>22 DEF Requantified
<1>25. Represents(out.book, q) /\ OthersKeep(out.book.slots, b.slots, s)
  BY <1>12, <1>14, <1>21, <1>22
<1>26. ModifiesIn(out, b, q, id, quantity)
  BY <1>3, <1>4, <1>5, <1>22, <1>23, <1>24, <1>25 DEF ModifiesIn
<1> QED BY <1>26 DEF out

-----------------------------------------------------------------------------
(* The empty book *)

(* Every list empty. *)
NoLists == [side \in Sides |-> [price \in Prices |-> <<>>]]

(* Wiped slots spell empty lists, and no levels fit them. *)
LEMMA EmptySlots ==
  LET slots == [s \in Slot |-> EmptySlot]
  IN  /\ slots \in [Slot -> OrderSlot] /\ ActiveHaveQuantity(slots)
      /\ \A s \in Slot : ~ slots[s].active
      /\ Threaded(slots, NoLists) /\ Queued(slots, NoLists) /\ NoLists \in Lists
      /\ \A side \in Sides : LevelsFit(side, <<>>, slots, NoLists[side]) /\ NoneEmpty(<<>>, NoLists[side])
<1> DEFINE slots == [s \in Slot |-> EmptySlot]
<1>1. slots \in [Slot -> OrderSlot] /\ \A s \in Slot : slots[s] = EmptySlot
  BY EmptySlotIs
<1>2. \A s \in Slot : ~ slots[s].active /\ slots[s].quantity = 0
  BY <1>1, EmptySlotIs
<1>3. ActiveHaveQuantity(slots)
  BY <1>2 DEF ActiveHaveQuantity
<1>4. \A side \in Sides, price \in Prices : NoLists[side][price] = <<>>
  BY DEF NoLists
<1>5. NoLists \in Lists
  BY DEF NoLists, Lists
<1> HIDE DEF slots
<1>6. Threaded(slots, NoLists)
  BY <1>4 DEF Threaded, Strung, NoRepeats
<1>7. Queued(slots, NoLists)
  BY <1>2 DEF Queued
<1>8. ASSUME NEW side \in Sides
      PROVE  LevelsFit(side, <<>>, slots, NoLists[side]) /\ NoneEmpty(<<>>, NoLists[side])
  <2>1. Len(<<>>) <= MaxLevels
    BY BookAssumption
  <2>2. Sorted(side, <<>>) /\ Placed(side, <<>>, slots) /\ NoneEmpty(<<>>, NoLists[side])
    BY <1>2 DEF Sorted, Placed, NoneEmpty
  <2> QED BY <2>1, <2>2 DEF LevelsFit
<1> QED BY <1>1, <1>2, <1>3, <1>5, <1>6, <1>7, <1>8 DEF slots

(* The empty index holds the orders of a book that has none. *)
LEMMA EmptyIndex ==
  ASSUME NEW slots, \A s \in Slot : ~ slots[s].active
  PROVE  IndexHolds(Index!EmptyTable, slots)
<1> DEFINE table == Index!EmptyTable
<1>1. /\ Ids!Bucket = Index!Bucket /\ table = [i \in Ids!Bucket |-> Ids!Empty]
  BY DEF Ids!Bucket, Index!Bucket, Ids!Empty, Index!EmptyTable, Index!EmptyEntry
<1> HIDE DEF table
<1>2. table \in Ids!Table /\ \A i \in Ids!Bucket : ~ Ids!Full(table, i)
  BY <1>1 DEF Ids!Table, Ids!Full
<1>3. \A id \in OrderIds : LiveOf(slots)[id] = Nil
  BY DEF LiveOf
<1>4. Ids!Holds(table, LiveOf(slots)) /\ Ids!Once(table) /\ Ids!AllReached(Home, table)
  BY <1>2, <1>3 DEF Ids!Holds, Ids!Once, Ids!AllReached
<1>5. OneOrderPerId(slots)
  BY DEF OneOrderPerId
<1> QED BY <1>2, <1>4, <1>5 DEF IndexHolds, table

(* The stack resetStorage fills has each slot once. *)
LEMMA FullStack ==
  LET free == [i \in 1 .. MaxOrders |-> MaxOrders - i]
  IN  free \in Seq(Slot) /\ NoRepeats(free) /\ \A s \in Slot : s \in ToSet(free)
<1> DEFINE free == [i \in 1 .. MaxOrders |-> MaxOrders - i]
<1>1. MaxOrders \in Nat
  BY BookAssumption
<1>2. \A i \in 1 .. MaxOrders : MaxOrders - i \in Slot
  BY <1>1 DEF Slot
<1>3. free \in Seq(Slot) /\ DOMAIN free = 1 .. MaxOrders
  BY <1>1, <1>2, IsASeq
<1>4. NoRepeats(free)
  BY <1>1, <1>3 DEF NoRepeats
<1>5. ASSUME NEW s \in Slot
      PROVE  s \in ToSet(free)
  <2>1. MaxOrders - s \in 1 .. MaxOrders /\ free[MaxOrders - s] = s
    BY <1>1 DEF Slot
  <2> HIDE DEF free
  <2> QED BY <1>3, <2>1 DEF ToSet
<1> QED BY <1>3, <1>4, <1>5

(* A book after resetStorage stands for empty lists. *)
LEMMA EmptyRepresents == Represents(EmptyBook, NoLists)
<1> DEFINE slots == [s \in Slot |-> EmptySlot]
           free == [i \in 1 .. MaxOrders |-> MaxOrders - i]
           levels == [side \in Sides |-> <<>>]
           table == Index!EmptyTable
<1>1. /\ slots \in [Slot -> OrderSlot] /\ ActiveHaveQuantity(slots)
      /\ (\A s \in Slot : ~ slots[s].active)
      /\ Threaded(slots, NoLists) /\ Queued(slots, NoLists) /\ NoLists \in Lists
      /\ \A side \in Sides : LevelsFit(side, <<>>, slots, NoLists[side]) /\ NoneEmpty(<<>>, NoLists[side])
  BY EmptySlots
<1>2. free \in Seq(Slot) /\ NoRepeats(free) /\ \A s \in Slot : s \in ToSet(free)
  BY FullStack
<1>3. IndexHolds(table, slots)
  <2> HIDE DEF slots, table
  <2> QED BY <1>1, EmptyIndex DEF table
<1>4. /\ EmptyBook.levels = levels /\ EmptyBook.slots = slots /\ EmptyBook.free = free
      /\ EmptyBook.index = table /\ EmptyBook.orderCount = 0
      /\ EmptyBook.bestBid = InvalidPrice /\ EmptyBook.bestAsk = InvalidPrice
      /\ EmptyBook = [levels |-> levels, slots |-> slots, free |-> free, index |-> table,
                      orderCount |-> 0, bestBid |-> InvalidPrice, bestAsk |-> InvalidPrice]
  BY DEF EmptyBook
<1>5. levels \in [Sides -> Seq(LevelSlot)] /\ \A side \in Sides : levels[side] = <<>>
  OBVIOUS
<1>6. \A s \in Slot : slots[s] = EmptySlot
  OBVIOUS
<1> HIDE DEF slots, free, levels, table
<1>7. table \in [Index!Bucket -> [orderId : OrderIds \cup {Nil}, slot : Slot \cup {Nil}]]
  BY <1>3, TableIs DEF IndexHolds
<1>8. EmptyBook \in Book
  <2>1. InvalidPrice \in PriceArguments /\ 0 \in Nat
    BY DEF PriceArguments
  <2> QED BY <1>1, <1>2, <1>4, <1>5, <1>7, <2>1 DEF Book
<1>9. Pooled(free, slots, 0)
  <2>1. ActiveIn(slots) = {}
    BY <1>1 DEF ActiveIn
  <2>2. Cardinality(ActiveIn(slots)) = 0
    BY <2>1, FS_EmptySet
  <2> QED BY <1>1, <1>2, <1>6, <2>2 DEF Pooled
<1>10. Assembled(EmptyBook, NoLists)
  BY <1>1, <1>3, <1>4, <1>5, <1>8, <1>9 DEF Assembled
<1>11. \A side \in Sides : NoneEmpty(EmptyBook.levels[side], NoLists[side]) /\ TopPrice(EmptyBook.levels[side]) = InvalidPrice
  BY <1>1, <1>4, <1>5 DEF TopPrice
<1> QED BY <1>4, <1>10, <1>11 DEF Represents, Sides

-----------------------------------------------------------------------------
(* What the book shows *)

(* What a list of slots shows. *)
ShownList(slots, c) ==
  [k \in DOMAIN c |-> [orderId |-> slots[c[k]].orderId, quantity |-> slots[c[k]].quantity]]

(* The queues the lists q show. *)
Shown(slots, q) == [side \in Sides |-> [price \in Prices |-> ShownList(slots, q[side][price])]]

(* The orders of the queues. *)
Order == [orderId : OrderIds, quantity : Nat]

(* What a list shows, member by member. *)
LEMMA ShownListIs ==
  ASSUME NEW slots \in [Slot -> OrderSlot], NEW c \in Seq(Slot)
  PROVE  /\ ShownList(slots, c) \in Seq(Order) /\ Len(ShownList(slots, c)) = Len(c)
         /\ DOMAIN ShownList(slots, c) = DOMAIN c /\ DOMAIN c = 1 .. Len(c) /\ Len(c) \in Nat
         /\ \A k \in DOMAIN c :
              ShownList(slots, c)[k] = [orderId |-> slots[c[k]].orderId, quantity |-> slots[c[k]].quantity]
         /\ ShownList(slots, c) = <<>> <=> c = <<>>
<1> DEFINE f == ShownList(slots, c)
<1>1. Len(c) \in Nat /\ DOMAIN c = 1 .. Len(c) /\ \A k \in 1 .. Len(c) : c[k] \in Slot
  BY LenProperties
<1>2. \A k \in 1 .. Len(c) :
        [orderId |-> slots[c[k]].orderId, quantity |-> slots[c[k]].quantity] \in Order
  BY <1>1 DEF OrderSlot, Order
<1>3. f = [k \in 1 .. Len(c) |-> [orderId |-> slots[c[k]].orderId, quantity |-> slots[c[k]].quantity]]
  BY <1>1 DEF ShownList
<1>4. f \in Seq(Order) /\ Len(f) = Len(c)
  <2> DEFINE e(k) == [orderId |-> slots[c[k]].orderId, quantity |-> slots[c[k]].quantity]
  <2>1. \A k \in 1 .. Len(c) : e(k) \in Order
    BY <1>2
  <2>2. f = [k \in 1 .. Len(c) |-> e(k)]
    BY <1>3
  <2> HIDE DEF e, f
  <2>3. f \in [1 .. Len(c) -> Order]
    BY <2>1, <2>2
  <2>4. f \in Seq(Order)
    BY <1>1, <2>3
  <2> QED BY <1>1, <2>3, <2>4, LenProperties
<1>5. f = <<>> <=> c = <<>>
  <2> HIDE DEF f
  <2> QED BY <1>4, EmptyList
<1> QED BY <1>1, <1>3, <1>4, <1>5

(* The queues a storage shows, price by price. *)
LEMMA ShownIs ==
  ASSUME NEW b, NEW q, Assembled(b, q)
  PROVE  /\ \A side \in Sides, price \in Prices : Shown(b.slots, q)[side][price] = ShownList(b.slots, q[side][price])
         /\ Shown(b.slots, q) \in [Sides -> [Prices -> Seq(Order)]]
<1>1. b.slots \in [Slot -> OrderSlot]
      /\ \A side \in Sides, price \in Prices : q[side][price] \in Seq(Slot)
  BY AssembledParts
<1>2. \A side \in Sides, price \in Prices : ShownList(b.slots, q[side][price]) \in Seq(Order)
  BY <1>1, ShownListIs
<1> QED BY <1>2 DEF Shown

(* The promised book's operators are those of this module. *)
LEMMA SameNames ==
  /\ PriceTime!Sides = Sides /\ PriceTime!NoOrders = Shown(EmptyBook.slots, NoLists)
  /\ \A action, side, price, quantity, total, id :
       PriceTime!Update(action, side, price, quantity, total, id) = Update(action, side, price, quantity, total, id)
<1>1. PriceTime!Sides = Sides
  BY DEF PriceTime!Sides, Sides
<1>2. \A side \in Sides, price \in Prices : ShownList(EmptyBook.slots, NoLists[side][price]) = <<>>
  <2> SUFFICES ASSUME NEW side \in Sides, NEW price \in Prices
               PROVE  ShownList(EmptyBook.slots, NoLists[side][price]) = <<>>
    OBVIOUS
  <2>1. NoLists[side][price] = <<>> /\ <<>> \in Seq(Slot)
    BY DEF NoLists
  <2>2. EmptyBook.slots \in [Slot -> OrderSlot]
    BY EmptyRepresents, AssembledParts DEF Represents
  <2> QED BY <2>1, <2>2, ShownListIs
<1>3. PriceTime!NoOrders = Shown(EmptyBook.slots, NoLists)
  BY <1>1, <1>2 DEF PriceTime!NoOrders, Shown
<1> QED BY <1>1, <1>3 DEF PriceTime!Update, Update

(* The total the queues promise is the weight of the list that shows them. *)
LEMMA TotalShown ==
  ASSUME NEW slots \in [Slot -> OrderSlot], NEW c \in Seq(Slot), NoRepeats(c)
  PROVE  PriceTime!Total(ShownList(slots, c)) = Weight(slots, ToSet(c))
<1> DEFINE f == [k \in DOMAIN c |-> slots[c[k]].quantity]
           g == [i \in DOMAIN ShownList(slots, c) |-> ShownList(slots, c)[i].quantity]
<1>1. f = g
  <2> DEFINE h == ShownList(slots, c)
  <2>1. DOMAIN h = DOMAIN c
    BY ShownListIs
  <2>2. \A k \in DOMAIN c : h[k] = [orderId |-> slots[c[k]].orderId, quantity |-> slots[c[k]].quantity]
    BY ShownListIs
  <2> HIDE DEF h
  <2>3. ASSUME NEW k \in DOMAIN c
        PROVE  h[k].quantity = slots[c[k]].quantity
    <3>1. h[k] = [orderId |-> slots[c[k]].orderId, quantity |-> slots[c[k]].quantity]
      BY <2>2, Zenon
    <3> QED BY <3>1
  <2>4. [i \in DOMAIN h |-> h[i].quantity] = f
    BY <2>1, <2>3
  <2> QED BY <2>4 DEF h
<1>2. PriceTime!Total(ShownList(slots, c)) = PriceTime!SumFunction(g)
  BY DEF PriceTime!Total
<1>3. SumFunction(f) = Weight(slots, ToSet(c))
  BY TotalIs
<1> HIDE DEF f, g
<1>4. PriceTime!SumFunction(f) = SumFunction(f)
  BY DEF PriceTime!SumFunction, PriceTime!SumFunctionOnSet, PriceTime!FoldFunctionOnSet, PriceTime!MapThenFoldSet,
         SumFunction, SumFunctionOnSet, FoldFunctionOnSet, MapThenFoldSet
<1> QED BY <1>1, <1>2, <1>3, <1>4

-----------------------------------------------------------------------------
(* Where orders rest *)

(* The places in the lists, as the promised book names them, and the slot  *)
(* at each.                                                                *)
Spots(q) == {at \in Sides \X Prices \X (1 .. MaxOrders) : at[3] \in DOMAIN q[at[1]][at[2]]}

SlotAt(q, at) == q[at[1]][at[2]][at[3]]

(* A member of a list is at a place. *)
LEMMA SpotIs ==
  ASSUME NEW q, NEW side \in Sides, NEW price \in Prices, NEW k \in 1 .. MaxOrders, k \in DOMAIN q[side][price]
  PROVE  <<side, price, k>> \in Spots(q) /\ SlotAt(q, <<side, price, k>>) = q[side][price][k]
BY DEF Spots, SlotAt

(* A place is a side, a price and a position in their list. *)
LEMMA SpotParts ==
  ASSUME NEW q, NEW at \in Spots(q)
  PROVE  /\ at[1] \in Sides /\ at[2] \in Prices /\ at[3] \in DOMAIN q[at[1]][at[2]]
         /\ at = <<at[1], at[2], at[3]>>
BY DEF Spots

(* At each place is a live order of its side and price. *)
LEMMA SpotHolds ==
  ASSUME NEW b, NEW q, Assembled(b, q), NEW at \in Spots(q)
  PROVE  /\ SlotAt(q, at) \in ActiveIn(b.slots)
         /\ b.slots[SlotAt(q, at)].side = at[1] /\ b.slots[SlotAt(q, at)].price = at[2]
<1> DEFINE side == at[1]
           price == at[2]
           k == at[3]
           c == q[side][price]
<1>1. side \in Sides /\ price \in Prices /\ k \in DOMAIN c
  BY SpotParts
<1>2. c \in Seq(Slot) /\ Strung(b.slots, c, side, price)
  BY <1>1, AssembledParts DEF Threaded
<1>3. SlotAt(q, at) = c[k]
  BY DEF SlotAt
<1> HIDE DEF side, price, k, c
<1>4. c[k] \in Slot /\ b.slots[c[k]].active /\ b.slots[c[k]].side = side /\ b.slots[c[k]].price = price
  BY <1>1, <1>2, LenProperties DEF Strung
<1> QED BY <1>3, <1>4 DEF ActiveIn, side, price

(* No order is at two places. *)
LEMMA SpotsDiffer ==
  ASSUME NEW b, NEW q, Assembled(b, q), NEW at \in Spots(q), NEW on \in Spots(q), SlotAt(q, at) = SlotAt(q, on)
  PROVE  at = on
<1>1. at[1] = on[1] /\ at[2] = on[2]
  BY SpotHolds
<1>2. /\ at[1] \in Sides /\ at[2] \in Prices /\ at[3] \in DOMAIN q[at[1]][at[2]]
      /\ on[3] \in DOMAIN q[at[1]][at[2]]
      /\ at = <<at[1], at[2], at[3]>> /\ on = <<on[1], on[2], on[3]>>
  BY <1>1, SpotParts
<1>3. NoRepeats(q[at[1]][at[2]]) /\ q[at[1]][at[2]][at[3]] = q[at[1]][at[2]][on[3]]
  BY <1>1, <1>2, AssembledParts DEF SlotAt
<1>4. at[3] = on[3]
  BY <1>2, <1>3 DEF NoRepeats
<1> QED BY <1>1, <1>2, <1>4

(* Where the live order in slot s is, as a place. *)
LEMMA SpotOf ==
  ASSUME NEW b, NEW q, Assembled(b, q), NEW s, NEW side, NEW price, NEW position, NEW n,
         At(b, q, s, side, price, position, n)
  PROVE  <<side, price, n>> \in Spots(q) /\ SlotAt(q, <<side, price, n>>) = s
<1>1. side \in Sides /\ price \in Prices /\ n \in DOMAIN q[side][price] /\ q[side][price][n] = s
  BY Zenon DEF At
<1> DEFINE c == q[side][price]
<1>2. c \in Seq(Slot) /\ NoRepeats(c)
  BY <1>1, AssembledParts
<1>3. Len(c) \in 0 .. MaxOrders /\ DOMAIN c = 1 .. Len(c)
  <2> HIDE DEF c
  <2> QED BY <1>2, ListFits
<1>4. n \in 1 .. MaxOrders
  <2> HIDE DEF c
  <2>1. n \in 1 .. Len(c)
    BY <1>1, <1>3 DEF c
  <2> QED BY <1>3, <2>1, BookAssumption
<1> QED BY <1>1, <1>4, SpotIs

(* Every live order rests in one place. *)
LEMMA AsManySpots ==
  ASSUME NEW b, NEW q, Assembled(b, q)
  PROVE  IsFiniteSet(Spots(q)) /\ Cardinality(Spots(q)) = b.orderCount
<1> DEFINE f == [at \in Spots(q) |-> SlotAt(q, at)]
           live == ActiveIn(b.slots)
<1>1. f \in Bijection(Spots(q), live)
  <2>1. f \in [Spots(q) -> live]
    BY SpotHolds
  <2>2. \A at, on \in Spots(q) : f[at] = f[on] => at = on
    BY SpotsDiffer
  <2>3. ASSUME NEW s \in live
        PROVE  \E at \in Spots(q) : f[at] = s
    <3>1. s \in Slot /\ b.slots[s].active
      BY DEF ActiveIn
    <3>2. PICK n : At(b, q, s, b.slots[s].side, b.slots[s].price, b.slots[s].levelIndex, n)
      BY <3>1, LiveIsAt
    <3> DEFINE at == <<b.slots[s].side, b.slots[s].price, n>>
    <3>3. at \in Spots(q) /\ SlotAt(q, at) = s
      BY <3>2, SpotOf
    <3> HIDE DEF at
    <3>4. f[at] = s
      BY <3>3
    <3> QED BY <3>3, <3>4
  <2> HIDE DEF f, live
  <2> QED BY <2>1, <2>2, <2>3, Fun_IsBij
<1>2. IsFiniteSet(live)
  BY ASlotIsNoNil, FS_Subset DEF ActiveIn
<1>3. IsFiniteSet(Spots(q)) /\ Cardinality(Spots(q)) = Cardinality(live)
  <2>1. ExistsBijection(Spots(q), live)
    BY <1>1 DEF ExistsBijection
  <2>2. ExistsBijection(live, Spots(q))
    BY <2>1, Fun_ExistsBijSymmetric
  <2>3. IsFiniteSet(Spots(q))
    BY <1>2, <2>2, FS_Bijection
  <2> QED BY <1>2, <2>1, <2>3, FS_Bijection
<1>4. b.orderCount = Cardinality(live)
  BY DEF Assembled, Pooled
<1> QED BY <1>3, <1>4

(* The stack is empty when every slot is taken. *)
LEMMA FullIs ==
  ASSUME NEW b, NEW q, Assembled(b, q)
  PROVE  b.free = <<>> <=> b.orderCount = MaxOrders
<1> DEFINE slots == b.slots
           free == b.free
<1>1. /\ free \in Seq(Slot) /\ (\A s \in Slot : s \in ToSet(free) <=> ~ slots[s].active)
      /\ b.orderCount = Cardinality(ActiveIn(slots))
  BY DEF Assembled, Pooled
<1>2. IsFiniteSet(Slot) /\ Cardinality(Slot) = MaxOrders /\ ActiveIn(slots) \subseteq Slot
  BY ASlotIsNoNil DEF ActiveIn
<1>3. Cardinality(ActiveIn(slots)) = MaxOrders <=> ActiveIn(slots) = Slot
  BY <1>2, FS_Subset
<1> HIDE DEF slots, free
<1>4. ActiveIn(slots) = Slot <=> free = <<>>
  <2>1. free = <<>> => ToSet(free) = {}
    BY DEF ToSet
  <2>2. free # <<>> => \E s \in Slot : s \in ToSet(free)
    <3>1. free # <<>> => Len(free) \in DOMAIN free /\ free[Len(free)] \in Slot
      BY <1>1, SubSeqIs
    <3> QED BY <3>1 DEF ToSet
  <2> QED BY <1>1, <2>1, <2>2 DEF ActiveIn
<1> QED BY <1>1, <1>3, <1>4 DEF free

(* Where the promised book finds an order. *)
LEMMA PlacesAre ==
  ASSUME NEW b, NEW q, Assembled(b, q), NEW id
  PROVE  /\ PriceTime!Occupied(Shown(b.slots, q)) = Spots(q)
         /\ PriceTime!OrderCount(Shown(b.slots, q)) = b.orderCount
         /\ PriceTime!Places(Shown(b.slots, q), id) = {at \in Spots(q) : b.slots[SlotAt(q, at)].orderId = id}
<1> DEFINE A == Shown(b.slots, q)
<1>1. \A side \in Sides, price \in Prices :
        /\ DOMAIN A[side][price] = DOMAIN q[side][price]
        /\ \A k \in DOMAIN q[side][price] : A[side][price][k].orderId = b.slots[q[side][price][k]].orderId
  <2> SUFFICES ASSUME NEW side \in Sides, NEW price \in Prices
               PROVE  /\ DOMAIN A[side][price] = DOMAIN q[side][price]
                      /\ \A k \in DOMAIN q[side][price] :
                           A[side][price][k].orderId = b.slots[q[side][price][k]].orderId
    OBVIOUS
  <2> DEFINE c == q[side][price]
             f == A[side][price]
  <2>1. f = ShownList(b.slots, c)
    BY ShownIs
  <2>2. DOMAIN f = DOMAIN c
    BY <2>1 DEF ShownList
  <2>3. ASSUME NEW k \in DOMAIN c PROVE f[k].orderId = b.slots[c[k]].orderId
    <3>1. f[k] = [orderId |-> b.slots[c[k]].orderId, quantity |-> b.slots[c[k]].quantity]
      BY <2>1 DEF ShownList
    <3> HIDE DEF f
    <3> QED BY <3>1
  <2> QED BY <2>2, <2>3
<1> HIDE DEF A
<1>2. PriceTime!Occupied(A) = Spots(q)
  BY <1>1, SameNames DEF PriceTime!Occupied, Spots
<1>3. PriceTime!OrderCount(A) = b.orderCount
  BY <1>2, AsManySpots DEF PriceTime!OrderCount, PriceTime!Cardinality, Cardinality
<1>4. \A at \in Spots(q) : A[at[1]][at[2]][at[3]].orderId = b.slots[SlotAt(q, at)].orderId
  BY <1>1, SpotParts DEF SlotAt
<1>5. PriceTime!Places(A, id) = {at \in Spots(q) : b.slots[SlotAt(q, at)].orderId = id}
  BY <1>2, <1>4 DEF PriceTime!Places
<1> QED BY <1>2, <1>3, <1>5 DEF A

(* They find the same orders. *)
LEMMA FindsSame ==
  ASSUME NEW b, NEW q, Assembled(b, q), NEW id \in OrderIds
  PROVE  PriceTime!Places(Shown(b.slots, q), id) = {} <=> FindOrderSlot(b, id) = Nil
<1> DEFINE s == FindOrderSlot(b, id)
           places == {at \in Spots(q) : b.slots[SlotAt(q, at)].orderId = id}
<1>1. PriceTime!Places(Shown(b.slots, q), id) = places
  BY PlacesAre
<1>2. /\ s # Nil => s \in Slot /\ b.slots[s].active /\ b.slots[s].orderId = id
      /\ s = Nil => \A t \in Slot : b.slots[t].active => b.slots[t].orderId # id
  <2> HIDE DEF s
  <2> QED BY FindIs DEF s
<1>3. ASSUME s # Nil PROVE places # {}
  <2> HIDE DEF s
  <2>1. PICK n : At(b, q, s, b.slots[s].side, b.slots[s].price, b.slots[s].levelIndex, n)
    BY <1>2, <1>3, LiveIsAt
  <2> DEFINE at == <<b.slots[s].side, b.slots[s].price, n>>
  <2>2. at \in Spots(q) /\ SlotAt(q, at) = s
    BY <2>1, SpotOf
  <2> HIDE DEF at
  <2>3. b.slots[SlotAt(q, at)].orderId = id
    BY <1>2, <1>3, <2>2
  <2> QED BY <2>2, <2>3
<1>4. ASSUME s = Nil PROVE places = {}
  <2>1. \A at \in Spots(q) : SlotAt(q, at) \in Slot /\ b.slots[SlotAt(q, at)].active
    BY SpotHolds DEF ActiveIn
  <2> QED BY <1>2, <1>4, <2>1
<1> QED BY <1>1, <1>3, <1>4

(* The promised book finds a live order at its one place. *)
LEMMA OnePlace ==
  ASSUME NEW b, NEW q, Assembled(b, q), NEW s, NEW side, NEW price, NEW position, NEW n,
         At(b, q, s, side, price, position, n), NEW id, id = b.slots[s].orderId
  PROVE  PriceTime!Places(Shown(b.slots, q), id) = {<<side, price, n>>}
<1> DEFINE at == <<side, price, n>>
<1>1. at \in Spots(q) /\ SlotAt(q, at) = s
  BY SpotOf
<1>2. s \in Slot /\ b.slots[s].active
  BY Zenon DEF At
<1>3. OneOrderPerId(b.slots)
  BY DEF Assembled, IndexHolds
<1> HIDE DEF at
<1>4. ASSUME NEW on \in Spots(q), b.slots[SlotAt(q, on)].orderId = id
      PROVE  on = at
  <2>1. SlotAt(q, on) \in Slot /\ b.slots[SlotAt(q, on)].active
    BY SpotHolds DEF ActiveIn
  <2>2. SlotAt(q, on) = s
    BY <1>2, <1>3, <1>4, <2>1 DEF OneOrderPerId
  <2> QED BY <1>1, <2>2, SpotsDiffer
<1>5. {on \in Spots(q) : b.slots[SlotAt(q, on)].orderId = id} = {at}
  BY <1>1, <1>4
<1>6. PriceTime!Places(Shown(b.slots, q), id) = {at}
  BY <1>5, PlacesAre
<1> QED BY <1>6 DEF at

-----------------------------------------------------------------------------
(* Levels and the prices with orders *)

(* The prices of the levels. *)
LevelPrices(levels) == {levels[i].price : i \in DOMAIN levels}

(* The prices with orders are those of the levels. *)
LEMMA LevelsAre ==
  ASSUME NEW b, NEW q, Represents(b, q), NEW side \in Sides
  PROVE  PriceTime!Levels(Shown(b.slots, q), side) = LevelPrices(b.levels[side])
<1> DEFINE levels == b.levels[side]
           slots == b.slots
           A == Shown(slots, q)
<1>1. /\ Assembled(b, q) /\ NoneEmpty(levels, q[side])
  BY DEF Represents
<1>2. /\ slots \in [Slot -> OrderSlot] /\ q \in Lists /\ Threaded(slots, q)
      /\ levels \in Seq(LevelSlot) /\ LevelsFit(side, levels, slots, q[side])
  BY <1>1, AssembledParts
<1>3. ASSUME NEW price \in Prices
      PROVE  A[side][price] # <<>> <=> q[side][price] # <<>>
  <2>1. A[side][price] = ShownList(slots, q[side][price])
    BY <1>1, ShownIs
  <2>2. q[side][price] \in Seq(Slot)
    BY <1>2, ListIs
  <2> HIDE DEF A, slots
  <2> QED BY <1>2, <2>1, <2>2, ShownListIs
<1>4. PriceTime!Levels(A, side) = {price \in Prices : q[side][price] # <<>>}
  BY <1>3 DEF PriceTime!Levels
<1> HIDE DEF A
<1>5. \A i \in DOMAIN levels : levels[i].price \in Prices /\ q[side][levels[i].price] # <<>>
  BY <1>1, <1>2, LevelSlots DEF NoneEmpty
<1>6. ASSUME NEW price \in Prices, q[side][price] # <<>>
      PROVE  \E i \in DOMAIN levels : levels[i].price = price
  <2> DEFINE c == q[side][price]
  <2>1. c \in Seq(Slot) /\ Strung(slots, c, side, price)
    BY <1>2, ListIs DEF Threaded
  <2>2. 1 \in DOMAIN c /\ c[1] \in Slot
    <3> HIDE DEF c
    <3>1. c # <<>>
      BY <1>6 DEF c
    <3> QED BY <2>1, <3>1, LenProperties, EmptyList
  <2>3. c[1] \in Slot /\ slots[c[1]].active /\ slots[c[1]].side = side /\ slots[c[1]].price = price
    BY <2>1, <2>2 DEF Strung
  <2>4. Placed(side, levels, slots)
    BY <1>2 DEF LevelsFit
  <2> HIDE DEF c, slots, levels
  <2> QED BY <2>3, <2>4 DEF Placed
<1> HIDE DEF levels, slots
<1>7. {price \in Prices : q[side][price] # <<>>} = LevelPrices(levels)
  BY <1>5, <1>6 DEF LevelPrices
<1> QED BY <1>4, <1>7 DEF A, levels, slots

(* Both books count alike. *)
LEMMA PriceTimeCardinality == \A S : PriceTime!Cardinality(S) = Cardinality(S)
BY DEF PriceTime!Cardinality, Cardinality

(* There are as many of them. *)
LEMMA LevelsCounted ==
  ASSUME NEW side, NEW levels \in Seq(LevelSlot), Sorted(side, levels)
  PROVE  Cardinality(LevelPrices(levels)) = Len(levels) /\ Len(levels) \in Nat
<1>1. Len(levels) \in Nat /\ DOMAIN levels = 1 .. Len(levels)
  BY LenProperties
<1> DEFINE f == [i \in 1 .. Len(levels) |-> levels[i].price]
           T == LevelPrices(levels)
<1>2. f \in [1 .. Len(levels) -> T] /\ \A p \in T : \E i \in 1 .. Len(levels) : f[i] = p
  BY <1>1 DEF LevelPrices
<1>3. \A i, j \in 1 .. Len(levels) : f[i] = f[j] => i = j
  BY <1>1, PricesDiffer
<1>4. f \in Bijection(1 .. Len(levels), T)
  <2> HIDE DEF f, T
  <2> QED BY <1>2, <1>3, Fun_IsBij
<1> HIDE DEF f, T
<1>5. ExistsBijection(1 .. Len(levels), T)
  BY <1>4 DEF ExistsBijection
<1>6. IsFiniteSet(1 .. Len(levels)) /\ Cardinality(1 .. Len(levels)) = Len(levels)
  BY <1>1, FS_Interval
<1>7. Cardinality(T) = Len(levels)
  BY <1>5, <1>6, FS_Bijection
<1> QED BY <1>1, <1>7 DEF T

(* Both books have, or have no, room for another price. *)
LEMMA RoomSame ==
  ASSUME NEW b, NEW q, Represents(b, q), NEW side \in Sides, NEW price
  PROVE  LET levels == PriceTime!Levels(Shown(b.slots, q), side)
         IN  (price \notin levels /\ PriceTime!Cardinality(levels) = MaxLevels)
                <=> (FindLevel(b, side, price) = 0 /\ Len(b.levels[side]) >= MaxLevels)
<1> DEFINE levels == b.levels[side]
           i == FindLevel(b, side, price)
           T == LevelPrices(levels)
<1>1. /\ levels \in Seq(LevelSlot) /\ Sorted(side, levels) /\ Len(levels) <= MaxLevels
  BY AssembledParts DEF Represents, LevelsFit
<1>2. price \notin T <=> i = 0
  <2>1. /\ i = 0 => \A j \in DOMAIN levels : levels[j].price # price
        /\ i # 0 => i \in DOMAIN levels /\ levels[i].price = price
    <3> HIDE DEF i
    <3> QED BY <1>1, FindLevelIs DEF i
  <2> HIDE DEF i, levels
  <2> QED BY <2>1 DEF LevelPrices
<1>3. Cardinality(T) = Len(levels) /\ Len(levels) \in Nat
  <2> HIDE DEF levels
  <2> QED BY <1>1, LevelsCounted
<1>4. PriceTime!Levels(Shown(b.slots, q), side) = T
  BY LevelsAre
<1>5. PriceTime!Cardinality(T) = Cardinality(T)
  BY PriceTimeCardinality
<1> HIDE DEF T, i, levels
<1>6. MaxLevels \in Nat
  BY BookAssumption
<1>7. (price \notin T /\ PriceTime!Cardinality(T) = MaxLevels) <=> (i = 0 /\ Len(levels) >= MaxLevels)
  BY <1>1, <1>2, <1>3, <1>5, <1>6
<1> QED BY <1>4, <1>7 DEF i, levels

(* The promised best price is that of the first level. *)
LEMMA BestIs ==
  ASSUME NEW b, NEW q, Represents(b, q), NEW side \in Sides
  PROVE  PriceTime!Best(Shown(b.slots, q), side) = TopPrice(b.levels[side])
<1> DEFINE levels == b.levels[side]
           T == LevelPrices(levels)
<1>1. /\ levels \in Seq(LevelSlot) /\ Sorted(side, levels)
  BY AssembledParts DEF Represents, LevelsFit
<1>2. PriceTime!Levels(Shown(b.slots, q), side) = T
  BY LevelsAre
<1> HIDE DEF levels
<1>3. Len(levels) \in Nat /\ DOMAIN levels = 1 .. Len(levels) /\ (levels = <<>> <=> Len(levels) = 0)
      /\ \A i \in DOMAIN levels : levels[i].price \in Int
  BY <1>1, LevelSlots, EmptyList
<1>4. T = {} <=> levels = <<>>
  <2>1. DOMAIN levels = {} <=> levels = <<>>
    BY <1>1, EmptyList DEF levels
  <2>2. LevelPrices(levels) = {} <=> DOMAIN levels = {}
    BY DEF LevelPrices
  <2> QED BY <2>1, <2>2
<1>5. CASE levels = <<>>
  BY <1>2, <1>4, <1>5 DEF PriceTime!Best, TopPrice, levels
<1>6. CASE levels # <<>>
  <2> DEFINE top == levels[1].price
  <2>1. 1 \in DOMAIN levels /\ top \in T /\ T \subseteq Int
    BY <1>3, <1>6 DEF LevelPrices
  <2>2. ASSUME NEW p \in T
        PROVE  p = top \/ Better(side, top, p)
    <3>1. PICK i \in DOMAIN levels : levels[i].price = p
      BY DEF LevelPrices
    <3>2. i = 1 \/ 1 < i
      BY <1>3
    <3> QED BY <1>1, <2>1, <3>1, <3>2 DEF Sorted
  <2> HIDE DEF top, T
  <2>3. ASSUME side = "Buy" PROVE PriceTime!Max(T) = top
    <3>1. \A p \in T : top >= p
      BY <2>1, <2>2, <2>3 DEF Better
    <3>2. \A x \in T : (\A y \in T : x >= y) => x = top
      BY <2>1, <3>1
    <3> QED BY <2>1, <3>1, <3>2 DEF PriceTime!Max
  <2>4. ASSUME side = "Sell" PROVE PriceTime!Min(T) = top
    <3>1. \A p \in T : top =< p
      BY <2>1, <2>2, <2>4 DEF Better
    <3>2. \A x \in T : (\A y \in T : x =< y) => x = top
      BY <2>1, <3>1
    <3> QED BY <2>1, <3>1, <3>2 DEF PriceTime!Min
  <2>5. TopPrice(levels) = top /\ T # {}
    BY <1>4, <1>6 DEF TopPrice, top
  <2>6. side = "Buy" \/ side = "Sell"
    BY DEF Sides
  <2>7. PriceTime!Best(Shown(b.slots, q), side) = top
    BY <1>2, <2>3, <2>4, <2>5, <2>6 DEF PriceTime!Best
  <2> QED BY <2>5, <2>7 DEF levels
<1> QED BY <1>5, <1>6

-----------------------------------------------------------------------------
(* What an operation changes of what the book shows *)

(* Two lists of orders with the same members. *)
LEMMA SameOrders ==
  ASSUME NEW x \in Seq(Order), NEW y \in Seq(Order), Len(x) = Len(y),
         \A k \in 1 .. Len(x) : x[k].orderId = y[k].orderId /\ x[k].quantity = y[k].quantity
  PROVE  x = y
<1>1. \A k \in 1 .. Len(x) : x[k] \in Order /\ y[k] \in Order
  BY LenProperties
<1>2. \A o, n \in Order : o.orderId = n.orderId /\ o.quantity = n.quantity => o = n
  BY DEF Order
<1>3. \A k \in 1 .. Len(x) : x[k] = y[k]
  BY <1>1, <1>2
<1> QED BY <1>3, SeqEqual

(* The members a list shows. *)
LEMMA MembersShown ==
  ASSUME NEW slots \in [Slot -> OrderSlot], NEW c \in Seq(Slot), NEW f, f = ShownList(slots, c)
  PROVE  /\ f \in Seq(Order) /\ Len(f) = Len(c) /\ Len(c) \in Nat
         /\ \A k \in 1 .. Len(c) :
              f[k].orderId = slots[c[k]].orderId /\ f[k].quantity = slots[c[k]].quantity
<1>1. /\ f \in Seq(Order) /\ Len(f) = Len(c) /\ Len(c) \in Nat /\ DOMAIN c = 1 .. Len(c)
      /\ \A k \in DOMAIN c : f[k] = [orderId |-> slots[c[k]].orderId, quantity |-> slots[c[k]].quantity]
  BY ShownListIs
<1>2. ASSUME NEW k \in 1 .. Len(c)
      PROVE  f[k].orderId = slots[c[k]].orderId /\ f[k].quantity = slots[c[k]].quantity
  <2>1. f[k] = [orderId |-> slots[c[k]].orderId, quantity |-> slots[c[k]].quantity]
    BY <1>1
  <2> QED BY <2>1
<1> QED BY <1>1, <1>2

(* A list the order in slot s is not in shows what it did. *)
LEMMA KeepsShowing ==
  ASSUME NEW slots \in [Slot -> OrderSlot], NEW r \in [Slot -> OrderSlot], NEW s, OthersKeep(r, slots, s),
         NEW c \in Seq(Slot), s \notin ToSet(c)
  PROVE  ShownList(r, c) = ShownList(slots, c)
<1>1. \A k \in DOMAIN c : c[k] \in Slot \ {s}
  BY LenProperties DEF ToSet
<1>2. \A k \in DOMAIN c : r[c[k]].orderId = slots[c[k]].orderId /\ r[c[k]].quantity = slots[c[k]].quantity
  BY <1>1 DEF OthersKeep
<1> QED BY <1>2 DEF ShownList

(* The order in slot s is in no list but one. *)
OnlyIn(q, s, side, price) ==
  \A o \in Sides, n \in Prices : o # side \/ n # price => s \notin ToSet(q[o][n])

(* The queue of one price is replaced. *)
Put(after, before, side, price, queue) == after = [before EXCEPT ![side][price] = queue]

(* When one list changes, and no order outside it, one queue does. *)
LEMMA ShownChanges ==
  ASSUME NEW slots \in [Slot -> OrderSlot], NEW r \in [Slot -> OrderSlot], NEW s, OthersKeep(r, slots, s),
         NEW q \in Lists, NEW side \in Sides, NEW price \in Prices, OnlyIn(q, s, side, price),
         NEW new, NEW p, Put(p, q, side, price, new)
  PROVE  Put(Shown(r, p), Shown(slots, q), side, price, ShownList(r, new))
<1>0. p = [q EXCEPT ![side][price] = new]
  BY DEF Put
<1>1. ASSUME NEW o \in Sides, NEW n \in Prices
      PROVE  ShownList(r, p[o][n]) =
               IF o = side /\ n = price THEN ShownList(r, new) ELSE ShownList(slots, q[o][n])
  <2>1. CASE o = side /\ n = price
    BY <1>0, <2>1 DEF Lists
  <2>2. CASE ~ (o = side /\ n = price)
    <3>1. p[o][n] = q[o][n] /\ q[o][n] \in Seq(Slot) /\ s \notin ToSet(q[o][n])
      BY <1>0, <2>2 DEF Lists, OnlyIn
    <3>2. \A c \in Seq(Slot) : s \notin ToSet(c) => ShownList(r, c) = ShownList(slots, c)
      BY KeepsShowing
    <3>3. ShownList(r, p[o][n]) = ShownList(slots, q[o][n])
      BY <3>1, <3>2
    <3> QED BY <2>2, <3>3
  <2> QED BY <2>1, <2>2
<1> DEFINE A == Shown(slots, q)
           list == ShownList(r, new)
<1>2. Shown(r, p) =
        [o \in Sides |-> [n \in Prices |->
          IF o = side /\ n = price THEN list ELSE ShownList(slots, q[o][n])]]
  BY <1>1 DEF Shown
<1>3. A = [o \in Sides |-> [n \in Prices |-> ShownList(slots, q[o][n])]]
  BY DEF Shown
<1> HIDE DEF A, list
<1>4. [A EXCEPT ![side][price] = list] =
        [o \in Sides |-> [n \in Prices |->
          IF o = side /\ n = price THEN list ELSE ShownList(slots, q[o][n])]]
  BY <1>3
<1> QED BY <1>2, <1>4 DEF A, list, Put

(* A list with a new order behind its last shows that order behind the     *)
(* others.                                                                 *)
LEMMA ShowsAppended ==
  ASSUME NEW slots \in [Slot -> OrderSlot], NEW r \in [Slot -> OrderSlot],
         NEW s, NEW id, NEW quantity, NewIn(r, slots, s, id, quantity),
         NEW c \in Seq(Slot), s \notin ToSet(c)
  PROVE  ShownList(r, Append(c, s)) = Append(ShownList(slots, c), [orderId |-> id, quantity |-> quantity])
<1> DEFINE e == [orderId |-> id, quantity |-> quantity]
           new == Append(c, s)
           f == ShownList(r, c)
           g == ShownList(r, new)
<1>1. s \in Slot /\ r[s].orderId = id /\ r[s].quantity = quantity /\ OthersKeep(r, slots, s)
  BY DEF NewIn, OthersKeep
<1>2. e \in Order
  <2>1. r[s] \in OrderSlot
    BY <1>1
  <2> QED BY <1>1, <2>1 DEF OrderSlot, Order
<1>3. e.orderId = id /\ e.quantity = quantity
  OBVIOUS
<1>4. f = ShownList(slots, c)
  BY <1>1, KeepsShowing
<1>5. /\ new \in Seq(Slot) /\ Len(new) = Len(c) + 1
      /\ (\A k \in 1 .. Len(c) : new[k] = c[k]) /\ new[Len(c) + 1] = s
  BY <1>1, AppendProperties
<1> HIDE DEF e, new
<1>6. /\ f \in Seq(Order) /\ Len(f) = Len(c) /\ Len(c) \in Nat
      /\ \A k \in 1 .. Len(c) : f[k].orderId = r[c[k]].orderId /\ f[k].quantity = r[c[k]].quantity
  <2> HIDE DEF f
  <2> QED BY MembersShown DEF f
<1>7. /\ g \in Seq(Order) /\ Len(g) = Len(new)
      /\ \A k \in 1 .. Len(new) : g[k].orderId = r[new[k]].orderId /\ g[k].quantity = r[new[k]].quantity
  <2> HIDE DEF g
  <2> QED BY <1>5, MembersShown DEF g
<1> HIDE DEF f, g
<1> DEFINE h == Append(f, e)
<1>8. /\ h \in Seq(Order) /\ Len(h) = Len(c) + 1
      /\ (\A k \in 1 .. Len(c) : h[k] = f[k]) /\ h[Len(c) + 1] = e
  BY <1>2, <1>6, AppendProperties
<1> HIDE DEF h
<1>9. ASSUME NEW k \in 1 .. Len(g)
      PROVE  g[k].orderId = h[k].orderId /\ g[k].quantity = h[k].quantity
  <2>1. CASE k \in 1 .. Len(c)
    <3>1. new[k] = c[k] /\ h[k] = f[k] /\ k \in 1 .. Len(new)
      BY <1>5, <1>6, <1>8, <2>1
    <3>2. g[k].orderId = r[new[k]].orderId /\ g[k].quantity = r[new[k]].quantity
      BY <1>7, <3>1
    <3>3. f[k].orderId = r[c[k]].orderId /\ f[k].quantity = r[c[k]].quantity
      BY <1>6, <2>1
    <3> QED BY <3>1, <3>2, <3>3
  <2>2. CASE k = Len(c) + 1
    <3>1. new[k] = s /\ h[k] = e /\ k \in 1 .. Len(new)
      BY <1>5, <1>6, <1>8, <2>2
    <3>2. g[k].orderId = r[new[k]].orderId /\ g[k].quantity = r[new[k]].quantity
      BY <1>7, <3>1
    <3> QED BY <1>1, <1>3, <3>1, <3>2
  <2>3. k \in 1 .. Len(c) + 1
    BY <1>5, <1>7
  <2> QED BY <1>6, <2>1, <2>2, <2>3
<1>10. g = h
  BY <1>5, <1>7, <1>8, <1>9, SameOrders
<1> QED BY <1>4, <1>10 DEF g, h, new, e

(* A list without its n-th order shows the others as they were. *)
LEMMA ShowsRemoved ==
  ASSUME NEW slots \in [Slot -> OrderSlot], NEW r \in [Slot -> OrderSlot],
         NEW c \in Seq(Slot), NoRepeats(c), NEW n \in DOMAIN c, NEW s, s = c[n], OthersKeep(r, slots, s)
  PROVE  ShownList(r, RemoveAt(c, n)) = RemoveAt(ShownList(slots, c), n)
<1> DEFINE new == RemoveAt(c, n)
           f == ShownList(slots, c)
           g == ShownList(r, new)
           h == RemoveAt(f, n)
<1>1. Len(c) \in Nat /\ DOMAIN c = 1 .. Len(c) /\ n \in 1 .. Len(c) /\ \A k \in 1 .. Len(c) : c[k] \in Slot
  BY LenProperties
<1>2. /\ new \in Seq(Slot) /\ Len(new) = Len(c) - 1
      /\ \A k \in 1 .. Len(c) - 1 : new[k] = IF k < n THEN c[k] ELSE c[k + 1]
  <2>1. Removed(new, c, n, Slot)
    BY <1>1, RemoveAtIs
  <2> QED BY <2>1 DEF Removed
<1> HIDE DEF new
<1>3. /\ f \in Seq(Order) /\ Len(f) = Len(c)
      /\ \A k \in 1 .. Len(c) : f[k].orderId = slots[c[k]].orderId /\ f[k].quantity = slots[c[k]].quantity
  <2> HIDE DEF f
  <2> QED BY MembersShown DEF f
<1>4. /\ g \in Seq(Order) /\ Len(g) = Len(new)
      /\ \A k \in 1 .. Len(new) : g[k].orderId = r[new[k]].orderId /\ g[k].quantity = r[new[k]].quantity
  <2> HIDE DEF g
  <2> QED BY <1>2, MembersShown DEF g
<1> HIDE DEF f, g
<1>5. /\ h \in Seq(Order) /\ Len(h) = Len(c) - 1
      /\ \A k \in 1 .. Len(c) - 1 : h[k] = IF k < n THEN f[k] ELSE f[k + 1]
  <2>1. Removed(h, f, n, Order)
    BY <1>1, <1>3, RemoveAtIs
  <2> QED BY <1>3, <2>1 DEF Removed
<1> HIDE DEF h
<1>6. ASSUME NEW k \in 1 .. Len(g)
      PROVE  g[k].orderId = h[k].orderId /\ g[k].quantity = h[k].quantity
  <2> DEFINE j == IF k < n THEN k ELSE k + 1
  <2>1. k \in 1 .. Len(c) - 1 /\ k \in 1 .. Len(new) /\ j \in 1 .. Len(c) /\ j # n
    BY <1>1, <1>2, <1>4
  <2>2. new[k] = c[j] /\ h[k] = f[j]
    BY <1>2, <1>5, <2>1
  <2> HIDE DEF j
  <2>3. c[j] \in Slot \ {s}
    BY <1>1, <2>1 DEF NoRepeats
  <2>4. r[c[j]].orderId = slots[c[j]].orderId /\ r[c[j]].quantity = slots[c[j]].quantity
    BY <2>3 DEF OthersKeep
  <2>5. g[k].orderId = r[new[k]].orderId /\ g[k].quantity = r[new[k]].quantity
    BY <1>4, <2>1
  <2>6. f[j].orderId = slots[c[j]].orderId /\ f[j].quantity = slots[c[j]].quantity
    BY <1>3, <2>1
  <2> QED BY <2>2, <2>4, <2>5, <2>6
<1>7. g = h
  BY <1>2, <1>4, <1>5, <1>6, SameOrders
<1> QED BY <1>7 DEF g, h, f, new

(* The n-th order of a queue has another quantity. *)
Changed(queue, before, n, quantity) == queue = [before EXCEPT ![n].quantity = quantity]

(* A list whose n-th order has another quantity shows it in its place. *)
LEMMA ShowsRequantified ==
  ASSUME NEW slots \in [Slot -> OrderSlot], NEW r \in [Slot -> OrderSlot],
         NEW c \in Seq(Slot), NoRepeats(c), NEW n \in DOMAIN c, NEW s, s = c[n], OthersKeep(r, slots, s),
         NEW quantity \in Nat, r[s].orderId = slots[s].orderId, r[s].quantity = quantity
  PROVE  Changed(ShownList(r, c), ShownList(slots, c), n, quantity)
<1> DEFINE f == ShownList(slots, c)
           g == ShownList(r, c)
           h == [f EXCEPT ![n].quantity = quantity]
<1>1. Len(c) \in Nat /\ DOMAIN c = 1 .. Len(c) /\ n \in 1 .. Len(c) /\ \A k \in 1 .. Len(c) : c[k] \in Slot
  BY LenProperties
<1>3. /\ f \in Seq(Order) /\ Len(f) = Len(c)
      /\ \A k \in 1 .. Len(c) : f[k].orderId = slots[c[k]].orderId /\ f[k].quantity = slots[c[k]].quantity
  <2> HIDE DEF f
  <2> QED BY MembersShown DEF f
<1>4. /\ g \in Seq(Order) /\ Len(g) = Len(c)
      /\ \A k \in 1 .. Len(c) : g[k].orderId = r[c[k]].orderId /\ g[k].quantity = r[c[k]].quantity
  <2> HIDE DEF g
  <2> QED BY MembersShown DEF g
<1> HIDE DEF f, g
<1>5. f \in [1 .. Len(c) -> Order]
  BY <1>3, LenProperties
<1>6. \A k \in 1 .. Len(c) : h[k] = IF k = n THEN [f[n] EXCEPT !.quantity = quantity] ELSE f[k]
  BY <1>1, <1>5
<1>7. f[n] \in Order
  BY <1>1, <1>5
<1>8. h[n] \in Order /\ h[n].orderId = f[n].orderId /\ h[n].quantity = quantity
  <2>1. h[n] = [f[n] EXCEPT !.quantity = quantity]
    BY <1>1, <1>6
  <2> HIDE DEF h
  <2> QED BY <1>7, <2>1 DEF Order
<1>9. h \in [1 .. Len(c) -> Order]
  <2>1. h = [k \in 1 .. Len(c) |-> h[k]]
    BY <1>5
  <2>2. \A k \in 1 .. Len(c) : h[k] \in Order
    BY <1>5, <1>6, <1>8
  <2> HIDE DEF h
  <2> QED BY <2>1, <2>2
<1> HIDE DEF h
<1>10. h \in Seq(Order) /\ Len(h) = Len(c)
  <2>1. h \in Seq(Order)
    BY <1>1, <1>9
  <2> QED BY <1>1, <1>9, <2>1, LenProperties
<1>11. ASSUME NEW k \in 1 .. Len(g)
       PROVE  g[k].orderId = h[k].orderId /\ g[k].quantity = h[k].quantity
  <2>1. k \in 1 .. Len(c) /\ c[k] \in Slot
    BY <1>1, <1>4
  <2>2. /\ g[k].orderId = r[c[k]].orderId /\ g[k].quantity = r[c[k]].quantity
        /\ f[k].orderId = slots[c[k]].orderId /\ f[k].quantity = slots[c[k]].quantity
    BY <1>3, <1>4, <2>1
  <2>3. CASE k = n
    BY <1>8, <2>2, <2>3
  <2>4. CASE k # n
    <3>1. c[k] \in Slot \ {s} /\ h[k] = f[k]
      BY <1>1, <1>6, <2>1, <2>4 DEF NoRepeats
    <3>2. r[c[k]].orderId = slots[c[k]].orderId /\ r[c[k]].quantity = slots[c[k]].quantity
      BY <3>1 DEF OthersKeep
    <3> QED BY <2>2, <3>1, <3>2
  <2> QED BY <2>3, <2>4
<1>12. g = h
  BY <1>4, <1>10, <1>11, SameOrders
<1> QED BY <1>12 DEF g, h, f, Changed

-----------------------------------------------------------------------------
(* The operations do what the queues promise *)

(* The outcome out of the storage is the outcome abs of the queues. *)
Keeps(out, abs, p) ==
  /\ Represents(out.book, p) /\ abs.queues = Shown(out.book.slots, p)
  /\ out.returned = abs.returned /\ out.events = abs.events
  /\ out.returned \in BOOLEAN

(* The outcome out of the storage is the outcome abs of the queues for     *)
(* some lists.                                                             *)
Promised(out, abs) == \E p : Keeps(out, abs, p)

(* A refused operation changes neither the storage nor the queues. *)
LEMMA RejectedSame ==
  ASSUME NEW b, NEW q, Represents(b, q)
  PROVE  Promised(Rejected(b), PriceTime!Rejected(Shown(b.slots, q)))
<1> DEFINE A == Shown(b.slots, q)
           out == Rejected(b)
           abs == PriceTime!Rejected(A)
<1>1. out.book = b /\ out.returned = FALSE /\ out.events = <<>>
  BY DEF Rejected, Outcome
<1> HIDE DEF A, out
<1>2. abs.queues = A /\ abs.returned = FALSE /\ abs.events = <<>>
  BY DEF PriceTime!Rejected, PriceTime!Outcome
<1> HIDE DEF abs
<1>3. abs.queues = Shown(out.book.slots, q)
  BY <1>1, <1>2 DEF A
<1>4. Keeps(out, abs, q)
  BY <1>1, <1>2, <1>3 DEF Keeps
<1> QED BY <1>4 DEF Promised, out, abs, A

(* A slot without a live order is in no list. *)
LEMMA NewIsOnlyIn ==
  ASSUME NEW slots \in [Slot -> OrderSlot], NEW q \in Lists, Threaded(slots, q), Queued(slots, q),
         NEW s \in Slot, ~ slots[s].active
  PROVE  \A o \in Sides, n \in Prices : s \notin ToSet(q[o][n])
BY MembersMatch DEF Matches

(* A live order is in the list of its side and price only. *)
LEMMA LiveIsOnlyIn ==
  ASSUME NEW slots \in [Slot -> OrderSlot], NEW q \in Lists, Threaded(slots, q), Queued(slots, q),
         NEW s \in Slot
  PROVE  OnlyIn(q, s, slots[s].side, slots[s].price)
BY MembersMatch DEF Matches, OnlyIn

(* The storage adds, deletes or changes an order, and so do the queues. *)
StoreAdds(out, b, q, id, side, price, quantity, s, new, p) ==
  /\ new = Append(q[side][price], s) /\ p = [q EXCEPT ![side][price] = new]
  /\ Represents(out.book, p) /\ NewIn(out.book.slots, b.slots, s, id, quantity)
  /\ out.returned = TRUE
  /\ out.events = <<Update("Add", side, price, quantity, Weight(out.book.slots, ToSet(new)), id)>>

StoreDeletes(out, b, q, id, s, side, price, position, n, new, p) ==
  /\ s = FindOrderSlot(b, id) /\ b.slots[s].orderId = id
  /\ At(b, q, s, side, price, position, n)
  /\ new = RemoveAt(q[side][price], n) /\ p = [q EXCEPT ![side][price] = new]
  /\ Represents(out.book, p) /\ OthersKeep(out.book.slots, b.slots, s)
  /\ out.returned = TRUE
  /\ out.events = <<Update("Delete", side, price, 0, Weight(out.book.slots, ToSet(new)), id)>>

StoreModifies(out, b, q, id, quantity, s, side, price, position, n) ==
  /\ s = FindOrderSlot(b, id) /\ b.slots[s].orderId = id
  /\ At(b, q, s, side, price, position, n)
  /\ Represents(out.book, q) /\ OthersKeep(out.book.slots, b.slots, s)
  /\ out.book.slots[s].orderId = id /\ out.book.slots[s].quantity = quantity
  /\ out.returned = TRUE
  /\ out.events = <<Update("Modify", side, price, quantity, Weight(out.book.slots, ToSet(q[side][price])), id)>>

(* The outcome abs is A with one queue replaced, and reports its total. *)
QueuesGet(abs, A, side, price, queue, action, quantity, id) ==
  /\ Put(abs.queues, A, side, price, queue) /\ abs.returned = TRUE
  /\ abs.events = <<Update(action, side, price, quantity, PriceTime!Total(queue), id)>>

(* The list of one price is the same in both. *)
LEMMA OutcomesMeet ==
  ASSUME NEW out, NEW p, NEW new, NEW abs, NEW A, NEW side \in Sides, NEW price \in Prices,
         NEW queue, NEW action, NEW quantity, NEW id,
         Represents(out.book, p), p[side][price] = new, out.returned = TRUE,
         out.events = <<Update(action, side, price, quantity, Weight(out.book.slots, ToSet(new)), id)>>,
         QueuesGet(abs, A, side, price, queue, action, quantity, id),
         ShownList(out.book.slots, new) = queue,
         Put(Shown(out.book.slots, p), A, side, price, ShownList(out.book.slots, new))
  PROVE  Promised(out, abs)
<1> DEFINE r == out.book.slots
<1>1. r \in [Slot -> OrderSlot] /\ p \in Lists /\ Threaded(r, p)
  BY AssembledParts DEF Represents
<1>2. new \in Seq(Slot) /\ NoRepeats(new)
  <2> HIDE DEF r
  <2> QED BY <1>1, ListIs
<1>3. PriceTime!Total(ShownList(r, new)) = Weight(r, ToSet(new))
  <2> HIDE DEF r
  <2> QED BY <1>1, <1>2, TotalShown
<1>4. out.events = abs.events /\ abs.returned = TRUE
  BY <1>3 DEF QueuesGet
<1>5. abs.queues = Shown(out.book.slots, p)
  BY DEF QueuesGet, Put
<1>6. Keeps(out, abs, p)
  BY <1>4, <1>5 DEF Keeps
<1> QED BY <1>6 DEF Promised

(* Adding an order. *)
LEMMA AddingSame ==
  ASSUME NEW b, NEW q, Represents(b, q), NEW out, NEW side \in Sides, NEW price \in Prices,
         NEW id, NEW quantity, NEW s, NEW new, NEW p,
         StoreAdds(out, b, q, id, side, price, quantity, s, new, p),
         NEW abs, NEW queue,
         queue = Append(Shown(b.slots, q)[side][price], [orderId |-> id, quantity |-> quantity]),
         QueuesGet(abs, Shown(b.slots, q), side, price, queue, "Add", quantity, id)
  PROVE  Promised(out, abs)
<1> DEFINE r == out.book.slots
           slots == b.slots
           c == q[side][price]
<1>1. new = Append(c, s) /\ Put(p, q, side, price, new)
  BY DEF StoreAdds, Put
<1>2. Assembled(b, q) /\ Assembled(out.book, p)
  BY DEF Represents, StoreAdds
<1>3. /\ slots \in [Slot -> OrderSlot] /\ q \in Lists /\ Threaded(slots, q) /\ Queued(slots, q)
  BY <1>2, AssembledParts
<1>4. r \in [Slot -> OrderSlot]
  BY <1>2, AssembledParts
<1>5. NewIn(r, slots, s, id, quantity)
  BY DEF StoreAdds
<1>6. s \in Slot /\ ~ slots[s].active /\ OthersKeep(r, slots, s)
  BY <1>5 DEF NewIn, OthersKeep
<1>7. ShownList(slots, c) = Shown(slots, q)[side][price]
  BY DEF Shown
<1>8. c \in Seq(Slot)
  BY <1>3 DEF Lists
<1>9. p[side][price] = new
  BY <1>1, <1>3 DEF Lists, Put
<1> HIDE DEF r, slots
<1>10. s \notin ToSet(c) /\ OnlyIn(q, s, side, price)
  BY <1>3, <1>6, NewIsOnlyIn DEF OnlyIn
<1>11. ShownList(r, new) = queue
  <2>1. ShownList(r, Append(c, s)) = Append(ShownList(slots, c), [orderId |-> id, quantity |-> quantity])
    <3> HIDE DEF c
    <3> QED BY <1>3, <1>4, <1>5, <1>8, <1>10, ShowsAppended
  <2> QED BY <1>1, <1>7, <2>1 DEF slots
<1>12. Put(Shown(r, p), Shown(slots, q), side, price, ShownList(r, new))
  BY <1>1, <1>3, <1>4, <1>6, <1>10, ShownChanges
<1>13. Represents(out.book, p) /\ out.returned = TRUE
       /\ out.events = <<Update("Add", side, price, quantity, Weight(out.book.slots, ToSet(new)), id)>>
  BY DEF StoreAdds
<1> QED BY <1>9, <1>11, <1>12, <1>13, OutcomesMeet DEF r, slots

(* Deleting an order. *)
LEMMA DeletingSame ==
  ASSUME NEW b, NEW q, Represents(b, q), NEW out, NEW id, NEW s, NEW side, NEW price, NEW position, NEW n,
         NEW new, NEW p, StoreDeletes(out, b, q, id, s, side, price, position, n, new, p),
         NEW abs, NEW queue, queue = RemoveAt(Shown(b.slots, q)[side][price], n),
         QueuesGet(abs, Shown(b.slots, q), side, price, queue, "Delete", 0, id)
  PROVE  Promised(out, abs)
<1> DEFINE r == out.book.slots
           slots == b.slots
           c == q[side][price]
<1>1. new = RemoveAt(c, n) /\ Put(p, q, side, price, new)
  BY DEF StoreDeletes, Put
<1>2. Assembled(b, q) /\ Assembled(out.book, p)
  BY DEF Represents, StoreDeletes
<1>3. /\ slots \in [Slot -> OrderSlot] /\ q \in Lists /\ Threaded(slots, q) /\ Queued(slots, q)
  BY <1>2, AssembledParts
<1>4. r \in [Slot -> OrderSlot]
  BY <1>2, AssembledParts
<1>5. OthersKeep(r, slots, s)
  BY DEF StoreDeletes
<1>6. side \in Sides /\ price \in Prices /\ s \in Slot /\ n \in DOMAIN c /\ s = c[n]
      /\ side = slots[s].side /\ price = slots[s].price
  BY Zenon DEF At, StoreDeletes
<1>7. ShownList(slots, c) = Shown(slots, q)[side][price]
  BY <1>6, Zenon DEF Shown
<1>8. c \in Seq(Slot) /\ NoRepeats(c)
  <2> HIDE DEF slots
  <2> QED BY <1>3, <1>6, ListIs, Zenon
<1>9. p[side][price] = new
  BY <1>1, <1>3, <1>6, Zenon DEF Lists, Put
<1> HIDE DEF r, slots
<1>10. OnlyIn(q, s, side, price)
  BY <1>3, <1>6, LiveIsOnlyIn, Zenon
<1>11. ShownList(r, new) = queue
  <2>1. ShownList(r, RemoveAt(c, n)) = RemoveAt(ShownList(slots, c), n)
    <3> HIDE DEF c
    <3> QED BY <1>3, <1>4, <1>5, <1>6, <1>8, ShowsRemoved
  <2> QED BY <1>1, <1>7, <2>1 DEF slots
<1>12. Put(Shown(r, p), Shown(slots, q), side, price, ShownList(r, new))
  BY <1>1, <1>3, <1>4, <1>5, <1>6, <1>10, ShownChanges, Zenon
<1>13. Represents(out.book, p) /\ out.returned = TRUE
       /\ out.events = <<Update("Delete", side, price, 0, Weight(out.book.slots, ToSet(new)), id)>>
  BY DEF StoreDeletes
<1> QED BY <1>6, <1>9, <1>11, <1>12, <1>13, OutcomesMeet, Zenon DEF r, slots

(* Changing a quantity. *)
LEMMA ModifyingSame ==
  ASSUME NEW b, NEW q, Represents(b, q), NEW out, NEW id, NEW s, NEW side, NEW price, NEW position, NEW n,
         NEW quantity \in Nat, StoreModifies(out, b, q, id, quantity, s, side, price, position, n),
         NEW abs, NEW queue, Changed(queue, Shown(b.slots, q)[side][price], n, quantity),
         QueuesGet(abs, Shown(b.slots, q), side, price, queue, "Modify", quantity, id)
  PROVE  Promised(out, abs)
<1> DEFINE r == out.book.slots
           slots == b.slots
           c == q[side][price]
<1>2. Assembled(b, q) /\ Assembled(out.book, q)
  BY DEF Represents, StoreModifies
<1>3. /\ slots \in [Slot -> OrderSlot] /\ q \in Lists /\ Threaded(slots, q) /\ Queued(slots, q)
  BY <1>2, AssembledParts
<1>4. r \in [Slot -> OrderSlot]
  BY <1>2, AssembledParts
<1>5. OthersKeep(r, slots, s) /\ r[s].orderId = slots[s].orderId /\ r[s].quantity = quantity
  BY DEF StoreModifies
<1>6. side \in Sides /\ price \in Prices /\ s \in Slot /\ n \in DOMAIN c /\ s = c[n]
      /\ side = slots[s].side /\ price = slots[s].price
  BY Zenon DEF At, StoreModifies
<1>1. Put(q, q, side, price, c)
  BY <1>3, <1>6, Zenon DEF Lists, Put
<1>7. ShownList(slots, c) = Shown(slots, q)[side][price]
  BY <1>6, Zenon DEF Shown
<1>8. c \in Seq(Slot) /\ NoRepeats(c)
  <2> HIDE DEF slots
  <2> QED BY <1>3, <1>6, ListIs, Zenon
<1> HIDE DEF r, slots
<1>10. OnlyIn(q, s, side, price)
  BY <1>3, <1>6, LiveIsOnlyIn, Zenon
<1>11. ShownList(r, c) = queue
  <2>1. Changed(ShownList(r, c), ShownList(slots, c), n, quantity)
    <3> HIDE DEF c
    <3> QED BY <1>3, <1>4, <1>5, <1>6, <1>8, ShowsRequantified
  <2> QED BY <1>7, <2>1 DEF slots, Changed
<1>12. Put(Shown(r, q), Shown(slots, q), side, price, ShownList(r, c))
  BY <1>1, <1>3, <1>4, <1>5, <1>6, <1>10, ShownChanges, Zenon
<1>13. Represents(out.book, q) /\ out.returned = TRUE
       /\ out.events = <<Update("Modify", side, price, quantity, Weight(out.book.slots, ToSet(c)), id)>>
  BY DEF StoreModifies
<1> QED BY <1>6, <1>11, <1>12, <1>13, OutcomesMeet, Zenon DEF r, slots

(* An outcome of the queues that replaces one of them. *)
LEMMA GetsQueue ==
  ASSUME NEW A, NEW side, NEW price, NEW queue, NEW action, NEW quantity, NEW id,
         NEW after, Put(after, A, side, price, queue), NEW total, total = PriceTime!Total(queue),
         NEW abs, abs = PriceTime!Outcome(after, TRUE, <<PriceTime!Update(action, side, price, quantity, total, id)>>)
  PROVE  QueuesGet(abs, A, side, price, queue, action, quantity, id)
<1>1. abs.queues = after /\ abs.returned = TRUE
      /\ abs.events = <<PriceTime!Update(action, side, price, quantity, total, id)>>
  BY DEF PriceTime!Outcome
<1>2. PriceTime!Update(action, side, price, quantity, total, id) = Update(action, side, price, quantity, total, id)
  BY DEF PriceTime!Update, Update
<1> QED BY <1>1, <1>2 DEF QueuesGet

(* clear leaves empty storage and empty queues. *)
LEMMA EmptySame ==
  Promised(Outcome(EmptyBook, TRUE, <<>>), PriceTime!Outcome(PriceTime!NoOrders, TRUE, <<>>))
<1> DEFINE out == Outcome(EmptyBook, TRUE, <<>>)
           abs == PriceTime!Outcome(PriceTime!NoOrders, TRUE, <<>>)
<1>1. out.book = EmptyBook /\ out.returned = TRUE /\ out.events = <<>>
  BY DEF Outcome
<1>2. abs.queues = PriceTime!NoOrders /\ abs.returned = TRUE /\ abs.events = <<>>
  BY DEF PriceTime!Outcome
<1> HIDE DEF out, abs
<1>3. Keeps(out, abs, NoLists)
  BY <1>1, <1>2, EmptyRepresents, SameNames DEF Keeps
<1> QED BY <1>3 DEF Promised, out, abs

(* Both books refuse the same orders. *)
BookRefuses(b, id, side, price, quantity) ==
  \/ id = InvalidId \/ price = InvalidPrice \/ quantity <= 0
  \/ FindOrderSlot(b, id) # Nil
  \/ b.free = <<>>
  \/ FindLevel(b, side, price) = 0 /\ Len(b.levels[side]) >= MaxLevels

QueuesRefuse(A, id, side, price, quantity) ==
  \/ id = InvalidId \/ price = InvalidPrice \/ quantity <= 0
  \/ PriceTime!Places(A, id) # {}
  \/ PriceTime!OrderCount(A) = MaxOrders
  \/ price \notin PriceTime!Levels(A, side) /\ PriceTime!Cardinality(PriceTime!Levels(A, side)) = MaxLevels

(* addOrder refuses an order for lack of a slot, of a level, of an         *)
(* argument or of a new id exactly when the queues do.                     *)
LEMMA BothRefuse ==
  ASSUME NEW b, NEW q, Represents(b, q), NEW id \in OrderIds, NEW side \in Sides, NEW price, NEW quantity
  PROVE  BookRefuses(b, id, side, price, quantity) <=> QueuesRefuse(Shown(b.slots, q), id, side, price, quantity)
<1>1. Assembled(b, q)
  BY DEF Represents
<1> DEFINE A == Shown(b.slots, q)
<1>2. PriceTime!Places(A, id) = {} <=> FindOrderSlot(b, id) = Nil
  BY <1>1, FindsSame
<1>3. PriceTime!OrderCount(A) = b.orderCount
  BY <1>1, PlacesAre
<1>4. b.free = <<>> <=> b.orderCount = MaxOrders
  BY <1>1, FullIs
<1>5. (price \notin PriceTime!Levels(A, side) /\ PriceTime!Cardinality(PriceTime!Levels(A, side)) = MaxLevels)
        <=> (FindLevel(b, side, price) = 0 /\ Len(b.levels[side]) >= MaxLevels)
  BY RoomSame
<1> HIDE DEF A
<1> QED BY <1>2, <1>3, <1>4, <1>5 DEF BookRefuses, QueuesRefuse, A

(* A slot that is taken and goes back leaves no trace: it was empty. *)
LEMMA NothingIsKept ==
  ASSUME NEW b, NEW q, Represents(b, q), b.free # <<>>
  PROVE  SlotGoesBack(b) = b
<1> DEFINE s == Last(b.free)
           rest == SubSeq(b.free, 1, Len(b.free) - 1)
<1>1. b \in Book /\ Pooled(b.free, b.slots, b.orderCount)
  BY DEF Represents, Assembled
<1>2. b.free \in Seq(Slot) /\ b.slots \in [Slot -> OrderSlot]
  BY <1>1, BookFields
<1>3. s \in Slot /\ Append(rest, s) = b.free
  BY <1>2 DEF Last
<1>4. b.slots[s] = EmptySlot
  <2>1. Len(b.free) \in DOMAIN b.free /\ s = b.free[Len(b.free)]
    BY <1>2, EmptySeq, LenProperties DEF Last
  <2>2. s \in ToSet(b.free)
    BY <2>1 DEF ToSet
  <2> QED BY <1>1, <1>3, <2>2 DEF Pooled
<1>5. [b.slots EXCEPT ![s] = EmptySlot] = b.slots
  BY <1>2, <1>3, <1>4
<1> DEFINE back == SlotGoesBack(b)
<1>6. back = [b EXCEPT !.free = Append(rest, s), !.slots = [b.slots EXCEPT ![s] = EmptySlot]]
  BY <1>1 DEF SlotGoesBack, AllocateOrderSlot, ReleaseOrderSlot, Book
<1> HIDE DEF s, rest, back
<1>7. back = [b EXCEPT !.free = b.free, !.slots = b.slots]
  BY <1>3, <1>5, <1>6
<1>8. back = b
  BY <1>1, <1>7 DEF Book
<1> QED BY <1>8 DEF back

(* addOrder does what the queues promise, whether it accepts or refuses    *)
(* the order.                                                              *)
LEMMA AddSame ==
  ASSUME NEW b, NEW q, Represents(b, q), NEW id \in OrderIds, NEW side \in Sides,
         NEW price \in PriceArguments, NEW quantity \in Int
  PROVE  Promised(Add(b, id, side, price, quantity), PriceTime!Add(Shown(b.slots, q), id, side, price, quantity))
<1> DEFINE A == Shown(b.slots, q)
           out == Add(b, id, side, price, quantity)
           abs == PriceTime!Add(A, id, side, price, quantity)
<1>1. CASE BookRefuses(b, id, side, price, quantity)
  <2>1. out = Rejected(b)
    <3>1. b.free # <<>> => SlotGoesBack(b) = b
      BY NothingIsKept
    <3> QED BY <1>1, <3>1 DEF Add, BookRefuses
  <2>2. QueuesRefuse(A, id, side, price, quantity)
    BY <1>1, BothRefuse
  <2> HIDE DEF A
  <2>3. abs = PriceTime!Rejected(A)
    BY <2>2 DEF PriceTime!Add, QueuesRefuse
  <2> HIDE DEF out, abs
  <2>4. Promised(out, abs)
    BY <2>1, <2>3, RejectedSame DEF A
  <2> QED BY <2>4 DEF A, out, abs
<1>2. CASE ~ BookRefuses(b, id, side, price, quantity)
  <2>1. out = Place(b, id, side, price, quantity)
    BY <1>2 DEF Add, BookRefuses
  <2>2. /\ price \in Prices /\ quantity \in Nat \ {0}
        /\ FindOrderSlot(b, id) = Nil /\ b.free # <<>>
        /\ FindLevel(b, side, price) # 0 \/ Len(b.levels[side]) < MaxLevels
    <3>1. Len(b.levels[side]) \in Nat /\ MaxLevels \in Nat
      BY BookAssumption, AssembledParts, LenProperties DEF Represents
    <3> QED BY <1>2, <3>1 DEF BookRefuses, PriceArguments
  <2>3. AddsTo(out, b, q, id, side, price, quantity)
    <3> HIDE DEF out
    <3> QED BY <2>1, <2>2, Placing
  <2> HIDE DEF out
  <2>4. PICK s, new, p : StoreAdds(out, b, q, id, side, price, quantity, s, new, p)
    BY <2>3 DEF AddsTo, StoreAdds
  <2>5. ~ QueuesRefuse(A, id, side, price, quantity)
    BY <1>2, BothRefuse
  <2> HIDE DEF A
  <2> DEFINE queue == Append(A[side][price], [orderId |-> id, quantity |-> quantity])
  <2>6. abs = PriceTime!Outcome([A EXCEPT ![side][price] = queue], TRUE,
                <<PriceTime!Update("Add", side, price, quantity, PriceTime!Total(queue), id)>>)
    BY <2>5 DEF PriceTime!Add, QueuesRefuse
  <2>7. QueuesGet(abs, A, side, price, queue, "Add", quantity, id)
    <3> DEFINE after == [A EXCEPT ![side][price] = queue]
               total == PriceTime!Total(queue)
    <3>1. Put(after, A, side, price, queue)
      BY DEF Put
    <3> HIDE DEF queue
    <3>2. total = PriceTime!Total(queue)
      OBVIOUS
    <3> HIDE DEF abs, after, total
    <3>3. abs = PriceTime!Outcome(after, TRUE, <<PriceTime!Update("Add", side, price, quantity, total, id)>>)
      BY <2>6 DEF after, total
    <3> QED BY <3>1, <3>2, <3>3, GetsQueue
  <2>8. queue = Append(Shown(b.slots, q)[side][price], [orderId |-> id, quantity |-> quantity])
    BY DEF A
  <2> HIDE DEF queue, abs
  <2>9. Promised(out, abs)
    BY <2>2, <2>4, <2>7, <2>8, AddingSame DEF A
  <2> QED BY <2>9 DEF A, out, abs
<1> QED BY <1>1, <1>2

(* deleteOrder does what the queues promise, whether it finds the order or *)
(* not.                                                                    *)
LEMMA DeleteSame ==
  ASSUME NEW b, NEW q, Represents(b, q), NEW id \in OrderIds
  PROVE  Promised(Delete(b, id), PriceTime!Delete(Shown(b.slots, q), id))
<1> DEFINE A == Shown(b.slots, q)
           out == Delete(b, id)
           abs == PriceTime!Delete(A, id)
<1>0. Assembled(b, q)
  BY DEF Represents
<1>1. CASE FindOrderSlot(b, id) = Nil
  <2>1. out = Rejected(b)
    BY <1>1 DEF Delete
  <2>2. PriceTime!Places(A, id) = {}
    BY <1>0, <1>1, FindsSame
  <2> HIDE DEF A
  <2>3. abs = PriceTime!Rejected(A)
    BY <2>2 DEF PriceTime!Delete
  <2> HIDE DEF out, abs
  <2>4. Promised(out, abs)
    BY <2>1, <2>3, RejectedSame DEF A
  <2> QED BY <2>4 DEF A, out, abs
<1>2. CASE FindOrderSlot(b, id) # Nil
  <2>1. DeletesFrom(out, b, q, id)
    BY <1>2, Deleting
  <2> HIDE DEF out
  <2>2. PICK s, side, price, position, n, new, p :
          StoreDeletes(out, b, q, id, s, side, price, position, n, new, p)
    BY <2>1 DEF DeletesFrom, StoreDeletes
  <2>3. At(b, q, s, side, price, position, n) /\ id = b.slots[s].orderId
    BY <2>2 DEF StoreDeletes
  <2>4. PriceTime!Places(A, id) = {<<side, price, n>>}
    BY <1>0, <2>3, OnePlace
  <2> HIDE DEF A
  <2> DEFINE at == <<side, price, n>>
             queue == RemoveAt(A[side][price], n)
  <2>5. (CHOOSE place \in PriceTime!Places(A, id) : TRUE) = at /\ PriceTime!Places(A, id) # {}
    BY <2>4
  <2>6. at[1] = side /\ at[2] = price /\ at[3] = n
    OBVIOUS
  <2>7. queue = PriceTime!RemoveAt(A[side][price], n)
    BY DEF PriceTime!RemoveAt, RemoveAt
  <2> HIDE DEF at, queue
  <2>8. abs = PriceTime!Outcome([A EXCEPT ![side][price] = queue], TRUE,
                <<PriceTime!Update("Delete", side, price, 0, PriceTime!Total(queue), id)>>)
    BY <2>5, <2>6, <2>7 DEF PriceTime!Delete
  <2>9. QueuesGet(abs, A, side, price, queue, "Delete", 0, id)
    <3> DEFINE after == [A EXCEPT ![side][price] = queue]
               total == PriceTime!Total(queue)
    <3>1. Put(after, A, side, price, queue)
      BY DEF Put
    <3> HIDE DEF queue
    <3>2. total = PriceTime!Total(queue)
      OBVIOUS
    <3> HIDE DEF abs, after, total
    <3>3. abs = PriceTime!Outcome(after, TRUE, <<PriceTime!Update("Delete", side, price, 0, total, id)>>)
      BY <2>8 DEF after, total
    <3> QED BY <3>1, <3>2, <3>3, GetsQueue
  <2>10. queue = RemoveAt(Shown(b.slots, q)[side][price], n)
    BY DEF A, queue
  <2> HIDE DEF abs
  <2>11. Promised(out, abs)
    BY <2>2, <2>9, <2>10, DeletingSame DEF A
  <2> QED BY <2>11 DEF A, out, abs
<1> QED BY <1>1, <1>2

(* modifyOrder does what the queues promise, also when the quantity makes  *)
(* it a delete.                                                            *)
LEMMA ModifySame ==
  ASSUME NEW b, NEW q, Represents(b, q), NEW id \in OrderIds, NEW quantity \in Int
  PROVE  Promised(Modify(b, id, quantity), PriceTime!Modify(Shown(b.slots, q), id, quantity))
<1> DEFINE A == Shown(b.slots, q)
           out == Modify(b, id, quantity)
           abs == PriceTime!Modify(A, id, quantity)
<1>0. Assembled(b, q)
  BY DEF Represents
<1>1. CASE quantity <= 0
  <2>1. out = Delete(b, id) /\ abs = PriceTime!Delete(A, id)
    BY <1>1 DEF Modify, PriceTime!Modify
  <2> HIDE DEF out, abs
  <2>2. Promised(out, abs)
    BY <2>1, DeleteSame
  <2> QED BY <2>2 DEF out, abs
<1>2. CASE ~ (quantity <= 0) /\ FindOrderSlot(b, id) = Nil
  <2>1. out = Rejected(b)
    BY <1>2 DEF Modify
  <2>2. PriceTime!Places(A, id) = {}
    BY <1>0, <1>2, FindsSame
  <2> HIDE DEF A
  <2>3. abs = PriceTime!Rejected(A)
    BY <1>2, <2>2 DEF PriceTime!Modify
  <2> HIDE DEF out, abs
  <2>4. Promised(out, abs)
    BY <2>1, <2>3, RejectedSame DEF A
  <2> QED BY <2>4 DEF A, out, abs
<1>3. CASE ~ (quantity <= 0) /\ FindOrderSlot(b, id) # Nil
  <2>0. quantity \in Nat \ {0}
    BY <1>3
  <2>1. ModifiesIn(out, b, q, id, quantity)
    BY <1>3, <2>0, Modifying
  <2> HIDE DEF out
  <2>2. PICK s, side, price, position, n :
          StoreModifies(out, b, q, id, quantity, s, side, price, position, n)
    BY <2>1 DEF ModifiesIn, StoreModifies
  <2>3. At(b, q, s, side, price, position, n) /\ id = b.slots[s].orderId
    BY <2>2 DEF StoreModifies
  <2>4. PriceTime!Places(A, id) = {<<side, price, n>>}
    BY <1>0, <2>3, OnePlace
  <2> HIDE DEF A
  <2> DEFINE at == <<side, price, n>>
             queue == [A[side][price] EXCEPT ![n].quantity = quantity]
  <2>5. (CHOOSE place \in PriceTime!Places(A, id) : TRUE) = at /\ PriceTime!Places(A, id) # {}
    BY <2>4
  <2>6. at[1] = side /\ at[2] = price /\ at[3] = n
    OBVIOUS
  <2> HIDE DEF at
  <2>7. abs = PriceTime!Outcome([A EXCEPT ![side][price] = queue], TRUE,
                <<PriceTime!Update("Modify", side, price, quantity, PriceTime!Total(queue), id)>>)
    BY <1>3, <2>5, <2>6 DEF PriceTime!Modify
  <2>8. QueuesGet(abs, A, side, price, queue, "Modify", quantity, id)
    <3> DEFINE after == [A EXCEPT ![side][price] = queue]
               total == PriceTime!Total(queue)
    <3>1. Put(after, A, side, price, queue)
      BY DEF Put
    <3> HIDE DEF queue
    <3>2. total = PriceTime!Total(queue)
      OBVIOUS
    <3> HIDE DEF abs, after, total
    <3>3. abs = PriceTime!Outcome(after, TRUE, <<PriceTime!Update("Modify", side, price, quantity, total, id)>>)
      BY <2>7 DEF after, total
    <3> QED BY <3>1, <3>2, <3>3, GetsQueue
  <2>9. Changed(queue, Shown(b.slots, q)[side][price], n, quantity)
    BY DEF A, Changed
  <2> HIDE DEF abs, queue
  <2>10. Promised(out, abs)
    BY <2>0, <2>2, <2>8, <2>9, ModifyingSame DEF A
  <2> QED BY <2>10 DEF A, out, abs
<1> QED BY <1>1, <1>2, <1>3

-----------------------------------------------------------------------------
(* Snapshots *)

(* The entries of snapshots. *)
Entry == Sides \X PriceArguments \X Int

(* The entries of a snapshot, and the ids they get. *)
LEMMA EntriesAre ==
  ASSUME NEW snapshot \in Snapshots, NEW entries, entries = Entries(snapshot.bids, snapshot.asks)
  PROVE  /\ Len(entries) \in Nat
         /\ \A k \in 1 .. Len(entries) : k \in OrderIds /\ entries[k] \in Entry
<1> DEFINE bids == snapshot.bids
           asks == snapshot.asks
           front == [i \in DOMAIN bids |-> <<"Buy", bids[i][1], bids[i][2]>>]
           back == [i \in DOMAIN asks |-> <<"Sell", asks[i][1], asks[i][2]>>]
<1>1. /\ bids \in Seq(PriceArguments \X Int) /\ asks \in Seq(PriceArguments \X Int)
      /\ 1 .. Len(bids) + Len(asks) \subseteq OrderIds
  BY BookAssumption
<1> HIDE DEF bids, asks
<1>2. /\ Len(bids) \in Nat /\ DOMAIN bids = 1 .. Len(bids)
      /\ \A i \in 1 .. Len(bids) : bids[i] \in PriceArguments \X Int
  BY <1>1, LenProperties
<1>3. /\ Len(asks) \in Nat /\ DOMAIN asks = 1 .. Len(asks)
      /\ \A i \in 1 .. Len(asks) : asks[i] \in PriceArguments \X Int
  BY <1>1, LenProperties
<1>4. "Buy" \in Sides /\ "Sell" \in Sides
  BY DEF Sides
<1>5. front \in Seq(Entry) /\ Len(front) = Len(bids)
  <2>1. front \in [1 .. Len(bids) -> Entry]
    BY <1>2, <1>4 DEF Entry
  <2> HIDE DEF front
  <2>2. front \in Seq(Entry)
    BY <1>2, <2>1
  <2> QED BY <1>2, <2>1, <2>2, LenProperties
<1>6. back \in Seq(Entry) /\ Len(back) = Len(asks)
  <2>1. back \in [1 .. Len(asks) -> Entry]
    BY <1>3, <1>4 DEF Entry
  <2> HIDE DEF back
  <2>2. back \in Seq(Entry)
    BY <1>3, <2>1
  <2> QED BY <1>3, <2>1, <2>2, LenProperties
<1>7. entries = front \o back
  BY DEF Entries, front, back, bids, asks
<1> HIDE DEF front, back
<1>8. entries \in Seq(Entry) /\ Len(entries) = Len(bids) + Len(asks)
  <2>1. front \o back \in Seq(Entry) /\ Len(front \o back) = Len(front) + Len(back)
    BY <1>5, <1>6, ConcatProperties
  <2> QED BY <1>5, <1>6, <1>7, <2>1
<1>9. \A k \in 1 .. Len(entries) : entries[k] \in Entry
  BY <1>8, LenProperties
<1> QED BY <1>1, <1>2, <1>3, <1>8, <1>9

(* Both books read the same entries off a snapshot. *)
LEMMA SameEntries == \A bids, asks : PriceTime!Entries(bids, asks) = Entries(bids, asks)
BY DEF PriceTime!Entries, Entries

(* One call of addOrder in a snapshot does what the queues promise. *)
LEMMA AddEntrySame ==
  ASSUME NEW x, NEW y, Promised(x, y), NEW n \in OrderIds, NEW e \in Entry
  PROVE  Promised(AddEntry(x, n, e), PriceTime!AddEntry(y, n, e))
<1>1. PICK q : Keeps(x, y, q)
  BY DEF Promised
<1>2. /\ Represents(x.book, q) /\ y.queues = Shown(x.book.slots, q) /\ x.events = y.events
  BY <1>1 DEF Keeps
<1>3. e[1] \in Sides /\ e[2] \in PriceArguments /\ e[3] \in Int
  BY DEF Entry
<1> DEFINE added == Add(x.book, n, e[1], e[2], e[3])
           wanted == PriceTime!Add(y.queues, n, e[1], e[2], e[3])
           out == AddEntry(x, n, e)
           abs == PriceTime!AddEntry(y, n, e)
<1>4. Promised(added, wanted)
  <2> HIDE DEF added
  <2>1. Promised(added, PriceTime!Add(Shown(x.book.slots, q), n, e[1], e[2], e[3]))
    BY <1>2, <1>3, AddSame DEF added
  <2> QED BY <1>2, <2>1
<1>5. out.book = added.book /\ out.returned = TRUE /\ out.events = x.events \o added.events
  BY DEF AddEntry, Outcome
<1>6. abs.queues = wanted.queues /\ abs.returned = TRUE /\ abs.events = y.events \o wanted.events
  BY DEF PriceTime!AddEntry, PriceTime!Outcome
<1> HIDE DEF added, wanted, out, abs
<1>7. PICK p : Keeps(added, wanted, p)
  BY <1>4 DEF Promised
<1>8. Represents(added.book, p) /\ wanted.queues = Shown(added.book.slots, p) /\ added.events = wanted.events
  BY <1>7 DEF Keeps
<1>9. Keeps(out, abs, p)
  BY <1>2, <1>5, <1>6, <1>8 DEF Keeps
<1> QED BY <1>9 DEF Promised, out, abs

(* What comes after k entries, given what came after those before. *)
BookAfter(g, k, entries) ==
  IF k = 0 THEN Outcome(EmptyBook, TRUE, <<>>) ELSE AddEntry(g[k - 1], k, entries[k])

QueuesAfter(h, k, entries) ==
  IF k = 0 THEN PriceTime!Outcome(PriceTime!NoOrders, TRUE, <<>>)
  ELSE PriceTime!AddEntry(h[k - 1], k, entries[k])

(* g and h are the courses of a snapshot's first n entries. *)
BookCourse(g, n, entries) == g = [k \in 0 .. n |-> BookAfter(g, k, entries)]
QueuesCourse(h, n, entries) == h = [k \in 0 .. n |-> QueuesAfter(h, k, entries)]

(* f goes on as g did. *)
GoesOn(f, g, n, last) == f = [k \in 0 .. n |-> IF k = n THEN last ELSE g[k]]

(* A course of the storage goes on by one entry. *)
LEMMA BookCourseGoesOn ==
  ASSUME NEW n \in Nat \ {0}, NEW entries, NEW g, BookCourse(g, n - 1, entries),
         NEW f, GoesOn(f, g, n, BookAfter(g, n, entries))
  PROVE  BookCourse(f, n, entries)
<1>1. \A k \in 0 .. n : f[k] = IF k = n THEN BookAfter(g, n, entries) ELSE g[k]
  BY DEF GoesOn
<1>2. \A k \in 0 .. n - 1 : g[k] = BookAfter(g, k, entries)
  BY DEF BookCourse
<1>3. ASSUME NEW k \in 0 .. n
      PROVE  f[k] = BookAfter(f, k, entries)
  <2>1. k # 0 => f[k - 1] = g[k - 1]
    BY <1>1
  <2>2. BookAfter(f, k, entries) = BookAfter(g, k, entries)
    BY <2>1 DEF BookAfter
  <2>3. k # n => k \in 0 .. n - 1
    OBVIOUS
  <2> QED BY <1>1, <1>2, <2>2, <2>3
<1>4. f = [k \in 0 .. n |-> f[k]]
  BY DEF GoesOn
<1> QED BY <1>3, <1>4 DEF BookCourse

(* A course of the queues goes on by one entry. *)
LEMMA QueuesCourseGoesOn ==
  ASSUME NEW n \in Nat \ {0}, NEW entries, NEW g, QueuesCourse(g, n - 1, entries),
         NEW f, GoesOn(f, g, n, QueuesAfter(g, n, entries))
  PROVE  QueuesCourse(f, n, entries)
<1>1. \A k \in 0 .. n : f[k] = IF k = n THEN QueuesAfter(g, n, entries) ELSE g[k]
  BY DEF GoesOn
<1>2. \A k \in 0 .. n - 1 : g[k] = QueuesAfter(g, k, entries)
  BY DEF QueuesCourse
<1>3. ASSUME NEW k \in 0 .. n
      PROVE  f[k] = QueuesAfter(f, k, entries)
  <2>1. k # 0 => f[k - 1] = g[k - 1]
    BY <1>1
  <2>2. QueuesAfter(f, k, entries) = QueuesAfter(g, k, entries)
    BY <2>1 DEF QueuesAfter
  <2>3. k # n => k \in 0 .. n - 1
    OBVIOUS
  <2> QED BY <1>1, <1>2, <2>2, <2>3
<1>4. f = [k \in 0 .. n |-> f[k]]
  BY DEF GoesOn
<1> QED BY <1>3, <1>4 DEF QueuesCourse

(* There are courses of any length: a shortest length without one would    *)
(* follow one that has.                                                    *)
LEMMA CoursesExist ==
  ASSUME NEW entries, NEW n \in Nat
  PROVE  \E g, h : BookCourse(g, n, entries) /\ QueuesCourse(h, n, entries)
<1> DEFINE Bad == {m \in Nat : ~ \E g, h : BookCourse(g, m, entries) /\ QueuesCourse(h, m, entries)}
<1>1. SUFFICES ASSUME Bad # {}  PROVE FALSE
  OBVIOUS
<1>2. PICK m \in Bad : \A k \in Bad : m <= k
  <2>1. Bad \in SUBSET Nat
    OBVIOUS
  <2> HIDE DEF Bad
  <2> QED BY <1>1, <2>1, LeastNatural
<1>3. m \in Nat /\ ~ \E g, h : BookCourse(g, m, entries) /\ QueuesCourse(h, m, entries)
  OBVIOUS
<1>4. m # 0
  <2> SUFFICES ASSUME m = 0  PROVE \E g, h : BookCourse(g, m, entries) /\ QueuesCourse(h, m, entries)
    BY <1>3
  <2> DEFINE g == [k \in 0 .. 0 |-> Outcome(EmptyBook, TRUE, <<>>)]
             h == [k \in 0 .. 0 |-> PriceTime!Outcome(PriceTime!NoOrders, TRUE, <<>>)]
  <2>1. \A k \in 0 .. 0 : k = 0
    OBVIOUS
  <2>2. \A k \in 0 .. 0 : /\ BookAfter(g, k, entries) = Outcome(EmptyBook, TRUE, <<>>)
                          /\ QueuesAfter(h, k, entries) = PriceTime!Outcome(PriceTime!NoOrders, TRUE, <<>>)
    BY <2>1 DEF BookAfter, QueuesAfter
  <2>3. g = [k \in 0 .. 0 |-> BookAfter(g, k, entries)]
    BY <2>2
  <2>4. h = [k \in 0 .. 0 |-> QueuesAfter(h, k, entries)]
    BY <2>2
  <2> HIDE DEF g, h
  <2>5. BookCourse(g, 0, entries) /\ QueuesCourse(h, 0, entries)
    BY <2>3, <2>4 DEF BookCourse, QueuesCourse
  <2> QED BY <2>5
<1>5. m - 1 \in Nat /\ m - 1 \notin Bad
  <2> HIDE DEF Bad
  <2>1. m - 1 \in Nat /\ ~ (m <= m - 1)
    BY <1>3, <1>4
  <2> QED BY <1>2, <2>1
<1>6. PICK g, h : BookCourse(g, m - 1, entries) /\ QueuesCourse(h, m - 1, entries)
  BY <1>5
<1> DEFINE f == [k \in 0 .. m |-> IF k = m THEN BookAfter(g, m, entries) ELSE g[k]]
           e == [k \in 0 .. m |-> IF k = m THEN QueuesAfter(h, m, entries) ELSE h[k]]
<1>7. GoesOn(f, g, m, BookAfter(g, m, entries)) /\ GoesOn(e, h, m, QueuesAfter(h, m, entries))
  BY DEF GoesOn
<1> HIDE DEF f, e, Bad
<1>8. m \in Nat \ {0}
  BY <1>3, <1>4
<1>9. BookCourse(f, m, entries)
  BY <1>6, <1>7, <1>8, BookCourseGoesOn
<1>10. QueuesCourse(e, m, entries)
  BY <1>6, <1>7, <1>8, QueuesCourseGoesOn
<1> QED BY <1>3, <1>9, <1>10

(* Both courses keep in step. *)
LEMMA CoursesMeet ==
  ASSUME NEW snapshot \in Snapshots, NEW entries, entries = Entries(snapshot.bids, snapshot.asks),
         NEW g, NEW h, BookCourse(g, Len(entries), entries), QueuesCourse(h, Len(entries), entries)
  PROVE  \A k \in 0 .. Len(entries) : Promised(g[k], h[k])
<1> DEFINE n == Len(entries)
<1>1. n \in Nat /\ \A k \in 1 .. n : k \in OrderIds /\ entries[k] \in Entry
  BY EntriesAre
<1>2. \A k \in 0 .. n : g[k] = BookAfter(g, k, entries) /\ h[k] = QueuesAfter(h, k, entries)
  BY DEF BookCourse, QueuesCourse
<1> HIDE DEF n
<1> DEFINE Bad == {k \in 0 .. n : ~ Promised(g[k], h[k])}
<1>3. SUFFICES ASSUME Bad # {}  PROVE FALSE
  BY DEF n
<1>4. PICK k \in Bad : \A j \in Bad : k <= j
  <2>1. Bad \in SUBSET Nat
    BY <1>1
  <2> HIDE DEF Bad
  <2> QED BY <1>3, <2>1, LeastNatural
<1>5. k \in 0 .. n /\ ~ Promised(g[k], h[k])
  OBVIOUS
<1>6. k # 0
  <2> SUFFICES ASSUME k = 0 PROVE Promised(g[k], h[k])
    BY <1>5
  <2>1. g[0] = Outcome(EmptyBook, TRUE, <<>>) /\ h[0] = PriceTime!Outcome(PriceTime!NoOrders, TRUE, <<>>)
    BY <1>2, <1>5 DEF BookAfter, QueuesAfter
  <2> QED BY <2>1, EmptySame
<1>7. k - 1 \in 0 .. n /\ k - 1 \notin Bad /\ k \in 1 .. n
  <2>1. k - 1 \in 0 .. n /\ ~ (k <= k - 1) /\ k \in 1 .. n
    BY <1>1, <1>5, <1>6
  <2> HIDE DEF Bad
  <2> QED BY <1>4, <2>1
<1>8. Promised(g[k - 1], h[k - 1])
  BY <1>7
<1> HIDE DEF Bad
<1>9. g[k] = AddEntry(g[k - 1], k, entries[k]) /\ h[k] = PriceTime!AddEntry(h[k - 1], k, entries[k])
  BY <1>2, <1>5, <1>6 DEF BookAfter, QueuesAfter
<1>10. k \in OrderIds /\ entries[k] \in Entry
  BY <1>1, <1>7
<1>11. Promised(g[k], h[k])
  BY <1>8, <1>9, <1>10, AddEntrySame
<1> QED BY <1>5, <1>11

(* A snapshot is the end of such a course. *)
LEMMA SnapshotIs ==
  ASSUME NEW snapshot \in Snapshots, NEW entries, entries = Entries(snapshot.bids, snapshot.asks)
  PROVE  \E g : /\ BookCourse(g, Len(entries), entries)
                /\ Snapshot(snapshot.bids, snapshot.asks) =
                     [g[Len(entries)] EXCEPT !.events =
                        Append(@, Update("Snapshot", "Buy", g[Len(entries)].book.bestBid, 0, 0, InvalidId))]
<1>1. Len(entries) \in Nat
  BY EntriesAre
<1> DEFINE g == CHOOSE f : BookCourse(f, Len(entries), entries)
<1>2. BookCourse(g, Len(entries), entries)
  <2>1. \E f : BookCourse(f, Len(entries), entries)
    BY <1>1, CoursesExist
  <2> QED BY <2>1
<1>3. Snapshot(snapshot.bids, snapshot.asks) =
        [g[Len(entries)] EXCEPT !.events =
           Append(@, Update("Snapshot", "Buy", g[Len(entries)].book.bestBid, 0, 0, InvalidId))]
  BY DEF Snapshot, BookCourse, BookAfter
<1> QED BY <1>2, <1>3

(* A snapshot of the queues is the end of such a course, too. *)
LEMMA QueuesSnapshotIs ==
  ASSUME NEW snapshot \in Snapshots, NEW entries, entries = PriceTime!Entries(snapshot.bids, snapshot.asks)
  PROVE  \E h : /\ QueuesCourse(h, Len(entries), entries)
                /\ PriceTime!Snapshot(snapshot.bids, snapshot.asks) =
                     [h[Len(entries)] EXCEPT !.events =
                        Append(@, PriceTime!Update("Snapshot", "Buy", PriceTime!Best(h[Len(entries)].queues, "Buy"),
                                                   0, 0, InvalidId))]
<1>1. Len(entries) \in Nat
  BY EntriesAre, SameEntries
<1> DEFINE h == CHOOSE f : QueuesCourse(f, Len(entries), entries)
<1>2. QueuesCourse(h, Len(entries), entries)
  <2>1. \E f : QueuesCourse(f, Len(entries), entries)
    BY <1>1, CoursesExist
  <2> QED BY <2>1
<1>3. PriceTime!Snapshot(snapshot.bids, snapshot.asks) =
        [h[Len(entries)] EXCEPT !.events =
           Append(@, PriceTime!Update("Snapshot", "Buy", PriceTime!Best(h[Len(entries)].queues, "Buy"),
                                      0, 0, InvalidId))]
  BY DEF PriceTime!Snapshot, QueuesCourse, QueuesAfter
<1> QED BY <1>2, <1>3

(* out is x with one more event. *)
EventAdded(out, x, e) == out = [x EXCEPT !.events = Append(@, e)]

(* x and y are outcomes. *)
AreOutcomes(x, y) ==
  /\ x = Outcome(x.book, TRUE, x.events)
  /\ y = PriceTime!Outcome(y.queues, TRUE, y.events)

(* What is on a course is an outcome. *)
LEMMA AfterAreOutcomes ==
  ASSUME NEW g, NEW h, NEW k, NEW entries
  PROVE  AreOutcomes(BookAfter(g, k, entries), QueuesAfter(h, k, entries))
<1>1. \E b, emitted : BookAfter(g, k, entries) = Outcome(b, TRUE, emitted)
  BY DEF BookAfter, AddEntry
<1>2. \A b, emitted : LET x == Outcome(b, TRUE, emitted) IN x = Outcome(x.book, TRUE, x.events)
  BY DEF Outcome
<1>3. \E q, emitted : QueuesAfter(h, k, entries) = PriceTime!Outcome(q, TRUE, emitted)
  BY DEF QueuesAfter, PriceTime!AddEntry
<1>4. \A q, emitted : LET y == PriceTime!Outcome(q, TRUE, emitted) IN y = PriceTime!Outcome(y.queues, TRUE, y.events)
  BY DEF PriceTime!Outcome
<1> QED BY <1>1, <1>2, <1>3, <1>4 DEF AreOutcomes

(* Two outcomes with the same event added to their updates. *)
GotEvent(out, abs, x, y, e) ==
  /\ out.book = x.book /\ out.returned = TRUE /\ out.events = Append(x.events, e)
  /\ abs.queues = y.queues /\ abs.returned = TRUE /\ abs.events = Append(y.events, e)

(* An outcome with one more event is as before otherwise. *)
LEMMA OutcomesGetEvent ==
  ASSUME NEW x, NEW y, AreOutcomes(x, y), NEW e, NEW out, EventAdded(out, x, e), NEW abs, EventAdded(abs, y, e)
  PROVE  GotEvent(out, abs, x, y, e)
<1>1. ASSUME NEW b, NEW emitted, NEW o, EventAdded(o, Outcome(b, TRUE, emitted), e)
      PROVE  o.book = b /\ o.returned = TRUE /\ o.events = Append(emitted, e)
  BY <1>1 DEF Outcome, EventAdded
<1>2. ASSUME NEW q, NEW emitted, NEW o, EventAdded(o, PriceTime!Outcome(q, TRUE, emitted), e)
      PROVE  o.queues = q /\ o.returned = TRUE /\ o.events = Append(emitted, e)
  BY <1>2 DEF PriceTime!Outcome, EventAdded
<1> DEFINE b == x.book
           q == y.queues
           before == x.events
           wanted == y.events
<1>3. EventAdded(out, Outcome(b, TRUE, before), e) /\ EventAdded(abs, PriceTime!Outcome(q, TRUE, wanted), e)
  BY DEF AreOutcomes
<1> HIDE DEF b, q, before, wanted
<1>4. out.book = b /\ out.returned = TRUE /\ out.events = Append(before, e)
  BY <1>1, <1>3
<1>5. abs.queues = q /\ abs.returned = TRUE /\ abs.events = Append(wanted, e)
  BY <1>2, <1>3
<1> QED BY <1>4, <1>5 DEF GotEvent, b, q, before, wanted

(* applySnapshot does what the queues promise: the same entries accepted   *)
(* and refused, the same updates, the same best bid reported.              *)
LEMMA SnapshotSame ==
  ASSUME NEW snapshot \in Snapshots
  PROVE  Promised(Snapshot(snapshot.bids, snapshot.asks), PriceTime!Snapshot(snapshot.bids, snapshot.asks))
<1> DEFINE entries == Entries(snapshot.bids, snapshot.asks)
           n == Len(entries)
           out == Snapshot(snapshot.bids, snapshot.asks)
           abs == PriceTime!Snapshot(snapshot.bids, snapshot.asks)
<1>1. entries = PriceTime!Entries(snapshot.bids, snapshot.asks)
  BY SameEntries
<1>2. entries = Entries(snapshot.bids, snapshot.asks) /\ n = Len(entries)
  OBVIOUS
<1> HIDE DEF entries, n, out, abs
<1>3. n \in Nat
  BY <1>2, EntriesAre
<1>4. PICK g : /\ BookCourse(g, n, entries)
               /\ out = [g[n] EXCEPT !.events =
                           Append(@, Update("Snapshot", "Buy", g[n].book.bestBid, 0, 0, InvalidId))]
  BY <1>2, SnapshotIs DEF out
<1>5. PICK h : /\ QueuesCourse(h, n, entries)
               /\ abs = [h[n] EXCEPT !.events =
                          Append(@, PriceTime!Update("Snapshot", "Buy", PriceTime!Best(h[n].queues, "Buy"),
                                                     0, 0, InvalidId))]
  BY <1>1, <1>2, QueuesSnapshotIs DEF abs
<1> DEFINE x == g[n]
           y == h[n]
           e == Update("Snapshot", "Buy", x.book.bestBid, 0, 0, InvalidId)
           f == PriceTime!Update("Snapshot", "Buy", PriceTime!Best(y.queues, "Buy"), 0, 0, InvalidId)
<1>6. AreOutcomes(x, y)
  <2>1. BookCourse(g, n, entries) /\ QueuesCourse(h, n, entries)
    BY <1>4, <1>5
  <2>2. n \in 0 .. n
    BY <1>3
  <2>3. (\A k \in 0 .. n : g[k] = BookAfter(g, k, entries)) /\ \A k \in 0 .. n : h[k] = QueuesAfter(h, k, entries)
    BY <2>1 DEF BookCourse, QueuesCourse
  <2>4. x = BookAfter(g, n, entries) /\ y = QueuesAfter(h, n, entries)
    BY <2>2, <2>3
  <2> QED BY <2>4, AfterAreOutcomes
<1>7. Promised(x, y)
  BY <1>2, <1>3, <1>4, <1>5, CoursesMeet
<1>8. EventAdded(out, x, e) /\ EventAdded(abs, y, f)
  BY <1>4, <1>5 DEF EventAdded
<1>9. e = Update("Snapshot", "Buy", x.book.bestBid, 0, 0, InvalidId)
      /\ f = PriceTime!Update("Snapshot", "Buy", PriceTime!Best(y.queues, "Buy"), 0, 0, InvalidId)
  OBVIOUS
<1> HIDE DEF x, y, e, f
<1>10. PICK p : Keeps(x, y, p)
  BY <1>7 DEF Promised
<1>11. Represents(x.book, p) /\ y.queues = Shown(x.book.slots, p) /\ x.events = y.events
  BY <1>10 DEF Keeps
<1>12. PriceTime!Best(y.queues, "Buy") = x.book.bestBid
  <2>1. PriceTime!Best(Shown(x.book.slots, p), "Buy") = TopPrice(x.book.levels["Buy"])
    BY <1>11, BestIs DEF Sides
  <2>2. x.book.bestBid = TopPrice(x.book.levels["Buy"])
    BY <1>11 DEF Represents
  <2> QED BY <1>11, <2>1, <2>2
<1>13. e = f
  BY <1>9, <1>12 DEF Update, PriceTime!Update
<1>14. /\ out.book = x.book /\ out.returned = TRUE /\ out.events = Append(x.events, e)
       /\ abs.queues = y.queues /\ abs.returned = TRUE /\ abs.events = Append(y.events, e)
  <2>1. EventAdded(out, x, e) /\ EventAdded(abs, y, e)
    BY <1>8, <1>13
  <2>2. GotEvent(out, abs, x, y, e)
    BY <1>6, <2>1, OutcomesGetEvent
  <2> QED BY <2>2 DEF GotEvent
<1>18. Keeps(out, abs, p)
  BY <1>11, <1>14 DEF Keeps
<1> QED BY <1>18 DEF Promised, out, abs

-----------------------------------------------------------------------------
(* What a storage that stands for lists has *)

(* PoolConsistent, said of any book. *)
PoolFine(b) ==
  /\ /\ b \in Book
     /\ \A side \in Sides : Len(b.levels[side]) <= MaxLevels
     /\ \A s \in Slot : b.slots[s].active <=> b.slots[s].quantity > 0
  /\ /\ Len(b.free) = Cardinality(ToSet(b.free))
     /\ ToSet(b.free) = Slot \ ActiveIn(b.slots)
     /\ \A s \in Slot \ ActiveIn(b.slots) : b.slots[s] = EmptySlot
     /\ b.orderCount = Cardinality(ActiveIn(b.slots))
  /\ \A id \in OrderIds :
       LET holders == {s \in ActiveIn(b.slots) : b.slots[s].orderId = id}
       IN  IF holders = {} THEN FindOrderSlot(b, id) = Nil
           ELSE holders = {FindOrderSlot(b, id)}

(* A storage that stands for lists has a consistent pool and index. *)
LEMMA PoolIsFine ==
  ASSUME NEW b, NEW q, Represents(b, q)
  PROVE  PoolFine(b)
<1>1. Assembled(b, q)
  BY DEF Represents
<1>2. b \in Book /\ \A side \in Sides : Len(b.levels[side]) <= MaxLevels
  BY <1>1, AssembledParts DEF LevelsFit
<1>3. \A s \in Slot : b.slots[s].active <=> b.slots[s].quantity > 0
  BY <1>1 DEF Assembled, ActiveHaveQuantity
<1>4. /\ b.free \in Seq(Slot) /\ NoRepeats(b.free)
      /\ (\A s \in Slot : s \in ToSet(b.free) <=> ~ b.slots[s].active)
      /\ (\A s \in Slot : ~ b.slots[s].active => b.slots[s] = EmptySlot)
      /\ b.orderCount = Cardinality(ActiveIn(b.slots))
  BY <1>1 DEF Assembled, Pooled
<1> DEFINE free == b.free
<1>5. Len(free) = Cardinality(ToSet(free)) /\ ToSet(free) \subseteq Slot
  <2>1. free \in Seq(Slot) /\ NoRepeats(free)
    BY <1>4
  <2> HIDE DEF free
  <2> QED BY <2>1, ListFits
<1>6. ToSet(free) = Slot \ ActiveIn(b.slots)
  BY <1>4, <1>5 DEF ActiveIn
<1>7. \A s \in Slot \ ActiveIn(b.slots) : b.slots[s] = EmptySlot
  BY <1>4 DEF ActiveIn
<1>8. ASSUME NEW id \in OrderIds
      PROVE  LET holders == {s \in ActiveIn(b.slots) : b.slots[s].orderId = id}
             IN  IF holders = {} THEN FindOrderSlot(b, id) = Nil
                 ELSE holders = {FindOrderSlot(b, id)}
  <2> DEFINE holders == {s \in ActiveIn(b.slots) : b.slots[s].orderId = id}
             found == FindOrderSlot(b, id)
  <2>1. /\ found # Nil => found \in Slot /\ b.slots[found].active /\ b.slots[found].orderId = id
        /\ found = Nil => \A t \in Slot : b.slots[t].active => b.slots[t].orderId # id
    <3> HIDE DEF found
    <3> QED BY <1>1, FindIs DEF found
  <2>2. OneOrderPerId(b.slots)
    BY <1>1 DEF Assembled, IndexHolds
  <2> HIDE DEF found
  <2>3. CASE found = Nil
    <3>1. holders = {}
      BY <2>1, <2>3 DEF ActiveIn
    <3> QED BY <2>3, <3>1 DEF found
  <2>4. CASE found # Nil
    <3>1. found \in holders
      BY <2>1, <2>4 DEF ActiveIn
    <3>2. \A s \in holders : s = found
      BY <2>1, <2>2, <2>4 DEF ActiveIn, OneOrderPerId
    <3>3. holders = {found}
      BY <3>1, <3>2
    <3> QED BY <3>3 DEF found
  <2> QED BY <2>3, <2>4
<1> QED BY <1>2, <1>3, <1>4, <1>5, <1>6, <1>7, <1>8 DEF PoolFine

(* A level of the storage, and the list it has. *)
LevelFine(b, q, side, i) ==
  LET chain == Chain(b.slots, b.levels[side][i].first)
  IN  /\ chain = q[side][b.levels[side][i].price] /\ chain \in Seq(Slot) /\ NoRepeats(chain)
      /\ chain # <<>> /\ Len(chain) \in Nat \ {0} /\ DOMAIN chain = 1 .. Len(chain)
      /\ b.levels[side][i].price \in Prices
      /\ Strung(b.slots, chain, side, b.levels[side][i].price)
      /\ Describes(b.levels[side][i], b.slots, chain)
      /\ b.levels[side][i].totalQty = SumFunction([k \in DOMAIN chain |-> b.slots[chain[k]].quantity])

(* In a storage that stands for lists, a level's walk is the list of its   *)
(* price.                                                                  *)
LEMMA LevelIsFine ==
  ASSUME NEW b, NEW q, Represents(b, q), NEW side \in Sides, NEW i \in DOMAIN b.levels[side]
  PROVE  LevelFine(b, q, side, i)
<1> DEFINE level == b.levels[side][i]
           price == level.price
           c == q[side][price]
           slots == b.slots
<1>1. Assembled(b, q) /\ NoneEmpty(b.levels[side], q[side])
  BY DEF Represents
<1>2. /\ slots \in [Slot -> OrderSlot] /\ q \in Lists /\ Threaded(slots, q)
      /\ b.levels[side] \in Seq(LevelSlot) /\ LevelsFit(side, b.levels[side], slots, q[side])
  BY <1>1, AssembledParts
<1>3. price \in Prices
  BY <1>2, LevelSlots
<1>4. Describes(level, slots, c) /\ c # <<>>
  BY <1>1, <1>2 DEF LevelsFit, NoneEmpty
<1> HIDE DEF slots, price
<1>5. Strung(slots, c, side, price)
  BY <1>2, <1>3 DEF Threaded
<1>6. c \in Seq(Slot) /\ NoRepeats(c) /\ Chain(slots, FirstOf(c)) = c
  BY <1>2, <1>3, ListIs
<1>7. level.first = FirstOf(c) /\ level.totalQty = Weight(slots, ToSet(c))
  BY <1>4 DEF Describes
<1> HIDE DEF c, level
<1>8. Len(c) \in Nat \ {0} /\ DOMAIN c = 1 .. Len(c)
  BY <1>4, <1>6, LenProperties, EmptyList
<1>9. level.totalQty = SumFunction([k \in DOMAIN c |-> slots[c[k]].quantity])
  BY <1>2, <1>6, <1>7, TotalIs
<1>10. Chain(slots, level.first) = c
  BY <1>6, <1>7
<1> DEFINE chain == Chain(slots, level.first)
<1>11. /\ chain = c /\ chain \in Seq(Slot) /\ NoRepeats(chain)
       /\ chain # <<>> /\ Len(chain) \in Nat \ {0} /\ DOMAIN chain = 1 .. Len(chain)
       /\ price \in Prices
       /\ Strung(slots, chain, side, price)
       /\ Describes(level, slots, chain)
       /\ level.totalQty = SumFunction([k \in DOMAIN chain |-> slots[chain[k]].quantity])
  <2>1. chain = c
    BY <1>10
  <2> HIDE DEF chain
  <2> QED BY <1>3, <1>4, <1>5, <1>6, <1>8, <1>9, <2>1
<1> QED BY <1>11, Zenon DEF LevelFine, level, c, price, slots

(* Queues, said of any book. *)
QueueOf(b, side, price) ==
  LET i == FindLevel(b, side, price)
      chain == Chain(b.slots, b.levels[side][i].first)
  IN  IF i = 0 THEN <<>>
      ELSE [k \in DOMAIN chain |-> [orderId |-> b.slots[chain[k]].orderId, quantity |-> b.slots[chain[k]].quantity]]

QueuesOf(b) == [side \in Sides |-> [price \in Prices |-> QueueOf(b, side, price)]]

(* The queues read off the storage are those its lists show. *)
LEMMA QueuesAreShown ==
  ASSUME NEW b, NEW q, Represents(b, q)
  PROVE  QueuesOf(b) = Shown(b.slots, q)
<1>1. ASSUME NEW side \in Sides, NEW price \in Prices
      PROVE  QueueOf(b, side, price) = ShownList(b.slots, q[side][price])
  <2> DEFINE i == FindLevel(b, side, price)
             chain == Chain(b.slots, b.levels[side][i].first)
             shown == [k \in DOMAIN chain |->
                        [orderId |-> b.slots[chain[k]].orderId, quantity |-> b.slots[chain[k]].quantity]]
  <2>1. QueueOf(b, side, price) = IF i = 0 THEN <<>> ELSE shown
    BY DEF QueueOf
  <2>2. i = FindLevel(b, side, price) /\ chain = Chain(b.slots, b.levels[side][i].first)
    OBVIOUS
  <2>3. shown = ShownList(b.slots, chain)
    BY DEF ShownList
  <2> HIDE DEF i, chain, shown
  <2>4. Assembled(b, q) /\ b.levels[side] \in Seq(LevelSlot)
    BY AssembledParts DEF Represents
  <2>5. /\ i = 0 => \A j \in DOMAIN b.levels[side] : b.levels[side][j].price # price
        /\ i # 0 => i \in DOMAIN b.levels[side] /\ b.levels[side][i].price = price
    BY <2>2, <2>4, FindLevelIs
  <2>6. CASE i = 0
    <3>1. price \notin LevelPrices(b.levels[side])
      BY <2>5, <2>6 DEF LevelPrices
    <3>2. price \notin PriceTime!Levels(Shown(b.slots, q), side)
      BY <3>1, LevelsAre
    <3>3. Shown(b.slots, q)[side][price] = <<>>
      BY <3>2 DEF PriceTime!Levels
    <3>4. Shown(b.slots, q)[side][price] = ShownList(b.slots, q[side][price])
      BY DEF Shown
    <3> QED BY <2>1, <2>6, <3>3, <3>4
  <2>7. CASE i # 0
    <3>1. LevelFine(b, q, side, i)
      BY <2>5, <2>7, LevelIsFine
    <3>2. chain = q[side][price]
      BY <2>2, <2>5, <2>7, <3>1, Zenon DEF LevelFine
    <3> QED BY <2>1, <2>3, <2>7, <3>2
  <2> QED BY <2>6, <2>7
<1> QED BY <1>1 DEF QueuesOf, Shown

(* LevelsConsistent, said of any book. *)
LevelsFine(b) ==
  /\ \A side \in Sides : \A i \in DOMAIN b.levels[side] :
       LET chain == Chain(b.slots, b.levels[side][i].first)
           level == b.levels[side][i]
       IN  /\ chain # <<>>
           /\ level.last = Last(chain)
           /\ \A k \in DOMAIN chain :
                LET slot == b.slots[chain[k]]
                IN  /\ slot.active /\ slot.side = side
                    /\ slot.price = level.price
                    /\ slot.levelIndex = i
                    /\ slot.prev = IF k = 1 THEN Nil ELSE chain[k - 1]
  /\ \A s \in ActiveIn(b.slots) :
       LET slot == b.slots[s]
       IN  /\ slot.levelIndex \in DOMAIN b.levels[slot.side]
           /\ s \in ToSet(Chain(b.slots, b.levels[slot.side][slot.levelIndex].first))
  /\ \A side \in Sides :
       /\ \A i \in DOMAIN b.levels[side] :
            LET chain == Chain(b.slots, b.levels[side][i].first)
            IN  /\ b.levels[side][i].orders = Len(chain)
                /\ b.levels[side][i].orders > 0
                /\ b.levels[side][i].totalQty =
                     SumFunction([k \in DOMAIN chain |-> b.slots[chain[k]].quantity])
       /\ \A i, j \in DOMAIN b.levels[side] :
            i < j => Better(side, b.levels[side][i].price, b.levels[side][j].price)

(* A level's list, as a walk along it passes the slots. *)
WalkFits(slots, chain, level, side, i) ==
  /\ chain # <<>> /\ level.last = Last(chain)
  /\ \A k \in DOMAIN chain :
       LET slot == slots[chain[k]]
       IN  /\ slot.active /\ slot.side = side
           /\ slot.price = level.price
           /\ slot.levelIndex = i
           /\ slot.prev = IF k = 1 THEN Nil ELSE chain[k - 1]

(* A storage that stands for lists has consistent levels. *)
LEMMA LevelsAreFine ==
  ASSUME NEW b, NEW q, Represents(b, q)
  PROVE  LevelsFine(b)
<1>0. Assembled(b, q)
  BY DEF Represents
<1>1. /\ b.slots \in [Slot -> OrderSlot]
      /\ \A side \in Sides : LevelsFit(side, b.levels[side], b.slots, q[side]) /\ b.levels[side] \in Seq(LevelSlot)
  BY <1>0, AssembledParts
<1>2. ASSUME NEW side \in Sides, NEW i \in DOMAIN b.levels[side],
             NEW chain, chain = Chain(b.slots, b.levels[side][i].first),
             NEW level, level = b.levels[side][i]
      PROVE  WalkFits(b.slots, chain, level, side, i)
  <2>0. LevelFine(b, q, side, i)
    BY LevelIsFine
  <2>1. /\ chain # <<>> /\ chain \in Seq(Slot) /\ Strung(b.slots, chain, side, level.price)
        /\ Describes(level, b.slots, chain) /\ DOMAIN chain = 1 .. Len(chain)
    BY <1>2, <2>0, Zenon DEF LevelFine
  <2>2. level.last = Last(chain)
    BY <2>1 DEF Describes, LastOf, Last
  <2>3. Placed(side, b.levels[side], b.slots) /\ Sorted(side, b.levels[side]) /\ b.levels[side] \in Seq(LevelSlot)
    BY <1>1 DEF LevelsFit
  <2>4. \A j \in DOMAIN b.levels[side] : b.levels[side][j].price = level.price => j = i
    BY <1>2, <2>3, PricesDiffer
  <2>5. ASSUME NEW k \in DOMAIN chain, NEW slot, slot = b.slots[chain[k]]
        PROVE  /\ slot.active /\ slot.side = side
               /\ slot.price = level.price
               /\ slot.levelIndex = i
               /\ slot.prev = IF k = 1 THEN Nil ELSE chain[k - 1]
    <3>1. chain[k] \in Slot
      BY <2>1, LenProperties
    <3>2. slot.active /\ slot.side = side /\ slot.price = level.price /\ slot.prev = Precedes(chain, k)
      BY <2>1, <2>5 DEF Strung
    <3>3. slot.levelIndex = i
      BY <2>3, <2>4, <2>5, <3>1, <3>2 DEF Placed
    <3> QED BY <3>2, <3>3 DEF Precedes
  <2> QED BY <2>1, <2>2, <2>5 DEF WalkFits
<1>3. ASSUME NEW s \in ActiveIn(b.slots)
      PROVE  /\ b.slots[s].levelIndex \in DOMAIN b.levels[b.slots[s].side]
             /\ s \in ToSet(Chain(b.slots, b.levels[b.slots[s].side][b.slots[s].levelIndex].first))
  <2> DEFINE side == b.slots[s].side
             position == b.slots[s].levelIndex
             price == b.slots[s].price
  <2>1. s \in Slot /\ b.slots[s].active
    BY DEF ActiveIn
  <2>2. PICK n : At(b, q, s, side, price, position, n)
    BY <1>0, <2>1, LiveIsAt
  <2> HIDE DEF side, position, price
  <2>3. /\ side \in Sides /\ position \in DOMAIN b.levels[side] /\ b.levels[side][position].price = price
        /\ n \in DOMAIN q[side][price] /\ q[side][price][n] = s
    BY <2>2, Zenon DEF At
  <2>4. Chain(b.slots, b.levels[side][position].first) = q[side][price]
    <3>1. LevelFine(b, q, side, position)
      BY <2>3, LevelIsFine
    <3> QED BY <2>3, <3>1 DEF LevelFine
  <2>5. s \in ToSet(Chain(b.slots, b.levels[side][position].first))
    BY <2>3, <2>4 DEF ToSet
  <2> QED BY <2>3, <2>5 DEF side, position
<1>4. ASSUME NEW side \in Sides, NEW i \in DOMAIN b.levels[side],
             NEW chain, chain = Chain(b.slots, b.levels[side][i].first)
      PROVE  /\ b.levels[side][i].orders = Len(chain)
             /\ b.levels[side][i].orders > 0
             /\ b.levels[side][i].totalQty = SumFunction([k \in DOMAIN chain |-> b.slots[chain[k]].quantity])
  <2>1. /\ Describes(b.levels[side][i], b.slots, chain) /\ Len(chain) \in Nat \ {0}
        /\ b.levels[side][i].totalQty = SumFunction([k \in DOMAIN chain |-> b.slots[chain[k]].quantity])
    <3>1. LevelFine(b, q, side, i)
      BY LevelIsFine
    <3> QED BY <1>4, <3>1, Zenon DEF LevelFine
  <2>2. b.levels[side][i].orders = Len(chain)
    BY <2>1 DEF Describes
  <2>3. b.levels[side][i].orders > 0
    BY <2>1, <2>2
  <2> QED BY <2>1, <2>2, <2>3
<1>5. ASSUME NEW side \in Sides
      PROVE  \A i, j \in DOMAIN b.levels[side] :
               i < j => Better(side, b.levels[side][i].price, b.levels[side][j].price)
  BY <1>1 DEF LevelsFit, Sorted
<1>6. \A side \in Sides : \A i \in DOMAIN b.levels[side] :
        LET chain == Chain(b.slots, b.levels[side][i].first)
            level == b.levels[side][i]
        IN  /\ chain # <<>>
            /\ level.last = Last(chain)
            /\ \A k \in DOMAIN chain :
                 LET slot == b.slots[chain[k]]
                 IN  /\ slot.active /\ slot.side = side
                     /\ slot.price = level.price
                     /\ slot.levelIndex = i
                     /\ slot.prev = IF k = 1 THEN Nil ELSE chain[k - 1]
  <2> TAKE side \in Sides
  <2> TAKE i \in DOMAIN b.levels[side]
  <2> DEFINE chain == Chain(b.slots, b.levels[side][i].first)
             level == b.levels[side][i]
  <2>1. chain = Chain(b.slots, b.levels[side][i].first) /\ level = b.levels[side][i]
    OBVIOUS
  <2> HIDE DEF chain, level
  <2>2. WalkFits(b.slots, chain, level, side, i)
    BY <1>2, <2>1
  <2> QED BY <2>2 DEF chain, level, WalkFits
<1>7. \A side \in Sides : \A i \in DOMAIN b.levels[side] :
        LET chain == Chain(b.slots, b.levels[side][i].first)
        IN  /\ b.levels[side][i].orders = Len(chain)
            /\ b.levels[side][i].orders > 0
            /\ b.levels[side][i].totalQty =
                 SumFunction([k \in DOMAIN chain |-> b.slots[chain[k]].quantity])
  BY <1>4, Zenon
<1> QED BY <1>3, <1>5, <1>6, <1>7, Zenon DEF LevelsFine

(* BestPricesCurrent, said of any book. *)
BestFine(b) ==
  \A side \in Sides :
    LET prices == {b.slots[s].price : s \in {t \in ActiveIn(b.slots) : b.slots[t].side = side}}
        best == IF side = "Buy" THEN b.bestBid ELSE b.bestAsk
    IN  IF prices = {} THEN best = InvalidPrice
        ELSE best \in prices /\ \A p \in prices \ {best} : Better(side, best, p)

(* In a storage that stands for lists the cached best prices are those of  *)
(* the live orders.                                                        *)
LEMMA BestIsFine ==
  ASSUME NEW b, NEW q, Represents(b, q)
  PROVE  BestFine(b)
<1>0. Assembled(b, q)
  BY DEF Represents
<1> SUFFICES ASSUME NEW side \in Sides
             PROVE  LET prices == {b.slots[s].price : s \in {t \in ActiveIn(b.slots) : b.slots[t].side = side}}
                        best == IF side = "Buy" THEN b.bestBid ELSE b.bestAsk
                    IN  IF prices = {} THEN best = InvalidPrice
                        ELSE best \in prices /\ \A p \in prices \ {best} : Better(side, best, p)
  BY DEF BestFine
<1> DEFINE prices == {b.slots[s].price : s \in {t \in ActiveIn(b.slots) : b.slots[t].side = side}}
           best == IF side = "Buy" THEN b.bestBid ELSE b.bestAsk
           levels == b.levels[side]
<1>1. /\ levels \in Seq(LevelSlot) /\ Sorted(side, levels) /\ Placed(side, levels, b.slots)
  BY <1>0, AssembledParts DEF LevelsFit
<1>2. best = TopPrice(levels)
  BY DEF Represents, Sides
<1>3. ASSUME NEW i \in DOMAIN levels
      PROVE  levels[i].price \in prices
  <2> DEFINE chain == Chain(b.slots, levels[i].first)
             price == levels[i].price
  <2>1. chain \in Seq(Slot) /\ DOMAIN chain = 1 .. Len(chain) /\ Len(chain) \in Nat \ {0}
        /\ Strung(b.slots, chain, side, price)
    <3>1. LevelFine(b, q, side, i)
      BY LevelIsFine
    <3> QED BY <3>1, Zenon DEF LevelFine
  <2> HIDE DEF chain, price
  <2>2. chain[1] \in Slot /\ 1 \in DOMAIN chain
    BY <2>1, LenProperties
  <2>3. b.slots[chain[1]].active /\ b.slots[chain[1]].side = side /\ b.slots[chain[1]].price = price
    BY <2>1, <2>2 DEF Strung
  <2>4. price \in prices
    BY <2>2, <2>3 DEF ActiveIn
  <2> QED BY <2>4 DEF price
<1>4. ASSUME NEW p \in prices
      PROVE  \E i \in DOMAIN levels : levels[i].price = p
  <2>1. PICK s \in Slot : b.slots[s].active /\ b.slots[s].side = side /\ b.slots[s].price = p
    BY DEF ActiveIn
  <2> QED BY <1>1, <2>1 DEF Placed
<1> HIDE DEF prices, best, levels
<1>5. Len(levels) \in Nat /\ DOMAIN levels = 1 .. Len(levels) /\ (levels = <<>> <=> DOMAIN levels = {})
  BY <1>1, LevelSlots, EmptyList
<1>6. CASE levels = <<>>
  <2>1. prices = {} /\ best = InvalidPrice
    BY <1>2, <1>4, <1>5, <1>6 DEF TopPrice
  <2> QED BY <2>1 DEF prices, best
<1>7. CASE levels # <<>>
  <2>1. 1 \in DOMAIN levels /\ best = levels[1].price
    BY <1>2, <1>5, <1>7 DEF TopPrice
  <2>2. best \in prices
    BY <1>3, <2>1
  <2>3. ASSUME NEW p \in prices \ {best}
        PROVE  Better(side, best, p)
    <3>1. PICK i \in DOMAIN levels : levels[i].price = p
      BY <1>4
    <3>2. 1 < i
      BY <1>5, <2>1, <3>1
    <3> QED BY <1>1, <2>1, <3>1, <3>2 DEF Sorted
  <2>4. prices # {} /\ best \in prices /\ \A p \in prices \ {best} : Better(side, best, p)
    BY <2>2, <2>3
  <2> QED BY <2>4 DEF prices, best
<1> QED BY <1>6, <1>7

-----------------------------------------------------------------------------
(* The specification *)

(* The inductive invariant: the storage stands for some lists of slots. *)
BookInvariant == (\E q : Represents(book, q)) /\ returned \in BOOLEAN

(* The queues as the storage has them. *)
LEMMA QueuesAre ==
  /\ Queues = QueuesOf(book)
  /\ Queues' = QueuesOf(book')
<1>1. Queues = QueuesOf(book)
  BY DEF Queues, QueuesOf, QueueOf, LevelChain, Resting
<1>2. Queues' = QueuesOf(book')
  BY DEF Queues, QueuesOf, QueueOf, LevelChain, Resting
<1> QED BY <1>1, <1>2

(* Both books take the outcome of their operation. *)
Step(A) ==
  /\ \E p : Represents(book', p)
  /\ returned' \in BOOLEAN
  /\ \E abs : /\ PriceTime!Becomes(abs)
              /\ \/ \E o \in NewOrders : abs = PriceTime!Add(A, o[1], o[2], o[3], o[4])
                 \/ \E change \in Changes : abs = PriceTime!Modify(A, change[1], change[2])
                 \/ \E id \in OrderIds : abs = PriceTime!Delete(A, id)
                 \/ \E snapshot \in Snapshots : abs = PriceTime!Snapshot(snapshot.bids, snapshot.asks)
                 \/ abs = PriceTime!Outcome(PriceTime!NoOrders, TRUE, <<>>)

(* A step to a promised outcome is a step of both books. *)
LEMMA BecomesSame ==
  ASSUME NEW out, NEW abs, Promised(out, abs), Becomes(out)
  PROVE  (\E p : Represents(book', p)) /\ returned' \in BOOLEAN /\ PriceTime!Becomes(abs)
<1>1. PICK p : Keeps(out, abs, p)
  BY DEF Promised
<1>2. /\ Represents(out.book, p) /\ abs.queues = Shown(out.book.slots, p)
      /\ out.returned = abs.returned /\ out.events = abs.events
      /\ out.returned \in BOOLEAN
  BY <1>1 DEF Keeps
<1>3. book' = out.book /\ returned' = out.returned /\ events' = out.events
  BY DEF Becomes
<1>4. Represents(book', p)
  BY <1>2, <1>3
<1>5. Queues' = Shown(book'.slots, p)
  BY <1>4, QueuesAre, QueuesAreShown
<1>6. Queues' = abs.queues /\ returned' = abs.returned /\ events' = abs.events
  BY <1>2, <1>3, <1>5
<1> QED BY <1>2, <1>3, <1>4, <1>6 DEF PriceTime!Becomes

(* Every step of the storage is a step of the queues. *)
LEMMA StepsMatch ==
  ASSUME NEW q, Represents(book, q), Next
  PROVE  Step(Shown(book.slots, q))
<1> DEFINE A == Shown(book.slots, q)
<1>1. CASE AddOrder
  <2>1. PICK o \in NewOrders : Becomes(Add(book, o[1], o[2], o[3], o[4]))
    BY <1>1 DEF AddOrder
  <2>2. o[1] \in OrderIds /\ o[2] \in Sides /\ o[3] \in PriceArguments /\ o[4] \in Int
    BY BookAssumption
  <2>3. Promised(Add(book, o[1], o[2], o[3], o[4]), PriceTime!Add(A, o[1], o[2], o[3], o[4]))
    BY <2>2, AddSame
  <2> HIDE DEF A
  <2> DEFINE abs == PriceTime!Add(A, o[1], o[2], o[3], o[4])
  <2>4. (\E p : Represents(book', p)) /\ returned' \in BOOLEAN /\ PriceTime!Becomes(abs)
    BY <2>1, <2>3, BecomesSame
  <2>5. abs = PriceTime!Add(A, o[1], o[2], o[3], o[4])
    OBVIOUS
  <2> HIDE DEF abs
  <2>6. Step(A)
    BY <2>4, <2>5 DEF Step
  <2> QED BY <2>6 DEF A
<1>2. CASE ModifyOrder
  <2>1. PICK change \in Changes : Becomes(Modify(book, change[1], change[2]))
    BY <1>2 DEF ModifyOrder
  <2>2. change[1] \in OrderIds /\ change[2] \in Int
    BY BookAssumption
  <2>3. Promised(Modify(book, change[1], change[2]), PriceTime!Modify(A, change[1], change[2]))
    BY <2>2, ModifySame
  <2> HIDE DEF A
  <2> DEFINE abs == PriceTime!Modify(A, change[1], change[2])
  <2>4. (\E p : Represents(book', p)) /\ returned' \in BOOLEAN /\ PriceTime!Becomes(abs)
    BY <2>1, <2>3, BecomesSame
  <2>5. abs = PriceTime!Modify(A, change[1], change[2])
    OBVIOUS
  <2> HIDE DEF abs
  <2>6. Step(A)
    BY <2>4, <2>5 DEF Step
  <2> QED BY <2>6 DEF A
<1>3. CASE DeleteOrder
  <2>1. PICK id \in OrderIds : Becomes(Delete(book, id))
    BY <1>3 DEF DeleteOrder
  <2>2. Promised(Delete(book, id), PriceTime!Delete(A, id))
    BY DeleteSame
  <2> HIDE DEF A
  <2> DEFINE abs == PriceTime!Delete(A, id)
  <2>4. (\E p : Represents(book', p)) /\ returned' \in BOOLEAN /\ PriceTime!Becomes(abs)
    BY <2>1, <2>2, BecomesSame
  <2>5. abs = PriceTime!Delete(A, id)
    OBVIOUS
  <2> HIDE DEF abs
  <2>6. Step(A)
    BY <2>4, <2>5 DEF Step
  <2> QED BY <2>6 DEF A
<1>4. CASE ApplySnapshot
  <2>1. PICK snapshot \in Snapshots : Becomes(Snapshot(snapshot.bids, snapshot.asks))
    BY <1>4 DEF ApplySnapshot
  <2>2. Promised(Snapshot(snapshot.bids, snapshot.asks), PriceTime!Snapshot(snapshot.bids, snapshot.asks))
    BY SnapshotSame
  <2> HIDE DEF A
  <2> DEFINE abs == PriceTime!Snapshot(snapshot.bids, snapshot.asks)
  <2>4. (\E p : Represents(book', p)) /\ returned' \in BOOLEAN /\ PriceTime!Becomes(abs)
    BY <2>1, <2>2, BecomesSame
  <2>5. abs = PriceTime!Snapshot(snapshot.bids, snapshot.asks)
    OBVIOUS
  <2> HIDE DEF abs
  <2>6. Step(A)
    BY <2>4, <2>5 DEF Step
  <2> QED BY <2>6 DEF A
<1>5. CASE Clear
  <2>1. Becomes(Outcome(EmptyBook, TRUE, <<>>))
    BY <1>5 DEF Clear
  <2> HIDE DEF A
  <2> DEFINE abs == PriceTime!Outcome(PriceTime!NoOrders, TRUE, <<>>)
  <2>4. (\E p : Represents(book', p)) /\ returned' \in BOOLEAN /\ PriceTime!Becomes(abs)
    BY <2>1, EmptySame, BecomesSame
  <2>5. abs = PriceTime!Outcome(PriceTime!NoOrders, TRUE, <<>>)
    OBVIOUS
  <2> HIDE DEF abs
  <2>6. Step(A)
    BY <2>4, <2>5 DEF Step
  <2> QED BY <2>6 DEF A
<1> QED BY <1>1, <1>2, <1>3, <1>4, <1>5 DEF Next

(* After any sequence of addOrder, modifyOrder, deleteOrder, applySnapshot *)
(* and clear the storage stands for lists of its live orders: links,       *)
(* levels, positions, totals, free stack, index, count and best prices all *)
(* describe the same lists.                                                *)
THEOREM BookInvariantHolds == Spec => []BookInvariant
<1>1. Init => BookInvariant
  <2>1. Represents(EmptyBook, NoLists)
    BY EmptyRepresents
  <2> QED BY <2>1 DEF Init, BookInvariant
<1>2. BookInvariant /\ [Next]_vars => BookInvariant'
  <2> SUFFICES ASSUME BookInvariant, [Next]_vars
               PROVE  BookInvariant'
    OBVIOUS
  <2>1. PICK q : Represents(book, q)
    BY DEF BookInvariant
  <2>2. CASE Next
    <3>1. Step(Shown(book.slots, q))
      BY <2>1, <2>2, StepsMatch
    <3> QED BY <3>1 DEF Step, BookInvariant
  <2>3. CASE UNCHANGED vars
    BY <2>3 DEF BookInvariant, vars
  <2> QED BY <2>2, <2>3
<1> QED BY <1>1, <1>2, PTL DEF Spec

(* PoolConsistent always holds: allocateOrderSlot and releaseOrderSlot     *)
(* never lose a slot or hand out one that is in use, the free stack holds  *)
(* exactly the wiped slots, the count is right, and the index finds        *)
(* exactly the live orders, each at its slot.                              *)
THEOREM PoolStaysConsistent == Spec => []PoolConsistent
<1>1. BookInvariant => PoolConsistent
  <2> SUFFICES ASSUME BookInvariant  PROVE PoolConsistent
    OBVIOUS
  <2>1. PoolFine(book)
    BY PoolIsFine DEF BookInvariant
  <2>2. Active = ActiveIn(book.slots)
    BY DEF Active, ActiveIn
  <2>3. TypeOK
    BY <2>1 DEF PoolFine, TypeOK, BookInvariant
  <2>4. SlotsAccountedFor
    BY <2>1, <2>2 DEF PoolFine, SlotsAccountedFor
  <2>5. IndexFindsTheLive
    BY <2>1, <2>2 DEF PoolFine, IndexFindsTheLive
  <2> QED BY <2>3, <2>4, <2>5 DEF PoolConsistent
<1> QED BY <1>1, BookInvariantHolds, PTL

(* LevelsConsistent always holds: each level's links spell a nonempty list *)
(* of live orders of its price that know the level's current position, its *)
(* sums are theirs, the levels are sorted, and every live order is in its  *)
(* level's list, wherever levels were opened and closed before it.         *)
THEOREM LevelsStayConsistent == Spec => []LevelsConsistent
<1>1. BookInvariant => LevelsConsistent
  <2> SUFFICES ASSUME BookInvariant  PROVE LevelsConsistent
    OBVIOUS
  <2>1. LevelsFine(book)
    BY LevelsAreFine DEF BookInvariant
  <2>2. Active = ActiveIn(book.slots)
    BY DEF Active, ActiveIn
  <2>3. ListsWellFormed
    BY <2>1, <2>2, Zenon DEF LevelsFine, ListsWellFormed, LevelChain
  <2>4. LevelsAggregateTheirOrders
    BY <2>1, <2>2, Zenon DEF LevelsFine, LevelsAggregateTheirOrders, LevelChain
  <2> QED BY <2>3, <2>4 DEF LevelsConsistent
<1> QED BY <1>1, BookInvariantHolds, PTL

(* BestPricesCurrent always holds: although updateBBO is called for one    *)
(* side only, and not at all by modifyOrder, the cached best bid and ask   *)
(* are those of the live orders.                                           *)
THEOREM BestPricesStayCurrent == Spec => []BestPricesCurrent
<1>1. BookInvariant => BestPricesCurrent
  <2> SUFFICES ASSUME BookInvariant  PROVE BestPricesCurrent
    OBVIOUS
  <2>1. BestFine(book)
    BY BestIsFine DEF BookInvariant
  <2>2. Active = ActiveIn(book.slots)
    BY DEF Active, ActiveIn
  <2> QED BY <2>1, <2>2 DEF BestFine, BestPricesCurrent
<1> QED BY <1>1, BookInvariantHolds, PTL

(* The storage implements the price-time queues: every operation, a        *)
(* snapshot included, takes the queues to what PriceTimeBook promises,     *)
(* with the same result and the same updates.                              *)
THEOREM BookImplementsPriceTimeBook == Spec => ImplementsPriceTimeBook
<1>1. Init => PriceTime!Init
  <2> SUFFICES ASSUME Init  PROVE PriceTime!Init
    OBVIOUS
  <2>1. Queues = Shown(EmptyBook.slots, NoLists)
    BY QueuesAre, QueuesAreShown, EmptyRepresents DEF Init
  <2>2. Queues = PriceTime!NoOrders
    BY <2>1, SameNames
  <2> QED BY <2>2 DEF Init, PriceTime!Init
<1>2. BookInvariant /\ [Next]_vars => [PriceTime!Next]_PriceTime!vars
  <2> SUFFICES ASSUME BookInvariant, [Next]_vars
               PROVE  [PriceTime!Next]_PriceTime!vars
    OBVIOUS
  <2>1. PICK q : Represents(book, q)
    BY DEF BookInvariant
  <2>2. CASE Next
    <3>1. Queues = Shown(book.slots, q)
      BY <2>1, QueuesAre, QueuesAreShown
    <3>2. Step(Queues)
      BY <2>1, <2>2, <3>1, StepsMatch
    <3>3. PriceTime!Next
      BY <3>2 DEF Step, PriceTime!Next
    <3> QED BY <3>3
  <2>3. CASE UNCHANGED vars
    <3>1. book' = book /\ returned' = returned /\ events' = events
      BY <2>3 DEF vars
    <3>2. Queues' = Queues
      BY <3>1, QueuesAre
    <3> QED BY <3>1, <3>2 DEF PriceTime!vars
  <2> QED BY <2>2, <2>3
<1> QED BY <1>1, <1>2, BookInvariantHolds, PTL DEF Spec, ImplementsPriceTimeBook, PriceTime!Spec
=============================================================================
