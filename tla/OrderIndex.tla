------------------------------ MODULE OrderIndex ------------------------------
(***************************************************************************)
(* The order-id hash table inside include/orderbook/OrderBook.hpp: open    *)
(* addressing with linear probing, an erase that closes the hole it makes  *)
(* by reinserting the rest of the cluster.  A bucket is empty or occupied; *)
(* the code's third state, INDEX_DELETED, is never stored.                 *)
(*                                                                         *)
(* Home is indexBucket, the hash reduced to a bucket: nothing is assumed   *)
(* about it, so every collision pattern is allowed.                        *)
(***************************************************************************)
EXTENDS Naturals

CONSTANTS
  IndexCapacity,  (* ORDER_INDEX_CAPACITY: a power of two, at least 2 * MaxOrders. *)
  OrderIds,
  Home,           (* [OrderIds -> Bucket] *)
  Nil             (* INVALID_INDEX, and the id of an empty bucket. *)

Bucket == 0 .. IndexCapacity - 1

EmptyEntry == [orderId |-> Nil, slot |-> Nil]
EmptyTable == [i \in Bucket |-> EmptyEntry]

Occupied(table, i) == table[i] # EmptyEntry

(* The bucket the k-th probe for id looks at. *)
Probe(id, k) == (Home[id] + k) % IndexCapacity

(* The probe at which a search for id ends: its own entry or the first     *)
(* empty bucket, whichever comes first; none if the table is full of       *)
(* others.                                                                 *)
EndOfSearch(table, id) ==
  {k \in Bucket :
    /\ table[Probe(id, k)].orderId \in {id, Nil}
    /\ \A j \in 0 .. k - 1 : table[Probe(id, j)].orderId \notin {id, Nil}}

Find(table, id) ==
  LET ends == EndOfSearch(table, id)
  IN  IF ends = {} THEN Nil ELSE table[Probe(id, CHOOSE k \in ends : TRUE)].slot

CanInsert(table, id) ==
  \E k \in EndOfSearch(table, id) : ~Occupied(table, Probe(id, k))

(* insertOrderIndex: the table after it; unchanged when it returns false. *)
Insert(table, id, slot) ==
  IF CanInsert(table, id)
  THEN [table EXCEPT ![Probe(id, CHOOSE k \in EndOfSearch(table, id) : TRUE)] =
          [orderId |-> id, slot |-> slot]]
  ELSE table

(* reinsertClusterAfterErase: take out and insert again each entry that    *)
(* follows the erased bucket, up to the first empty one.  after[k] is the  *)
(* table after k turns, and whether the loop has ended.                    *)
Reinsert(table, i) ==
  Insert([table EXCEPT ![i] = EmptyEntry], table[i].orderId, table[i].slot)

Turn(loop, i) ==
  IF loop.done \/ ~Occupied(loop.table, i)
  THEN [loop EXCEPT !.done = TRUE]
  ELSE [loop EXCEPT !.table = Reinsert(@, i)]

ReinsertCluster(table, erased) ==
  LET after[k \in 0 .. IndexCapacity] ==
        IF k = 0 THEN [table |-> table, done |-> FALSE]
                 ELSE Turn(after[k - 1], (erased + k) % IndexCapacity)
  IN  after[IndexCapacity].table

(* Mutant: the hole is left open. *)
EraseLeavesHole(table, id) ==
  IF Find(table, id) = Nil THEN table
  ELSE [table EXCEPT ![Probe(id, CHOOSE k \in EndOfSearch(table, id) : TRUE)] = EmptyEntry]

(* eraseOrderIndex *)
Erase(table, id) ==
  IF Find(table, id) = Nil THEN table
  ELSE LET i == Probe(id, CHOOSE k \in EndOfSearch(table, id) : TRUE)
       IN  ReinsertCluster([table EXCEPT ![i] = EmptyEntry], i)
=============================================================================
