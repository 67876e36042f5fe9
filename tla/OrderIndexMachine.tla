-------------------------- MODULE OrderIndexMachine --------------------------
(***************************************************************************)
(* The order-id table driven the way OrderBook drives it: an id is         *)
(* inserted only after a failed Find, erased only while live, and there is *)
(* a slot of the pool for each (MaxOrders of them).  The hash function is  *)
(* chosen arbitrarily at the start.                                        *)
(***************************************************************************)
EXTENDS Naturals, FiniteSets

CONSTANTS OrderIds, OrderSlots, IndexCapacity, NoSlot

ASSUME IndexAssumption ==
  /\ IsFiniteSet(OrderSlots)
  /\ IndexCapacity \in Nat \ {0} /\ IndexCapacity >= 2 * Cardinality(OrderSlots)
  /\ NoSlot \notin OrderIds \cup OrderSlots

VARIABLES
  home,   (* The hash function. *)
  table,  (* m_orderIndex *)
  slotOf  (* What the table should hold: the slot of each live id. *)

indexVars == <<home, table, slotOf>>

Index == INSTANCE OrderIndex WITH Home <- home, Nil <- NoSlot

IndexInit ==
  /\ home \in [OrderIds -> 0 .. IndexCapacity - 1]
  /\ table = [i \in 0 .. IndexCapacity - 1 |-> Index!EmptyEntry]
  /\ slotOf = [id \in OrderIds |-> NoSlot]

InUse == {slotOf[id] : id \in OrderIds} \ {NoSlot}

Insert(id) ==
  /\ Index!Find(table, id) = NoSlot
  /\ \E slot \in OrderSlots \ InUse :
       /\ table' = Index!Insert(table, id, slot)
       /\ slotOf' = [slotOf EXCEPT ![id] = slot]
  /\ UNCHANGED home

Erase(id) ==
  /\ slotOf[id] # NoSlot
  /\ table' = Index!Erase(table, id)
  /\ slotOf' = [slotOf EXCEPT ![id] = NoSlot]
  /\ UNCHANGED home

IndexNext == \E id \in OrderIds : Insert(id) \/ Erase(id)

IndexSpec == IndexInit /\ [][IndexNext]_indexVars

-----------------------------------------------------------------------------
(* Properties *)

(* Whatever the collisions and whatever was erased before, a search finds  *)
(* exactly the live orders, at their slots (findOrderSlot after            *)
(* insertOrderIndex, eraseOrderIndex and reinsertClusterAfterErase).       *)
FindsExactlyTheLive == \A id \in OrderIds : Index!Find(table, id) = slotOf[id]

(* Erasing leaves no second or stale entry behind, so the table never      *)
(* fills: an empty bucket always ends the probe and the reinsertion loop.  *)
NoStaleEntries ==
  Cardinality({i \in Index!Bucket : Index!Occupied(table, i)}) = Cardinality(InUse)

(* Both, after any sequence of insertions and erasures. *)
IndexConsistent == FindsExactlyTheLive /\ NoStaleEntries
=============================================================================
