---------------------------- MODULE PriceTimeBook ----------------------------
(***************************************************************************)
(* What include/orderbook/OrderBook.hpp promises its callers: for each     *)
(* side and price a FIFO queue of orders, with no more than MaxOrders      *)
(* orders in all and MaxLevels prices per side.  Slots, links, sorted      *)
(* arrays and the hash index are absent.                                   *)
(***************************************************************************)
EXTENDS Integers, Sequences, FiniteSets, SequencesExt, FiniteSetsExt, Functions

CONSTANTS
  Prices, MaxLevels, MaxOrders, InvalidId, InvalidPrice,
  OrderIds,   (* Arguments of deleteOrder. *)
  NewOrders,  (* Arguments of addOrder: <<id, side, price, quantity>>. *)
  Changes,    (* Arguments of modifyOrder: <<id, quantity>>. *)
  Snapshots   (* Arguments of applySnapshot. *)

VARIABLES
  queues,    (* [Sides -> [Prices -> Seq([orderId, quantity])]], oldest first. *)
  returned,  (* What the last operation returned. *)
  events     (* The updates the last operation emitted, in order. *)

vars == <<queues, returned, events>>

Sides == {"Buy", "Sell"}
NoOrders == [s \in Sides |-> [p \in Prices |-> <<>>]]

Total(queue) == SumFunction([i \in DOMAIN queue |-> queue[i].quantity])

Levels(q, side) == {p \in Prices : q[side][p] # <<>>}

(* Where orders rest, each a side, a price and a position in the queue. *)
Occupied(q) ==
  {at \in Sides \X Prices \X (1 .. MaxOrders) : at[3] \in DOMAIN q[at[1]][at[2]]}

OrderCount(q) == Cardinality(Occupied(q))

Best(q, side) ==
  IF Levels(q, side) = {} THEN InvalidPrice
  ELSE IF side = "Buy" THEN Max(Levels(q, side)) ELSE Min(Levels(q, side))

(* Where id rests. *)
Places(q, id) == {at \in Occupied(q) : q[at[1]][at[2]][at[3]].orderId = id}

Update(action, side, price, quantity, total, id) ==
  [action |-> action, side |-> side, price |-> price, quantity |-> quantity,
   totalQtyAtLevel |-> total, orderId |-> id]

Outcome(q, ok, emitted) == [queues |-> q, returned |-> ok, events |-> emitted]
Rejected(q) == Outcome(q, FALSE, <<>>)

Add(q, id, side, price, quantity) ==
  IF \/ id = InvalidId \/ price = InvalidPrice \/ quantity <= 0
     \/ Places(q, id) # {}
     \/ OrderCount(q) = MaxOrders
     \/ price \notin Levels(q, side) /\ Cardinality(Levels(q, side)) = MaxLevels
  THEN Rejected(q)
  ELSE LET queue == Append(q[side][price], [orderId |-> id, quantity |-> quantity])
       IN  Outcome([q EXCEPT ![side][price] = queue], TRUE,
                   <<Update("Add", side, price, quantity, Total(queue), id)>>)

Delete(q, id) ==
  IF Places(q, id) = {} THEN Rejected(q)
  ELSE LET at == CHOOSE place \in Places(q, id) : TRUE
           queue == RemoveAt(q[at[1]][at[2]], at[3])
       IN  Outcome([q EXCEPT ![at[1]][at[2]] = queue], TRUE,
                   <<Update("Delete", at[1], at[2], 0, Total(queue), id)>>)

(* A changed quantity keeps its place in the queue, even when it grows. *)
Modify(q, id, quantity) ==
  IF quantity <= 0 THEN Delete(q, id)
  ELSE IF Places(q, id) = {} THEN Rejected(q)
  ELSE LET at == CHOOSE place \in Places(q, id) : TRUE
           queue == [q[at[1]][at[2]] EXCEPT ![at[3]].quantity = quantity]
       IN  Outcome([q EXCEPT ![at[1]][at[2]] = queue], TRUE,
                   <<Update("Modify", at[1], at[2], quantity, Total(queue), id)>>)

(* A snapshot's orders are numbered from 1, bids before asks.  after[n] is *)
(* the outcome of the first n of them.                                     *)
Entries(bids, asks) ==
  [i \in DOMAIN bids |-> <<"Buy", bids[i][1], bids[i][2]>>]
    \o [i \in DOMAIN asks |-> <<"Sell", asks[i][1], asks[i][2]>>]

AddEntry(before, n, entry) ==
  LET added == Add(before.queues, n, entry[1], entry[2], entry[3])
  IN  Outcome(added.queues, TRUE, before.events \o added.events)

Snapshot(bids, asks) ==
  LET entries == Entries(bids, asks)
      after[n \in 0 .. Len(entries)] ==
        IF n = 0 THEN Outcome(NoOrders, TRUE, <<>>) ELSE AddEntry(after[n - 1], n, entries[n])
      placed == after[Len(entries)]
  IN  [placed EXCEPT !.events = Append(@, Update("Snapshot", "Buy", Best(placed.queues, "Buy"), 0, 0, InvalidId))]

Becomes(outcome) ==
  /\ returned' = outcome.returned
  /\ events' = outcome.events
  /\ queues' = outcome.queues

Init ==
  /\ queues = NoOrders
  /\ returned = TRUE
  /\ events = <<>>

Next ==
  \/ \E o \in NewOrders : Becomes(Add(queues, o[1], o[2], o[3], o[4]))
  \/ \E change \in Changes : Becomes(Modify(queues, change[1], change[2]))
  \/ \E id \in OrderIds : Becomes(Delete(queues, id))
  \/ \E snapshot \in Snapshots : Becomes(Snapshot(snapshot.bids, snapshot.asks))
  \/ Becomes(Outcome(NoOrders, TRUE, <<>>))

Spec == Init /\ [][Next]_vars
=============================================================================
