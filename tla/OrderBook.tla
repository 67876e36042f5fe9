------------------------------- MODULE OrderBook -------------------------------
(***************************************************************************)
(* include/orderbook/OrderBook.hpp: a limit order book in preallocated     *)
(* storage.  Orders live in a pool of slots handed out from a free stack;  *)
(* the orders of one price are a doubly linked FIFO list through their     *)
(* slots; each side keeps an array of levels sorted best price first, and  *)
(* every slot remembers the position of its level in that array; a hash    *)
(* table (OrderIndex) finds the slot of an order id.                       *)
(*                                                                         *)
(* The book is used by one thread, so an operation is one step.  The       *)
(* operations are functions from a book to its outcome because a snapshot  *)
(* composes them.  Array positions are counted from 1 here; slot numbers   *)
(* are the code's.  Timestamps are left out.                               *)
(***************************************************************************)
EXTENDS Integers, Sequences, FiniteSets, SequencesExt, Functions

CONSTANTS
  MaxLevels,      (* Price levels per side. *)
  MaxOrders,      (* Order slots. *)
  IndexCapacity,  (* Buckets of the order index. *)
  Home,           (* indexBucket *)
  OrderIds, Prices,
  NewOrders,      (* Arguments of addOrder: <<id, side, price, quantity>>. *)
  Changes,        (* Arguments of modifyOrder: <<id, quantity>>. *)
  Snapshots,      (* Arguments of applySnapshot: [bids, asks], sequences of <<price, quantity>>. *)
  InvalidId,      (* INVALID_ORDER_ID *)
  InvalidPrice,   (* INVALID_PRICE *)
  Nil             (* INVALID_INDEX *)

Sides == {"Buy", "Sell"}
Slot == 0 .. MaxOrders - 1
PriceArguments == Prices \cup {InvalidPrice}

(* A snapshot numbers its orders from 1; every such number is an id.       *)
ASSUME BookAssumption ==
  /\ MaxLevels \in Nat \ {0}
  /\ MaxOrders \in Nat \ {0}
  /\ IndexCapacity \in Nat /\ IndexCapacity >= 2 * MaxOrders
  /\ Home \in [OrderIds -> 0 .. IndexCapacity - 1]
  /\ InvalidId \in OrderIds
  /\ Prices \subseteq Int /\ InvalidPrice \notin Prices
  /\ Nil \notin OrderIds \cup Slot
  /\ NewOrders \subseteq OrderIds \X Sides \X PriceArguments \X Int
  /\ Changes \subseteq OrderIds \X Int
  /\ \A snapshot \in Snapshots :
       /\ snapshot.bids \in Seq(PriceArguments \X Int)
       /\ snapshot.asks \in Seq(PriceArguments \X Int)
       /\ 1 .. Len(snapshot.bids) + Len(snapshot.asks) \subseteq OrderIds

VARIABLES
  book,      (* The storage. *)
  returned,  (* What the last operation returned. *)
  events     (* The updates the last operation passed to the callback. *)

vars == <<book, returned, events>>

Index == INSTANCE OrderIndex

EmptySlot ==
  [orderId |-> InvalidId, side |-> "Buy", price |-> InvalidPrice, quantity |-> 0,
   next |-> Nil, prev |-> Nil, levelIndex |-> Nil, active |-> FALSE]

EmptyLevel(price) == [price |-> price, totalQty |-> 0, orders |-> 0, first |-> Nil, last |-> Nil]

(* resetStorage: the free stack hands out slot 0 first. *)
EmptyBook ==
  [levels     |-> [side \in Sides |-> <<>>],
   slots      |-> [s \in Slot |-> EmptySlot],
   free       |-> [i \in 1 .. MaxOrders |-> MaxOrders - i],
   index      |-> Index!EmptyTable,
   orderCount |-> 0,
   bestBid    |-> InvalidPrice,
   bestAsk    |-> InvalidPrice]

Update(action, side, price, quantity, total, id) ==
  [action |-> action, side |-> side, price |-> price, quantity |-> quantity,
   totalQtyAtLevel |-> total, orderId |-> id]

Outcome(b, ok, emitted) == [book |-> b, returned |-> ok, events |-> emitted]
Rejected(b) == Outcome(b, FALSE, <<>>)

FindOrderSlot(b, id) == Index!Find(b.index, id)

-----------------------------------------------------------------------------
(* Levels *)

(* The slots of a level's list, from its first order on; at[k] is where k  *)
(* steps along the links lead.                                             *)
Chain(slots, first) ==
  LET at[k \in 0 .. MaxOrders] ==
        IF k = 0 THEN first ELSE IF at[k - 1] = Nil THEN Nil ELSE slots[at[k - 1]].next
      length == Cardinality({k \in 0 .. MaxOrders - 1 : at[k] # Nil})
  IN  [k \in 1 .. length |-> at[k - 1]]

(* 0 if the price has no level. *)
FindLevel(b, side, price) == SelectInSeq(b.levels[side], LAMBDA level : level.price = price)

Better(side, p, q) == IF side = "Buy" THEN p > q ELSE p < q

(* Mutant: levels that move do not tell their orders. *)
UpdateLevelLinksForgotten(slots, levels, start) == slots

(* updateLevelLinks for each level from position `start` on: its orders    *)
(* learn where their level now is.                                         *)
UpdateLevelLinks(slots, levels, start) ==
  [s \in Slot |->
    LET at == {i \in start .. Len(levels) : s \in ToSet(Chain(slots, levels[i].first))}
    IN  IF at = {} THEN slots[s] ELSE [slots[s] EXCEPT !.levelIndex = CHOOSE i \in at : TRUE]]

(* findOrInsertLevel, when it finds or has room. *)
WithLevel(b, side, price) ==
  IF FindLevel(b, side, price) # 0 THEN b
  ELSE LET levels == b.levels[side]
           worse == SelectInSeq(levels, LAMBDA level : ~Better(side, level.price, price))
           position == IF worse = 0 THEN Len(levels) + 1 ELSE worse
           shifted == InsertAt(levels, position, EmptyLevel(price))
       IN  [b EXCEPT !.levels[side] = shifted,
                     !.slots = UpdateLevelLinks(@, shifted, position + 1)]

(* removeLevelIfEmpty *)
RemoveLevelIfEmpty(b, side, position) ==
  IF b.levels[side][position].orders # 0 THEN b
  ELSE LET closed == RemoveAt(b.levels[side], position)
       IN  [b EXCEPT !.levels[side] = closed,
                     !.slots = UpdateLevelLinks(@, closed, position)]

(* Mutant: the other side's best price is refreshed. *)
UpdateBBOSwapped(b, side) ==
  LET best == IF b.levels[side] = <<>> THEN InvalidPrice ELSE b.levels[side][1].price
  IN  IF side = "Sell" THEN [b EXCEPT !.bestBid = best] ELSE [b EXCEPT !.bestAsk = best]

(* updateBBO *)
UpdateBBO(b, side) ==
  LET best == IF b.levels[side] = <<>> THEN InvalidPrice ELSE b.levels[side][1].price
  IN  IF side = "Buy" THEN [b EXCEPT !.bestBid = best] ELSE [b EXCEPT !.bestAsk = best]

(* The slots and the level when order s joins the end of its list.         *)
LinkedAtEnd(slots, last, s) ==
  [t \in Slot |->
    IF t = s THEN [slots[t] EXCEPT !.prev = last, !.next = Nil]
    ELSE IF t = last THEN [slots[t] EXCEPT !.next = s] ELSE slots[t]]

EndedBy(level, s) == [level EXCEPT !.first = IF level.last = Nil THEN s ELSE @, !.last = s]

AppendOrderToLevel(b, side, position, s) ==
  [b EXCEPT !.slots = LinkedAtEnd(@, b.levels[side][position].last, s),
            !.levels[side][position] = EndedBy(@, s)]

(* The slots and the level when order s leaves its list.                   *)
Unlinked(slots, s) ==
  [t \in Slot |-> [slots[t] EXCEPT
    !.next = IF t = s THEN Nil ELSE IF t = slots[s].prev THEN slots[s].next ELSE @,
    !.prev = IF t = s THEN Nil ELSE IF t = slots[s].next THEN slots[s].prev ELSE @]]

LeftBy(level, gone) ==
  [level EXCEPT !.first = IF gone.prev = Nil THEN gone.next ELSE @,
                !.last = IF gone.next = Nil THEN gone.prev ELSE @]

UnlinkOrderFromLevel(b, side, position, s) ==
  [b EXCEPT !.slots = Unlinked(@, s), !.levels[side][position] = LeftBy(@, b.slots[s])]

(* What a level sums up: quantity and orders more, or one order less.      *)
Increased(level, quantity, orders) == [level EXCEPT !.totalQty = @ + quantity, !.orders = @ + orders]

Decreased(level, quantity) ==
  [level EXCEPT !.totalQty = IF @ >= quantity THEN @ - quantity ELSE 0,
                !.orders = IF @ > 0 THEN @ - 1 ELSE @]

(* The slot on top of the free stack is handed out, Last(b.free). *)
AllocateOrderSlot(b) == [b EXCEPT !.free = SubSeq(@, 1, Len(@) - 1)]

ReleaseOrderSlot(b, s) == [b EXCEPT !.slots[s] = EmptySlot, !.free = Append(@, s)]

-----------------------------------------------------------------------------
(* Operations *)

(* Mutant: an order for which there is no level keeps its slot. *)
SlotIsKept(b) == AllocateOrderSlot(b)

(* The slot is taken before a level is looked for, and goes back if there  *)
(* is none.                                                                *)
SlotGoesBack(b) == ReleaseOrderSlot(AllocateOrderSlot(b), Last(b.free))

(* The order is put in the slot on top of the free stack and linked; if    *)
(* the index refused it, everything is undone.                             *)
Place(b, id, side, price, quantity) ==
  LET s == Last(b.free)
      position == FindLevel(WithLevel(b, side, price), side, price)
      stored ==
        [WithLevel(b, side, price) EXCEPT
          !.free = SubSeq(@, 1, Len(@) - 1),
          !.slots[s] = [EmptySlot EXCEPT !.orderId = id, !.side = side, !.price = price,
                          !.quantity = quantity, !.levelIndex = position, !.active = TRUE]]
      linked ==
        [AppendOrderToLevel(stored, side, position, s) EXCEPT
          !.levels[side][position] = Increased(@, quantity, 1)]
      unlinked ==
        [UnlinkOrderFromLevel(linked, side, position, s) EXCEPT
          !.levels[side][position] = Increased(@, - quantity, - 1)]
      indexed ==
        [linked EXCEPT !.index = Index!Insert(@, id, s), !.orderCount = @ + 1]
  IN  IF Index!CanInsert(b.index, id)
      THEN Outcome(UpdateBBO(indexed, side), TRUE,
             <<Update("Add", side, price, quantity, linked.levels[side][position].totalQty, id)>>)
      ELSE Rejected(ReleaseOrderSlot(RemoveLevelIfEmpty(unlinked, side, position), s))

Add(b, id, side, price, quantity) ==
  IF \/ id = InvalidId \/ price = InvalidPrice \/ quantity <= 0
     \/ FindOrderSlot(b, id) # Nil
     \/ b.free = <<>>
  THEN Rejected(b)
  ELSE IF FindLevel(b, side, price) = 0 /\ Len(b.levels[side]) >= MaxLevels
  THEN Rejected(SlotGoesBack(b))
  ELSE Place(b, id, side, price, quantity)

Delete(b, id) ==
  IF FindOrderSlot(b, id) = Nil THEN Rejected(b)
  ELSE
    LET s == FindOrderSlot(b, id)
        side == b.slots[s].side
        price == b.slots[s].price
        quantity == b.slots[s].quantity
        position == b.slots[s].levelIndex
        unlinked ==
          UnlinkOrderFromLevel(
            [b EXCEPT !.levels[side][position] = Decreased(@, quantity)], side, position, s)
        released ==
          [ReleaseOrderSlot(unlinked, s) EXCEPT !.index = Index!Erase(@, id), !.orderCount = @ - 1]
    IN  Outcome(UpdateBBO(RemoveLevelIfEmpty(released, side, position), side), TRUE,
          <<Update("Delete", side, price, 0, unlinked.levels[side][position].totalQty, id)>>)

(* Mutant: the level's total is left as it was. *)
ModifyForgetsTotal(b, id, quantity) ==
  IF quantity <= 0 THEN Delete(b, id)
  ELSE IF FindOrderSlot(b, id) = Nil THEN Rejected(b)
  ELSE
    LET s == FindOrderSlot(b, id)
        order == b.slots[s]
    IN  Outcome([b EXCEPT !.slots[s].quantity = quantity], TRUE,
          <<Update("Modify", order.side, order.price, quantity,
                   b.levels[order.side][order.levelIndex].totalQty, id)>>)

Modify(b, id, quantity) ==
  IF quantity <= 0 THEN Delete(b, id)
  ELSE IF FindOrderSlot(b, id) = Nil THEN Rejected(b)
  ELSE
    LET s == FindOrderSlot(b, id)
        order == b.slots[s]
        modified ==
          [b EXCEPT
            !.slots[s].quantity = quantity,
            !.levels[order.side][order.levelIndex] = Increased(@, quantity - order.quantity, 0)]
    IN  Outcome(modified, TRUE,
          <<Update("Modify", order.side, order.price, quantity,
                   modified.levels[order.side][order.levelIndex].totalQty, id)>>)

(* applySnapshot numbers the orders from 1, bids before asks; after[n] is  *)
(* the outcome of its first n calls of addOrder on a cleared book.         *)
Entries(bids, asks) ==
  [i \in DOMAIN bids |-> <<"Buy", bids[i][1], bids[i][2]>>]
    \o [i \in DOMAIN asks |-> <<"Sell", asks[i][1], asks[i][2]>>]

AddEntry(before, n, entry) ==
  LET added == Add(before.book, n, entry[1], entry[2], entry[3])
  IN  Outcome(added.book, TRUE, before.events \o added.events)

Snapshot(bids, asks) ==
  LET entries == Entries(bids, asks)
      after[n \in 0 .. Len(entries)] ==
        IF n = 0 THEN Outcome(EmptyBook, TRUE, <<>>) ELSE AddEntry(after[n - 1], n, entries[n])
      placed == after[Len(entries)]
  IN  [placed EXCEPT !.events = Append(@, Update("Snapshot", "Buy", placed.book.bestBid, 0, 0, InvalidId))]

Becomes(outcome) ==
  /\ book' = outcome.book
  /\ returned' = outcome.returned
  /\ events' = outcome.events

-----------------------------------------------------------------------------
Init ==
  /\ book = EmptyBook
  /\ returned = TRUE
  /\ events = <<>>

AddOrder == \E o \in NewOrders : Becomes(Add(book, o[1], o[2], o[3], o[4]))

ModifyOrder == \E change \in Changes : Becomes(Modify(book, change[1], change[2]))

DeleteOrder == \E id \in OrderIds : Becomes(Delete(book, id))

ApplySnapshot == \E snapshot \in Snapshots : Becomes(Snapshot(snapshot.bids, snapshot.asks))

Clear == Becomes(Outcome(EmptyBook, TRUE, <<>>))

Next == AddOrder \/ ModifyOrder \/ DeleteOrder \/ ApplySnapshot \/ Clear

Spec == Init /\ [][Next]_vars

-----------------------------------------------------------------------------
(* Properties *)

Active == {s \in Slot : book.slots[s].active}

(* The list of slots at a level, and the orders in them. *)
LevelChain(side, i) == Chain(book.slots, book.levels[side][i].first)
Resting(s) == [orderId |-> book.slots[s].orderId, quantity |-> book.slots[s].quantity]

OrderSlot ==
  [orderId : OrderIds, side : Sides, price : PriceArguments, quantity : Nat,
   next : Slot \cup {Nil}, prev : Slot \cup {Nil}, levelIndex : (1 .. MaxLevels) \cup {Nil},
   active : BOOLEAN]

LevelSlot ==
  [price : Prices, totalQty : Nat, orders : Nat,
   first : Slot \cup {Nil}, last : Slot \cup {Nil}]

Book ==
  [levels : [Sides -> Seq(LevelSlot)], slots : [Slot -> OrderSlot], free : Seq(Slot),
   index : [Index!Bucket -> [orderId : OrderIds \cup {Nil}, slot : Slot \cup {Nil}]],
   orderCount : Nat, bestBid : PriceArguments, bestAsk : PriceArguments]

TypeOK ==
  /\ book \in Book
  /\ \A side \in Sides : Len(book.levels[side]) <= MaxLevels
  /\ \A s \in Slot : book.slots[s].active <=> book.slots[s].quantity > 0
  /\ returned \in BOOLEAN

(* The pool never loses a slot and never hands out one that is in use: the *)
(* free stack holds each inactive slot once, wiped, through any sequence   *)
(* of adds, rejected adds, deletes and snapshots (allocateOrderSlot and    *)
(* releaseOrderSlot).                                                      *)
SlotsAccountedFor ==
  /\ Len(book.free) = Cardinality(ToSet(book.free))
  /\ ToSet(book.free) = Slot \ Active
  /\ \A s \in Slot \ Active : book.slots[s] = EmptySlot
  /\ book.orderCount = Cardinality(Active)

(* The index finds exactly the live orders, each at its slot, although     *)
(* ids collide and entries move when a neighbour is erased.                *)
IndexFindsTheLive ==
  \A id \in OrderIds :
    LET holders == {s \in Active : book.slots[s].orderId = id}
    IN  IF holders = {} THEN FindOrderSlot(book, id) = Nil
        ELSE holders = {FindOrderSlot(book, id)}

(* With the types: what every operation needs of the pool and the index it *)
(* finds.                                                                  *)
PoolConsistent == TypeOK /\ SlotsAccountedFor /\ IndexFindsTheLive

(* The lists through the slots: each level's list runs from first to last, *)
(* its back links mirror its forward links, its orders know the level's    *)
(* current position and price, and every live order is in exactly one list *)
(* (levels are inserted and removed in the middle of the arrays while      *)
(* their orders keep positions into them).                                 *)
ListsWellFormed ==
  /\ \A side \in Sides : \A i \in DOMAIN book.levels[side] :
       LET chain == LevelChain(side, i)
           level == book.levels[side][i]
       IN  /\ chain # <<>>
           /\ level.last = Last(chain)
           /\ \A k \in DOMAIN chain :
                LET slot == book.slots[chain[k]]
                IN  /\ slot.active /\ slot.side = side
                    /\ slot.price = level.price
                    /\ slot.levelIndex = i
                    /\ slot.prev = IF k = 1 THEN Nil ELSE chain[k - 1]
  /\ \A s \in Active :
       LET slot == book.slots[s]
       IN  /\ slot.levelIndex \in DOMAIN book.levels[slot.side]
           /\ s \in ToSet(LevelChain(slot.side, slot.levelIndex))

(* A level's aggregates are those of the orders in its list, no level is   *)
(* empty, and each side is sorted strictly best price first.               *)
LevelsAggregateTheirOrders ==
  \A side \in Sides :
    /\ \A i \in DOMAIN book.levels[side] :
         LET chain == LevelChain(side, i)
         IN  /\ book.levels[side][i].orders = Len(chain)
             /\ book.levels[side][i].orders > 0
             /\ book.levels[side][i].totalQty =
                  SumFunction([k \in DOMAIN chain |-> book.slots[chain[k]].quantity])
    /\ \A i, j \in DOMAIN book.levels[side] :
         i < j => Better(side, book.levels[side][i].price, book.levels[side][j].price)

(* What every operation needs of the levels it finds. *)
LevelsConsistent == ListsWellFormed /\ LevelsAggregateTheirOrders

(* The cached best prices are those of the best live orders (updateBBO is  *)
(* called for one side only, and not at all by modifyOrder).               *)
BestPricesCurrent ==
  \A side \in Sides :
    LET prices == {book.slots[s].price : s \in {t \in Active : book.slots[t].side = side}}
        best == IF side = "Buy" THEN book.bestBid ELSE book.bestAsk
    IN  IF prices = {} THEN best = InvalidPrice
        ELSE best \in prices /\ \A p \in prices \ {best} : Better(side, best, p)

(* The storage implements the price-time queues: same orders in the same   *)
(* order at every price, same results, same events (with the total left at *)
(* the level), operation by operation.                                     *)
Queues ==
  [side \in Sides |-> [price \in Prices |->
    LET i == FindLevel(book, side, price)
        chain == LevelChain(side, i)
    IN  IF i = 0 THEN <<>> ELSE [k \in DOMAIN chain |-> Resting(chain[k])]]]

PriceTime == INSTANCE PriceTimeBook WITH queues <- Queues
ImplementsPriceTimeBook == PriceTime!Spec
=============================================================================
