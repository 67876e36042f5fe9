----------------------------- MODULE MCOrderBook -----------------------------
(* Ids that collide around the end of the index, one more id than slots and *)
(* one more price than levels; snapshots that are empty, deeper than a side,*)
(* with a repeated price and a zero quantity, and larger than the pool.     *)
EXTENDS OrderBook, TLC

MCIds == 0 .. 4
MCHome == 0 :> 7 @@ 1 :> 7 @@ 2 :> 7 @@ 3 :> 0 @@ 4 :> 7

Rejects == {<<0, "Buy", 1, 1>>, <<1, "Buy", 0, 1>>, <<1, "Buy", 1, 0>>}

MCSnapshots ==
  {[bids |-> <<>>, asks |-> <<>>],
   [bids |-> <<<<2, 1>>, <<1, 1>>, <<3, 1>>>>, asks |-> <<<<3, 1>>>>],
   [bids |-> <<<<1, 1>>, <<1, 1>>>>, asks |-> <<<<2, 0>>, <<3, 1>>>>],
   [bids |-> <<<<1, 1>>, <<2, 1>>>>, asks |-> <<<<3, 1>>, <<2, 1>>>>]}

(* Orders over the levels of one side, in front of, behind and between each *)
(* other, some of the other side; two units, and quantities that change.   *)
MCOrders ==
  Rejects \cup {<<3, "Buy", price, 1>> : price \in 1 .. 3}
          \cup {<<1, "Buy", 1, 1>>, <<2, "Buy", 1, 2>>, <<4, "Buy", 1, 1>>, <<4, "Buy", 3, 1>>, <<2, "Sell", 2, 1>>, <<4, "Sell", 1, 1>>}
MCChanges == {<<1, 2>>, <<2, 1>>, <<2, 0>>, <<4, 1>>}
=============================================================================
