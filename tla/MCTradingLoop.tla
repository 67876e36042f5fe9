---------------------------- MODULE MCTradingLoop ----------------------------
(* A spot book quoting 1 / 2 and a futures book quoting 2 / 4.             *)
EXTENDS TradingLoop

CONSTANTS spot, futures

MCSymbols == {spot, futures}
Quote(id, side, price) == [id |-> id, side |-> side, price |-> price]
MCInitialBooks ==
  (spot :> {Quote(1, "Buy", 1), Quote(2, "Sell", 2)})
    @@ (futures :> {Quote(3, "Buy", 2), Quote(4, "Sell", 4)})
=============================================================================
