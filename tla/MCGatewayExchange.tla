-------------------------- MODULE MCGatewayExchange --------------------------
EXTENDS GatewayExchange

Request(symbol, side, price, quantity) ==
  [symbol |-> symbol, side |-> side, price |-> price, quantity |-> quantity]

(* Orders of either side and two sizes, and one refused on each ground. *)
SomeRequests ==
  {Request(1, "Buy", 1, 2), Request(1, "Sell", 1, 1), Request(2, "Buy", 1, 1),
   Request(1, "Buy", 0, 1), Request(1, "Buy", 1, 0), Request(1, "Buy", 3, 1)}

BothSides == {Request(1, "Buy", 1, 1), Request(1, "Buy", 1, 2), Request(1, "Sell", 1, 1)}
=============================================================================
