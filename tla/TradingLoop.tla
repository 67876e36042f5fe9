----------------------------- MODULE TradingLoop -----------------------------
(***************************************************************************)
(* From the venue's feed to the strategy's orders: a venue publishes       *)
(* updates, a link carries them, the handler applies them to the spot and  *)
(* the futures book, each book's update callback runs the strategy, and    *)
(* fills of its orders come back.  The venue and the link are not in the   *)
(* repository.  One of the three ways of MarketDataHandler is in use.      *)
(***************************************************************************)
EXTENDS MarketDataHandler, CashCarryArbitrage

CONSTANTS
  Prices,
  InitialBooks,  (* The venue's books, and the handler's, at the start. *)
  MaxMessages,   (* Bounds the run: messages to the adapter. *)
  MaxFixMessages,(* Bounds the run: messages on a FIX way. *)
  MaxTime,       (* Bounds the run: the clock. *)
  Lossy          (* Whether the link may lose messages. *)

(* The venue numbers the orders it adds from 100. *)
ASSUME FeedAssumption ==
  /\ Prices \subseteq Int \ {NoPrice}
  /\ InitialBooks \in
       [Symbols -> SUBSET [id : 1 .. 99, side : {"Buy", "Sell"}, price : Int \ {NoPrice}]]

VARIABLES
  way,         (* "adapter", "direct" or "queued". *)
  wire,        (* Messages on the link, in order. *)
  venueBooks,
  quoted,      (* History: the venue's best prices, each since a time. *)
  carried,     (* History: the symbols each message had an entry of. *)
  heard,       (* History: by symbol, the messages checked for a gap. *)
  dropped,     (* History: a message was lost, stale, or found a queue full. *)
  pair,        (* The last pair of orders, with the prices and position it saw. *)
  unfilled     (* Quantity of the strategy's orders not filled yet. *)

feedVars == <<way, wire, venueBooks, quoted, carried>>
vars == <<now, handlerVars, strategyVars, feedVars, heard, dropped, pair, unfilled>>

BestPrices(bs) ==
  [spotBid |-> Best(bs[Spot], "Buy"), spotAsk |-> Best(bs[Spot], "Sell"),
   futuresBid |-> Best(bs[Futures], "Buy"), futuresAsk |-> Best(bs[Futures], "Sell")]

Init ==
  /\ now = 1
  /\ InitHandler(InitialBooks)
  /\ InitStrategy
  /\ way \in {"adapter", "direct", "queued"}
  /\ wire = <<>>
  /\ venueBooks = InitialBooks
  /\ quoted = <<[prices |-> BestPrices(InitialBooks), since |-> 0]>>
  /\ carried = <<>>
  /\ heard = [s \in Symbols |-> {}]
  /\ dropped = FALSE
  /\ pair = {}
  /\ unfilled = 0

Tick ==
  /\ now < MaxTime
  /\ now' = now + 1
  /\ UNCHANGED <<handlerVars, strategyVars, feedVars, heard, dropped, pair, unfilled>>

-----------------------------------------------------------------------------
(* The venue and the link. *)

Change(s, type, o, quantity) ==
  [symbol |-> s, type |-> type, id |-> o.id, side |-> o.side, price |-> o.price,
   quantity |-> quantity]

Updates ==
  {Change(s, "Add", [id |-> 100 + Len(carried), side |-> side, price |-> price], 1) :
     s \in Symbols, side \in {"Buy", "Sell"}, price \in Prices}
  \cup UNION {UNION {{Change(s, "Modify", o, 2), Change(s, "Modify", o, 0), Change(s, "Delete", o, 0)} :
                      o \in venueBooks[s]} : s \in Symbols}

Publish(kind, updates) ==
  /\ wire' = Append(wire, [kind |-> kind, seq |-> Len(carried) + 1, sent |-> now,
                           entries |-> updates])
  /\ carried' = Append(carried, IF kind = "snapshot" THEN {} ELSE {u.symbol : u \in ToSet(updates)})
  /\ UNCHANGED <<now, handlerVars, strategyVars, way, heard, dropped, pair, unfilled>>

(* What the venue's own book makes of its update. *)
AtVenue(book, u) ==
  CASE u.type = "Add" -> book \cup {[id |-> u.id, side |-> u.side, price |-> u.price]}
    [] u.quantity = 0 -> {o \in book : o.id # u.id}
    [] OTHER -> book

(* For the adapter, one update a message. *)
PublishUpdate ==
  /\ way = "adapter"
  /\ Len(carried) < MaxMessages
  /\ \E u \in Updates :
       /\ Publish("incremental", <<u>>)
       /\ venueBooks' = [venueBooks EXCEPT ![u.symbol] = AtVenue(@, u)]
  /\ quoted' = IF BestPrices(venueBooks') = Last(quoted).prices THEN quoted
               ELSE Append(quoted, [prices |-> BestPrices(venueBooks'), since |-> now])

(* For the FIX ways, the entries of one or two symbols.  What they say of  *)
(* the books is always an addition here: the handler's refuse all of it,   *)
(* and the venue's are not followed.                                       *)
PublishFix ==
  LET entry(s) == [symbol |-> s, type |-> "Add", side |-> "Buy",
                   price |-> Min(Prices), quantity |-> 1]
  IN  /\ way # "adapter"
      /\ Len(carried) < MaxFixMessages
      /\ \E kind \in {"incremental", "snapshot"}, s, t \in Symbols :
           Publish(kind, IF s = t THEN <<entry(s)>> ELSE <<entry(s), entry(t)>>)
      /\ UNCHANGED <<venueBooks, quoted>>

Lose ==
  /\ Lossy
  /\ wire # <<>>
  /\ wire' = Tail(wire)
  /\ dropped' = TRUE
  /\ UNCHANGED <<now, handlerVars, strategyVars, way, venueBooks, quoted, carried,
                 heard, pair, unfilled>>

-----------------------------------------------------------------------------
(* Messages reach the handler. *)

ReceiveByAdapter ==
  /\ way = "adapter"
  /\ wire # <<>>
  /\ wire' = Tail(wire)
  /\ LET f == Head(wire)
         u == f.entries[1]
     IN  Enqueue([symbol |-> u.symbol, seq |-> f.seq, sent |-> f.sent, received |-> now,
                  type |-> u.type, id |-> u.id, side |-> u.side, price |-> u.price,
                  quantity |-> u.quantity])
  /\ dropped' = (dropped \/ Len(mdQueue) = QueueSize)
  /\ UNCHANGED <<now, strategyVars, way, venueBooks, quoted, carried, heard, pair, unfilled>>

ReceiveByFix ==
  /\ way # "adapter"
  /\ wire # <<>>
  /\ wire' = Tail(wire)
  /\ LET f == Head(wire)
         checked == way = "direct" /\ f.kind = "incremental" /\ ~IsStale(f)
     IN  /\ CASE way = "queued" -> QueueEntries(f)
              [] way = "direct" /\ f.kind = "incremental" -> ProcessIncremental(f)
              [] OTHER -> ProcessSnapshot(f)
         /\ heard' = [s \in Symbols |->
                       IF checked /\ s \in carried[f.seq] THEN heard[s] \cup {f.seq} ELSE heard[s]]
  /\ UNCHANGED <<now, strategyVars, way, venueBooks, quoted, carried, dropped, pair, unfilled>>

-----------------------------------------------------------------------------
(* The application thread. *)

(* The strategy runs inside the update callback of the book.  It reads     *)
(* both books as the update left them.                                     *)
RunStrategy(bs) ==
  LET q == BestPrices(bs)
      orders == OrdersFor(q, NoPrice, now)
  IN  /\ OnMarketData(q, NoPrice, now)
      /\ pair' = IF orders = <<>> THEN pair
                 ELSE {[orders |-> orders, prices |-> q, position |-> spotPosition, at |-> now]}
      /\ unfilled' = unfilled + FoldLeft(LAMBDA sum, o : sum + o.quantity, 0, orders)

(* The update reaches its book, which accepts it and calls back. *)
CallsBack(m) == ~IsStale(m) /\ Accepts(books[m.symbol], m)

NextMessage ==
  /\ ProcessNext
  /\ LET m == Head(mdQueue)
     IN  /\ dropped' = (dropped \/ IsStale(m))
         /\ IF CallsBack(m)
            THEN RunStrategy(books')
            ELSE UNCHANGED <<strategyVars, pair, unfilled>>
  /\ UNCHANGED <<now, feedVars, heard>>

NextEntry ==
  /\ ProcessEntry
  /\ UNCHANGED <<now, strategyVars, feedVars, heard, dropped, pair, unfilled>>

Fill ==
  /\ unfilled > 0
  /\ unfilled' = unfilled - 1
  /\ HandleOrderFill(1, now)
  /\ UNCHANGED <<now, handlerVars, feedVars, heard, dropped, pair>>

(* On the FIX ways no update reaches the strategy: it is left alone. *)
Control ==
  /\ way = "adapter"
  /\ Initialize \/ Stop \/ Pause \/ Resume
  /\ UNCHANGED <<now, handlerVars, feedVars, heard, dropped, pair, unfilled>>

Next ==
  \/ Tick
  \/ PublishUpdate
  \/ PublishFix
  \/ Lose
  \/ ReceiveByAdapter
  \/ ReceiveByFix
  \/ NextMessage
  \/ NextEntry
  \/ Fill
  \/ Control

Spec == Init /\ [][Next]_vars

-----------------------------------------------------------------------------
(* Properties *)

(* No update handed to a book was older than the threshold: on the wire    *)
(* and in the queue together for an adapter's message (processNext),       *)
(* on the wire for a FIX message (processMessage), in the queue for an     *)
(* entry (processEntry).                                                   *)
StaleNeverApplied ==
  \A h \in handed : h.at - h.message.sent <= Threshold

(* A message that carried a symbol and never made it, lost or stale, does  *)
(* not go unnoticed once a later one with that symbol arrives: a gap that  *)
(* spans it has been reported (checkSequenceGap).                          *)
NoSilentLoss ==
  \A s \in Symbols : \A q \in DOMAIN carried :
    /\ s \in carried[q] /\ q \notin heard[s]
    /\ \E before, after \in heard[s] : before < q /\ q < after
    => \E g \in gaps : g.symbol = s /\ g.from < q /\ q < g.to

(* As long as nothing was dropped, the books are the venue's once the      *)
(* messages under way have been processed.                                 *)
BooksConverge ==
  way = "adapter" /\ ~dropped /\ wire = <<>> /\ mdQueue = <<>> => books = venueBooks

(* The prices of a pair were the venue's best ones, all four at once, no   *)
(* longer ago than the threshold (README: stale data protection prevents   *)
(* trading on outdated quotes).                                            *)
FreshlyQuoted(p) ==
  \E k \in DOMAIN quoted :
    /\ quoted[k].prices = p.prices
    /\ k = Len(quoted) \/ quoted[k + 1].since >= p.at - Threshold

TradesOnFreshQuotes == \A p \in pair : FreshlyQuoted(p)

(* It holds as long as no message was dropped. *)
TradesOnFreshQuotesUnlessDropped == ~dropped => TradesOnFreshQuotes

(* The pair trades against the position it saw. *)
Reduces(p) ==
  \E o \in ToSet(p.orders) :
    o.symbol = Spot /\ IF o.side = "Sell" THEN p.position > 0 ELSE p.position < 0

(* An active strategy that is called back with its basis collapsed sends   *)
(* the pair that reduces its position (computeSignal: "Close position when *)
(* basis collapses").                                                      *)
ClosesWhenBasisCollapses ==
  [][LET q == BestPrices(books')
     IN  /\ mdQueue # <<>> /\ mdQueue' = Tail(mdQueue) /\ CallsBack(Head(mdQueue))
         /\ state = "Active" /\ spotPosition # 0
         /\ NoPrice \notin {q.spotBid, q.spotAsk, q.futuresBid, q.futuresAsk}
         /\ BasisCollapsed(q)
         => \E p \in pair' : p.at = now /\ p.prices = q /\ Reduces(p)]_vars

(* The holding time runs exactly while there is a position, through fills  *)
(* that close it, turn it or arrive after a restart (onOrderFill,          *)
(* onInitialize).                                                          *)
HoldingTimeMatchesPosition == entryTime = 0 <=> spotPosition = 0 /\ futuresPosition = 0
=============================================================================
