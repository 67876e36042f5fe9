-------------------------- MODULE MarketDataHandler --------------------------
(***************************************************************************)
(* The market data handler of include/market_data/MarketDataHandler.hpp    *)
(* (DefaultMarketDataHandler) and the market data half of                  *)
(* QuickFixApplication.hpp.  Updates reach the handler along one of three  *)
(* ways:                                                                   *)
(*   - a protocol adapter normalises a message and enqueues it, and the    *)
(*     application thread calls processNext;                               *)
(*   - a FIX message is given to processMessage as it arrives;             *)
(*   - QuickFixApplication queues the entries of a FIX message, and the    *)
(*     application thread gives each to processEntry.                      *)
(* Only the first carries an order id: both FIX ways leave it at           *)
(* INVALID_ORDER_ID, which the books refuse.                               *)
(*                                                                         *)
(* A book is here the set of its orders; PriceTimeBook has its queues and  *)
(* its limits, which no feed of the model reaches.  The FIFO queues are    *)
(* those SPSCQueue implements.                                             *)
(***************************************************************************)
EXTENDS Integers, Sequences, FiniteSets, FiniteSetsExt, SequencesExt

CONSTANTS
  Symbols,         (* The symbols with a registered book. *)
  Threshold,       (* staleThresholdNanos. *)
  MaxSequenceGap,  (* The largest gap that counts as small. *)
  QueueSize        (* Capacity of each queue. *)

ASSUME ThresholdAssumption == Threshold \in Nat
ASSUME QueueSizeAssumption == QueueSize \in Nat \ {0}

VARIABLES
  now,      (* nowNanos(). *)
  mdQueue,  (* m_queue: the adapter's messages. *)
  entries,  (* QuickFixApplication's m_mdQueue. *)
  lastSeq,  (* m_lastSeqNums; 0 for a symbol not seen. *)
  gaps,     (* The onSequenceGap and onLargeSequenceGap callbacks made. *)
  books,    (* The order books, by symbol. *)
  handed    (* The last update handed to onMarketDataUpdate, and when; {} if none. *)

handlerVars == <<mdQueue, entries, lastSeq, gaps, books, handed>>

NoId == 0     (* INVALID_ORDER_ID *)
NoPrice == 0  (* INVALID_PRICE *)

InitHandler(initialBooks) ==
  /\ mdQueue = <<>> /\ entries = <<>>
  /\ lastSeq = [s \in Symbols |-> 0]
  /\ gaps = {}
  /\ books = initialBooks
  /\ handed = {}

-----------------------------------------------------------------------------
(* The book calls of onMarketDataUpdate.  A book accepts or refuses, and   *)
(* calls its update callback if it accepts.                                *)

Holds(book, id) == \E o \in book : o.id = id
Without(book, id) == {o \in book : o.id # id}

Accepts(book, m) ==
  \/ /\ m.type = "Add"
     /\ m.id # NoId /\ m.price # NoPrice /\ m.quantity > 0
     /\ ~Holds(book, m.id)
  \/ m.type \in {"Modify", "Delete"} /\ Holds(book, m.id)

AfterUpdate(book, m) ==
  IF ~Accepts(book, m) THEN book
  ELSE IF m.type = "Add" THEN book \cup {[id |-> m.id, side |-> m.side, price |-> m.price]}
  ELSE IF m.type = "Modify" /\ m.quantity > 0 THEN book
  ELSE Without(book, m.id)

(* Mutant: a change to quantity 0 leaves the order in the book. *)
OnMarketDataUpdateKeepsEmptied(bs, m) ==
  IF m.symbol \in Symbols /\ m.type # "Modify"
  THEN [bs EXCEPT ![m.symbol] = AfterUpdate(@, m)]
  ELSE bs

OnMarketDataUpdate(bs, m) ==
  IF m.symbol \in Symbols
  THEN [bs EXCEPT ![m.symbol] = AfterUpdate(@, m)]
  ELSE bs

(* bestBid() and bestAsk() of a book. *)
Best(book, side) ==
  LET at == {o.price : o \in {x \in book : x.side = side}}
  IN  IF at = {} THEN NoPrice ELSE IF side = "Buy" THEN Max(at) ELSE Min(at)

-----------------------------------------------------------------------------
(* The adapter's way. *)

(* enqueue: a message that finds the queue full is gone. *)
Enqueue(m) ==
  /\ mdQueue' = IF Len(mdQueue) < QueueSize THEN Append(mdQueue, m) ELSE mdQueue
  /\ UNCHANGED <<entries, lastSeq, gaps, books, handed>>

(* Mutant: staleness is not checked again at the other end of the queue. *)
IsStaleNever(m) == FALSE

IsStale(m) == now - m.sent > Threshold

(* processNext: staleness is checked when the message leaves the queue. *)
ProcessNext ==
  /\ mdQueue # <<>>
  /\ mdQueue' = Tail(mdQueue)
  /\ LET m == Head(mdQueue)
     IN  IF IsStale(m)
         THEN UNCHANGED <<books, handed>>
         ELSE /\ books' = OnMarketDataUpdate(books, m)
              /\ handed' = {[message |-> m, at |-> now]}
  /\ UNCHANGED <<entries, lastSeq, gaps>>

-----------------------------------------------------------------------------
(* processMessage. *)

(* Mutant: a gap of one message passes. *)
CheckSequenceGapLoose(symbols, seq) ==
  /\ lastSeq' = [s \in Symbols |-> IF s \in symbols THEN seq ELSE lastSeq[s]]
  /\ gaps' = gaps \cup {[symbol |-> s, from |-> lastSeq[s], to |-> seq,
                         large |-> seq - lastSeq[s] - 1 > MaxSequenceGap] :
                          s \in {x \in symbols : lastSeq[x] # 0 /\ seq > lastSeq[x] + 2}}

(* checkSequenceGap, for the entries of one FIX message: its number is     *)
(* compared with the last one that had an entry of the same symbol, and a  *)
(* second entry of that symbol finds the number it left.  Only the small   *)
(* gaps are counted; DefaultMarketDataHandler does nothing about a large   *)
(* one.                                                                    *)
CheckSequenceGap(symbols, seq) ==
  /\ lastSeq' = [s \in Symbols |-> IF s \in symbols THEN seq ELSE lastSeq[s]]
  /\ gaps' = gaps \cup {[symbol |-> s, from |-> lastSeq[s], to |-> seq,
                         large |-> seq - lastSeq[s] - 1 > MaxSequenceGap] :
                          s \in {x \in symbols : lastSeq[x] # 0 /\ seq > lastSeq[x] + 1}}

FromEntry(e, seq, sent) ==
  [symbol |-> e.symbol, seq |-> seq, sent |-> sent, received |-> now, type |-> e.type,
   id |-> NoId, side |-> e.side, price |-> e.price, quantity |-> e.quantity]

(* An incremental refresh: a stale message is dropped whole, before its    *)
(* sequence number is looked at; otherwise each entry is checked against   *)
(* the numbers and handed to the book.                                     *)
ProcessIncremental(f) ==
  LET u == [i \in DOMAIN f.entries |-> FromEntry(f.entries[i], f.seq, f.sent)]
  IN  IF IsStale(f)
      THEN UNCHANGED handlerVars
      ELSE /\ CheckSequenceGap({e.symbol : e \in ToSet(f.entries)}, f.seq)
           /\ books' = FoldLeft(OnMarketDataUpdate, books, u)
           /\ handed' = {[message |-> Last(u), at |-> now]}
           /\ UNCHANGED <<mdQueue, entries>>

(* A full refresh: its entries have the type Snapshot, of which            *)
(* onMarketDataUpdate takes no notice, and its number is not looked at.    *)
ProcessSnapshot(f) ==
  LET u == [FromEntry(Last(f.entries), 0, f.sent) EXCEPT !.type = "Snapshot"]
  IN  /\ handed' = IF IsStale(f) THEN handed ELSE {[message |-> u, at |-> now]}
      /\ books' = IF IsStale(f) THEN books ELSE OnMarketDataUpdate(books, u)
      /\ UNCHANGED <<mdQueue, entries, lastSeq, gaps>>

-----------------------------------------------------------------------------
(* QuickFixApplication's queue of entries, and processEntry. *)

(* processMarketDataSnapshot, processMarketDataIncremental: each entry is  *)
(* pushed on its own, best effort; the sending time, the sequence number   *)
(* and the symbol stay behind, and a snapshot's entries become additions.  *)
QueueEntries(f) ==
  LET queued == [i \in DOMAIN f.entries |->
                  [symbol |-> f.entries[i].symbol,
                   type |-> IF f.kind = "snapshot" THEN "Add" ELSE f.entries[i].type,
                   side |-> f.entries[i].side, price |-> f.entries[i].price,
                   quantity |-> f.entries[i].quantity, received |-> now]]
      room == QueueSize - Len(entries)
  IN  /\ entries' = entries \o SubSeq(queued, 1, Min({room, Len(queued)}))
      /\ UNCHANGED <<mdQueue, lastSeq, gaps, books, handed>>

(* processEntry: the age is that of the entry in the queue.  The caller    *)
(* supplies the symbol; the model's supplies the right one.                *)
ProcessEntry ==
  /\ entries # <<>>
  /\ entries' = Tail(entries)
  /\ LET e == Head(entries)
         m == [FromEntry(e, 0, e.received) EXCEPT !.received = e.received]
     IN  IF IsStale(m)
         THEN UNCHANGED <<books, handed>>
         ELSE /\ books' = OnMarketDataUpdate(books, m)
              /\ handed' = {[message |-> m, at |-> now]}
  /\ UNCHANGED <<mdQueue, lastSeq, gaps>>
=============================================================================
