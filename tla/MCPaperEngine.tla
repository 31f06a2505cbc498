--------------------------- MODULE MCPaperEngine ---------------------------
(***************************************************************************)
(* Finite instances of PaperEngine.  One unit of price and of quantity is  *)
(* enough to tell inside, at and beyond the limit, and partial from whole  *)
(* fills, because the engine only compares, subtracts and takes minima.    *)
(***************************************************************************)
EXTENDS PaperEngine, TLC

Req(clid, i, side, type, tif, price, quantity) ==
  [ clid |-> clid, instrument |-> i, side |-> side, type |-> type,
    tif |-> tif, price |-> price, quantity |-> quantity,
    status |-> "risk_approved", filled |-> 0 ]

Stored(r, status, filled) == [r EXCEPT !.status = status, !.filled = filled]

Top(bid, bid_qty, ask, ask_qty) ==
  [bid |-> bid, bid_qty |-> bid_qty, ask |-> ask, ask_qty |-> ask_qty]

\* Every kind of order on both sides of one instrument.
MCAllKinds ==
  { Req("c1", "SOL", "buy",  "limit",     "gtc", 4, 2),
    Req("c2", "SOL", "sell", "limit",     "gtc", 3, 3),
    Req("c1", "SOL", "buy",  "limit",     "fok", 5, 2),
    Req("c2", "SOL", "sell", "limit",     "ioc", 3, 2),
    Req("c2", "SOL", "buy",  "market",    "gtc", 0, 2),
    Req("c1", "SOL", "sell", "market",    "fok", 0, 2),
    Req("c2", "SOL", "buy",  "market",    "ioc", 0, 2),
    Req("c1", "SOL", "buy",  "post_only", "gtc", 4, 2),
    Req("c2", "SOL", "sell", "post_only", "gtc", 4, 1),
    Req("c2", "SOL", "buy",  "stop",      "gtc", 4, 1) }

\* Orders two threads race with, takers or makers as the book has it.
MCRacing ==
  { Req("c1", "SOL", "buy",  "limit", "gtc", 4, 2),
    Req("c2", "SOL", "sell", "limit", "gtc", 3, 1) }

\* Orders that may rest, of sizes a queue fill divides exactly.
MCMakers ==
  { Req("c1", "SOL", "buy", "limit", "gtc", 4, 4),
    Req("c2", "SOL", "sell", "post_only", "gtc", 3, 4) }

\* What a store of an earlier life may hold: orders that rested.
MCRestorable ==
  { Stored(Req("c1", "SOL", "buy",  "limit", "gtc", 4, 2), "partially_filled", 1),
    Stored(Req("c2", "SOL", "sell", "post_only", "gtc", 4, 1), "acknowledged", 0) }

\* An order of an earlier life, with a client order id no caller makes again.
MCEarlier ==
  { Stored(Req("s1", "SOL", "buy", "limit", "gtc", 4, 2), "partially_filled", 1) }

MCNothingStored == {}

\* The book moves around the limits above; one side may be thin or missing.
MCTicks ==
  { Top(3, 2, 5, 1), Top(2, 1, 4, 3), Top(4, 1, 6, 2), Top(0, 0, 4, 1) }

\* A top that all orders of MCRacing cross, the buyers at a thin side.  Before
\* the first tick there is no book, and what is placed then rests.
MCServeTicks == { Top(3, 2, 4, 1) }

\* Displayed sizes of which half, and half of what that leaves, are whole.
MCQueueTicks == { Top(3, 4, 5, 8), Top(2, 8, 4, 4) }

MCIdSymmetry == Permutations(OrderIds)
MCSymmetry   == MCIdSymmetry \cup Permutations(Threads)

=============================================================================
