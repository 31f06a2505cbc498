--------------------------- MODULE SpotPortfolio ---------------------------
(***************************************************************************)
(* The spot side of crates/tux-core/src/portfolio.rs for the one account   *)
(* and instrument the runtime trades: free balances, the fees paid so far, *)
(* and what a fill does to them.  Fees are charged in the quote asset      *)
(* (sim.rs:237), as a share MakerFee or TakerFee of 1/FeeScale of the      *)
(* notional; quote amounts are counted in units of 1/FeeScale so that      *)
(* every fee is a whole number.                                            *)
(***************************************************************************)
EXTENDS Integers, SequencesExt

CONSTANTS FeeScale, MakerFee, TakerFee

ASSUME FeeAssumption ==
  /\ FeeScale \in Nat \ {0}
  /\ MakerFee \in 0..FeeScale
  /\ TakerFee \in 0..FeeScale

Portfolios == [quote : Int, base : Int, fees : Nat]

NoBalances  == [quote |-> 0, base |-> 0]
NoPortfolio == [quote |-> 0, base |-> 0, fees |-> 0]

BalancesOf(p) == [quote |-> p.quote, base |-> p.base]

\* equity_mtm, with the base asset marked at the reference price.
Equity(p, ref) == p.quote + p.base * ref * FeeScale

\* The net profit of the book: spot fills enter fees into it and nothing else.
NetPnl(p) == -p.fees

QuoteValue(f) == f.price * f.quantity * FeeScale

FeeOf(f) == f.price * f.quantity * (IF f.is_maker THEN MakerFee ELSE TakerFee)

\* Mutation: the fee is left out of the check.
Affordable_NoFee(b, f) ==
  IF f.side = "buy" THEN b.quote >= QuoteValue(f) ELSE b.base >= f.quantity

\* The preflight checks of apply_spot_fill.
Affordable(b, f) ==
  IF f.side = "buy" THEN b.quote >= QuoteValue(f) + FeeOf(f)
                    ELSE b.base >= f.quantity

AfterSpotFill(b, f) ==
  IF f.side = "buy"
    THEN [ quote |-> b.quote - QuoteValue(f) - FeeOf(f),
           base |-> b.base + f.quantity, fees |-> b.fees + FeeOf(f) ]
    ELSE [ quote |-> b.quote + QuoteValue(f) - FeeOf(f),
           base |-> b.base - f.quantity, fees |-> b.fees + FeeOf(f) ]

\* The portfolio after a sequence of fills that were all accepted.
AfterSpotFills(b, fills) == FoldLeft(AfterSpotFill, b, fills)

=============================================================================
