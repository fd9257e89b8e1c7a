----------------------------- MODULE PaperTrading -----------------------------
(***************************************************************************)
(* The paper broker (paper_trading.py): a signal is executed as simulate   *)
(* says, its two fills are recorded in memory and appended to a file, and  *)
(* the account is settled.  One thread.  An append may raise, and the      *)
(* process may die between any two steps of execute; a new broker on the   *)
(* same file begins with its starting cash and does not read the file.     *)
(*                                                                         *)
(* A fill's identifier and time stamp are left out, as is its kind, which  *)
(* says what its side says.  execute leaves simulate's target_first at its *)
(* default, so an instance has TargetFirst = FALSE.                        *)
(***************************************************************************)
EXTENDS Simulation, Sequences, SequencesExt

CONSTANTS
  Slippage,     \* percent per leg (costs.py)
  Fees,         \* brokerage and statutory charges, percent per leg
  StartingCash,
  SignalDays,   \* days on which a signal may be formed
  Quantities,   \* what sizing may return, 0 included
  MaxFills      \* bound: no trade is begun that could exceed it

ASSUME PaperAssumption ==
  /\ Slippage \in Int /\ Fees \in Int /\ StartingCash \in Int
  /\ SignalDays \subseteq Days /\ Quantities \subseteq Int

VARIABLES
  cash, pnl, fills, trades, \* PaperBroker: cash, realized_pnl, fills, trades
  ledger,  \* the file the fills are appended to
  raised   \* history: an append of this broker has raised

broker == <<cash, pnl, fills, trades, raised>>
paperVars == <<market, broker, ledger>>

-----------------------------------------------------------------------------
(* PaperBroker.                                                            *)

Fill(side, t, q, price, day) ==
  [instrument |-> t.instrument, side |-> side, quantity |-> q, price |-> price,
   cost |-> (q * price * Fees) \div 100, day |-> day]

Buy(t, q) == Fill("BUY", t, q, (t.entry * (100 + Slippage)) \div 100, t.entryDay)
Sell(t, q) == Fill("SELL", t, q, (t.exit * (100 - Slippage)) \div 100, t.exitDay)

\* Mutant: the exit is recorded first.
BothReversed(t, q) == <<Sell(t, q), Buy(t, q)>>
Both(t, q) == <<Buy(t, q), Sell(t, q)>>

\* Mutant: the charges of the exit are added.
RealizedCredit(t, q) ==
  LET buy == Buy(t, q) sell == Sell(t, q)
  IN -(q * buy.price + buy.cost) + (q * sell.price + sell.cost)

Realized(t, q) ==
  LET buy == Buy(t, q) sell == Sell(t, q)
  IN -(q * buy.price + buy.cost) + (q * sell.price - sell.cost)

\* The account after the first n of some changes.
CashAfter(changes) ==
  LET after[n \in 0..Len(changes)] ==
        IF n = 0 THEN StartingCash ELSE after[n - 1] + changes[n]
  IN after

\* reconstruct_cash.
Effect(f) ==
  IF f.side = "BUY" THEN -(f.quantity * f.price + f.cost) ELSE f.quantity * f.price - f.cost
ReconstructCash(s) == CashAfter([k \in DOMAIN s |-> Effect(s[k])])[Len(s)]

\* terminal.py _equity_curve: the account after each trade that was settled.
EquityCurve ==
  CashAfter([k \in DOMAIN trades |-> Realized(trades[k].sim, trades[k].quantity)])

\* A new broker on the same ledger_path: the file is not read.
NewBroker ==
  /\ cash' = StartingCash /\ pnl' = 0 /\ fills' = <<>> /\ trades' = <<>>
  /\ raised' = FALSE

\* The trade of a signal is recorded, with n of its two fills on file.  Each fill
\* is in memory before it is appended; an append that raises leaves execute.
Records(t, q, n) ==
  /\ ledger' = ledger \o SubSeq(Both(t, q), 1, n)
  /\ \/ /\ n = 2
        /\ fills' = fills \o Both(t, q)
        /\ cash' = cash + Realized(t, q) /\ pnl' = pnl + Realized(t, q)
        /\ trades' = Append(trades, [quantity |-> q, sim |-> t])
        /\ UNCHANGED raised
     \/ /\ n < 2
        /\ fills' = fills \o SubSeq(Both(t, q), 1, n + 1)
        /\ raised' = TRUE
        /\ UNCHANGED <<cash, pnl, trades>>
     \/ NewBroker \* the process dies and another one starts

Bounded == Len(fills) + 2 <= MaxFills /\ Len(ledger) + 2 <= MaxFills

\* Mutant: the quantity is not checked.
ExecuteAnything(i, d, q) ==
  /\ Bounded /\ d <= today /\ After(i, d) # {}
  /\ \E n \in 0..2 : Records(Simulated(i, d), q, n)
  /\ UNCHANGED market

Execute(i, d, q) ==
  /\ Bounded /\ d <= today
  /\ After(i, d) # {} /\ q > 0
  /\ \E n \in 0..2 : Records(Simulated(i, d), q, n)
  /\ UNCHANGED market

Restart == NewBroker /\ UNCHANGED <<market, ledger>>

-----------------------------------------------------------------------------
Init ==
  /\ MarketInit
  /\ cash = StartingCash /\ pnl = 0 /\ fills = <<>> /\ trades = <<>>
  /\ raised = FALSE
  /\ ledger = <<>>

SessionEnds == NextDay /\ UNCHANGED <<broker, ledger>>

Next ==
  \/ SessionEnds
  \/ \E i \in Instruments, d \in SignalDays, q \in Quantities : Execute(i, d, q)
  \/ Restart

Spec == Init /\ [][Next]_paperVars

-----------------------------------------------------------------------------
(* Properties.                                                             *)

FillType ==
  [instrument : Instruments, side : {"BUY", "SELL"}, quantity : Int, price : Int,
   cost : Int, day : Days]
TradeType ==
  [quantity : Nat \ {0},
   sim : [instrument : Instruments, signal : Days, entryDay : Days, entry : Int,
          exitDay : Days, exit : Int, outcome : {"STOP", "TARGET", "HORIZON"}]]

\* Every variable has its type; no trade has a quantity of 0.
TypeOK ==
  /\ MarketTypeOK
  /\ cash \in Int /\ pnl \in Int
  /\ fills \in Seq(FillType) /\ ledger \in Seq(FillType)
  /\ trades \in Seq(TradeType)
  /\ raised \in BOOLEAN

\* paper_trading.py: "The account NAV can be reconstructed from the ledger alone
\* and must match the reported NAV".  While no append has raised, the fills of
\* this broker are the end of the file, and they explain its cash.  The equity
\* curve that is shown ends at that cash, also after an append that raised.
AccountReconciles ==
  /\ EquityCurve[Len(trades)] = cash /\ pnl = cash - StartingCash
  /\ ~raised =>
       /\ Len(fills) <= Len(ledger)
       /\ fills = SubSeq(ledger, Len(ledger) - Len(fills) + 1, Len(ledger))
       /\ Len(fills) = 2 * Len(trades)
       /\ cash = ReconstructCash(fills)

\* In memory and on file, whatever appends raise and wherever the process dies,
\* a sale follows the purchase of the same shares on the same or an earlier day:
\* the ledger never shows a sale of what the account did not hold.
SalesFollowPurchases(s) ==
  \A k \in 1..Len(s) : s[k].side = "SELL" =>
    /\ k > 1 /\ s[k - 1].side = "BUY"
    /\ s[k - 1].instrument = s[k].instrument
    /\ s[k - 1].quantity = s[k].quantity
    /\ s[k - 1].day <= s[k].day

NothingSoldShort == SalesFollowPurchases(fills) /\ SalesFollowPurchases(ledger)

\* A trade made from a part of its window is not contradicted by the bars that
\* arrive later: simulated again it enters at the same price, exits no earlier, and
\* if it had touched a barrier or used up its window it is the same trade.
UsedUp(t) ==
  \/ t.outcome # "HORIZON"
  \/ Cardinality(UpTo(t.instrument, t.signal, t.exitDay)) = Horizon

TradesStayTrue ==
  \A k \in 1..Len(trades) :
    LET t == trades[k].sim
        again == Simulated(t.instrument, t.signal)
    IN /\ t.signal < t.entryDay /\ t.entryDay <= t.exitDay
       /\ again.entryDay = t.entryDay /\ again.entry = t.entry
       /\ t.exitDay <= again.exitDay
       /\ UsedUp(t) => again = t
===============================================================================
