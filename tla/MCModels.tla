------------------------------- MODULE MCModels -------------------------------
(* TLC instances of what stands between data and a champion: WalkForward, the  *)
(* folds a model is judged by, and ModelRegistry, which keeps the models.  Of  *)
(* two instruments, so that a fold may begin in the middle of a day, A stops   *)
(* out, hits its target or neither, and B never does.  The two modules share   *)
(* nothing: the steps of one are taken only while the other is as it began.    *)
EXTENDS WalkForward, ModelRegistry, TLC

CONSTANTS A, B

Bar(low, high, close) ==
  [open |-> 10000, low |-> low, high |-> high, close |-> close]
Calm == Bar(9900, 10200, 10100)
Falls == Bar(9600, 10200, 9700)
Rises == Bar(9900, 10700, 10500)
MCPrices == [i \in Instruments |-> IF i = A THEN {Calm, Falls, Rises} ELSE {Calm}]
MCOrder == [i \in Instruments |-> IF i = A THEN 1 ELSE 2]

\* A weekend of one day, which an embargo of one day allows for; then a holiday.
MCClosed == [i \in Instruments |-> {4}]
MCClosedHoliday == [i \in Instruments |-> {4, 5}]

\* The weekend meets the premise of PurgeWorks, the holiday does not.
ASSUME CalendarsDiffer == GapCoversWindow <=> Closed = MCClosed

Symmetry == Permutations(Models)

MCInit == MarketInit /\ Init
MCNext ==
  \/ MarketInit /\ Next /\ UNCHANGED market
  \/ Init /\ NextDay /\ UNCHANGED vars
MCSpec == MCInit /\ [][MCNext]_<<market, vars>>
===============================================================================
