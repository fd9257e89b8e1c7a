------------------------------ MODULE Simulation ------------------------------
(***************************************************************************)
(* The bars of a few instruments as the sessions bring them, and what one  *)
(* trade on a signal comes to (backtest.py simulate): the paper broker and *)
(* the labels of the training data both ask it.                            *)
(*                                                                         *)
(* simulate looks at all the bars there are after the signal, so a trade   *)
(* or a label made early is made from a part of its window.  Corrections   *)
(* of bars are BarStore's subject.  Prices are integers; percentages of    *)
(* them are rounded down, where the code uses floats.                      *)
(***************************************************************************)
EXTENDS Integers, FiniteSets

CONSTANTS
  Instruments,
  MaxDay,       \* bound: the calendar ends
  Closed,       \* Closed[i]: the days on which i has no session
  Prices,       \* Prices[i]: the bars a session of i may bring
  NoBar,
  Stop, Target, \* percent below and above the entry (strategy.py TradeSignal)
  Horizon,      \* sessions
  TargetFirst   \* which wins when one bar touches both

Days == 1..MaxDay
AllBars == UNION {Prices[i] : i \in Instruments}

ASSUME MarketAssumption ==
  /\ MaxDay \in Nat
  /\ Closed \in [Instruments -> SUBSET Days]
  /\ \A i \in Instruments : NoBar \notin Prices[i]
  /\ \A i \in Instruments : \A b \in Prices[i] :
       b.open \in Int /\ b.high \in Int /\ b.low \in Int /\ b.close \in Int
  /\ Stop \in Int /\ Target \in Int /\ TargetFirst \in BOOLEAN
  /\ Horizon \in Nat \ {0}

VARIABLES
  today,
  bars     \* bars[i][d]: what as_of returns for i and day d, all days

market == <<today, bars>>

-----------------------------------------------------------------------------
(* simulate.                                                               *)

Least(S) == CHOOSE x \in S : \A y \in S : x <= y
Greatest(S) == CHOOSE x \in S : \A y \in S : y <= x

\* Sessions of i after day d, in order those up to x, and the first Horizon.
After(i, d) == {x \in Days : x > d /\ bars[i][x] # NoBar}
UpTo(i, d, x) == {y \in After(i, d) : y <= x}

\* Mutant: a window without an end.
WindowOpen(i, d) == After(i, d)

Window(i, d) == {x \in After(i, d) : Cardinality(UpTo(i, d, x)) <= Horizon}

EntryDay(i, d) == Least(After(i, d))
Entry(i, d) == bars[i][EntryDay(i, d)].open
StopPrice(i, d) == (Entry(i, d) * (100 - Stop)) \div 100
TargetPrice(i, d) == (Entry(i, d) * (100 + Target)) \div 100

HitsStop(i, d, x) == bars[i][x].low <= StopPrice(i, d)
HitsTarget(i, d, x) == bars[i][x].high >= TargetPrice(i, d)
Touching(i, d) == {x \in Window(i, d) : HitsStop(i, d, x) \/ HitsTarget(i, d, x)}

ExitDay(i, d) ==
  IF Touching(i, d) # {} THEN Least(Touching(i, d)) ELSE Greatest(Window(i, d))

Outcome(i, d) ==
  LET x == ExitDay(i, d)
      first == IF TargetFirst THEN HitsTarget(i, d, x) ELSE ~HitsStop(i, d, x)
  IN IF Touching(i, d) = {} THEN "HORIZON" ELSE IF first THEN "TARGET" ELSE "STOP"

ExitPrice(i, d) ==
  CASE Outcome(i, d) = "STOP" -> StopPrice(i, d)
    [] Outcome(i, d) = "TARGET" -> TargetPrice(i, d)
    [] OTHER -> bars[i][ExitDay(i, d)].close

\* simulate returns None when there is no session to enter on.
Simulated(i, d) ==
  [instrument |-> i, signal |-> d,
   entryDay |-> EntryDay(i, d), entry |-> Entry(i, d),
   exitDay |-> ExitDay(i, d), exit |-> ExitPrice(i, d), outcome |-> Outcome(i, d)]

-----------------------------------------------------------------------------
\* The session of a day brings every instrument that trades a bar.
NextDay ==
  /\ today < MaxDay
  /\ today' = today + 1
  /\ \E b \in [Instruments -> AllBars] :
       /\ \A i \in Instruments : b[i] \in Prices[i]
       /\ bars' = [i \in Instruments |->
                     IF today' \in Closed[i] THEN bars[i]
                     ELSE [bars[i] EXCEPT ![today'] = b[i]]]

MarketInit ==
  /\ today = 0
  /\ bars = [i \in Instruments |-> [d \in Days |-> NoBar]]

MarketSpec == MarketInit /\ [][NextDay]_market

\* A bar is there exactly for the sessions held so far.
MarketTypeOK ==
  /\ today \in 0..MaxDay
  /\ bars \in [Instruments -> [Days -> AllBars \cup {NoBar}]]
  /\ \A i \in Instruments, d \in Days :
       IF d <= today /\ d \notin Closed[i] THEN bars[i][d] \in Prices[i] ELSE bars[i][d] = NoBar
===============================================================================
