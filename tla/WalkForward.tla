------------------------------ MODULE WalkForward ------------------------------
(***************************************************************************)
(* Purged walk-forward validation (cv.py purged_walk_forward) of the rows  *)
(* a data set has at any time: one for each day and instrument with a bar  *)
(* and a label (quant_demo.py build_dataset; label_signal is simulate with *)
(* a threshold on the return).                                             *)
(*                                                                         *)
(* The gap between training and test is counted in calendar days, the      *)
(* window of a label in sessions.                                          *)
(***************************************************************************)
EXTENDS Simulation

CONSTANTS
  Order,        \* the instruments' order in the instrument master
  Splits, Embargo

ASSUME FoldAssumption ==
  /\ IsFiniteSet(Instruments)
  /\ Order \in [Instruments -> Nat]
  /\ \A i, j \in Instruments : Order[i] = Order[j] => i = j
  /\ Splits \in Nat \ {0} /\ Embargo \in Nat

-----------------------------------------------------------------------------
\* The rows of the days up to last.
Rows(last) ==
  {r \in [instrument : Instruments, day : 1..last] :
     bars[r.instrument][r.day] # NoBar /\ After(r.instrument, r.day) # {}}

\* The place of a row when they are sorted by day, from 1.
Position(rows, r) ==
  Cardinality({s \in rows : \/ s.day < r.day
                            \/ s.day = r.day /\ Order[s.instrument] <= Order[r.instrument]})

FoldSize(rows) ==
  LET size == Cardinality(rows) \div (Splits + 1) IN IF size = 0 THEN 1 ELSE size

\* Mutant: the last fold ends like the others.
TestRowsCut(rows, k) ==
  LET size == FoldSize(rows)
  IN {r \in rows : LET p == Position(rows, r) IN k * size < p /\ p <= (k + 1) * size}

TestRows(rows, k) ==
  LET size == FoldSize(rows)
  IN {r \in rows : LET p == Position(rows, r)
                   IN k * size < p /\ (k < Splits => p <= (k + 1) * size)}

TestStart(rows, k) == Least({r.day : r \in TestRows(rows, k)})

\* Mutant: rows whose gap ends on the day the test starts are kept.
TrainRowsInclusive(rows, k) ==
  LET start == TestStart(rows, k) last == k * FoldSize(rows)
  IN {r \in rows : r.day + Horizon + Embargo <= start /\ Position(rows, r) <= last}

TrainRows(rows, k) ==
  LET start == TestStart(rows, k) last == k * FoldSize(rows)
  IN {r \in rows : r.day + Horizon + Embargo < start /\ Position(rows, r) <= last}

-----------------------------------------------------------------------------
(* Properties.                                                             *)

\* The calendar under which the gap does its work: more than Horizon sessions fit
\* between a signal and any session beyond the gap.
GapCoversWindow ==
  \A i \in Instruments, d \in Days :
    \A x \in Days \ Closed[i] :
      x > d + Horizon + Embargo =>
        Cardinality({y \in Days \ Closed[i] : d < y /\ y <= x}) > Horizon

\* cv.py: "a model is never trained on information that leaks into the test
\* window".  No training label of a fold was read from a bar of its test period.
TrainingIsPurged ==
  \A last \in Days :
    LET rows == Rows(last)
    IN \A k \in 1..Splits :
         LET test == TestRows(rows, k)
         IN test # {} => \A r \in TrainRows(rows, k), s \in test :
                           ExitDay(r.instrument, r.day) < s.day

\* Every row after the first fold is tested in exactly one fold, and none before.
RowsAreTestedOnce ==
  \A last \in Days :
    LET rows == Rows(last)
        tests == [k \in 1..Splits |-> TestRows(rows, k)]
    IN \A r \in rows :
         Cardinality({k \in 1..Splits : r \in tests[k]})
           = IF Position(rows, r) <= FoldSize(rows) THEN 0 ELSE 1
===============================================================================
