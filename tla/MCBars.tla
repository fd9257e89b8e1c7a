-------------------------------- MODULE MCBars --------------------------------
(* TLC instances of BarStore: two sessions of one instrument; a feed with a   *)
(* correction of the first session, and one that corrects itself.  And of     *)
(* BarChecks: every kind of action, two of them on one day, and a dividend    *)
(* as large as a price.  The two share nothing: the steps of one are taken    *)
(* only while the other is as it began.                                       *)
EXTENDS BarStore, BarChecks

Key(day, adj) == [inst |-> "A", day |-> day, adjusted |-> adj]
MCKeys == {Key(1, FALSE), Key(2, FALSE)}
R(day, val) == [key |-> Key(day, FALSE), val |-> val]
MCFeeds ==
  {<<R(1, "x")>>,
   <<R(1, "y"), R(2, "x")>>,
   <<R(2, "y"), R(1, "x"), R(1, "y")>>}

Split(ex, old, new) == [type |-> "SPLIT", ex |-> ex, a |-> old, b |-> new, amount |-> 0]
Bonus(ex, new, held) == [type |-> "BONUS", ex |-> ex, a |-> new, b |-> held, amount |-> 0]
Dividend(ex, amount) == [type |-> "DIVIDEND", ex |-> ex, a |-> 0, b |-> 0, amount |-> amount]
MCActions == {Split(3, 1, 2), Bonus(2, 1, 2), Dividend(3, 1)}
NoActions == {}

MCInit == Init /\ ChecksInit
MCNext ==
  \/ ChecksInit /\ Next /\ UNCHANGED checked
  \/ Init /\ ChecksNext /\ UNCHANGED barVars
MCSpec == MCInit /\ [][MCNext]_<<barVars, checked>>
=============================================================================
