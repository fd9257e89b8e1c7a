------------------------------- MODULE MCFloor -------------------------------
(* TLC instances of ResearchFloor: two clients ask for the page of A at the   *)
(* same time and one for B's; or three questions are asked, about A, about B  *)
(* and about nothing in particular.  B has a document and no bars, A has bars *)
(* and no document: its evidence is the notice made up for it.                *)
EXTENDS ResearchFloor, TLC

CONSTANTS A, B, doc, notice, p1, p2, p3, q1, q2, q3

Datum(cites, low, conflict) == [cites |-> cites, low |-> low, conflict |-> conflict]
MCAbout ==
  [c \in Pages \cup Questions |->
     IF c \in {p1, p2, q1} THEN A ELSE IF c \in {p3, q3} THEN B ELSE None]
MCStored == (A :> {}) @@ (B :> {doc})
MCFiling == [i \in Instruments |-> notice]
MCData == {Datum({notice}, TRUE, TRUE), Datum({doc}, FALSE, FALSE)}

\* A confident story told both ways.
MCConflict == {Datum({notice}, FALSE, TRUE)}

\* Pages and questions share nothing: no run needs both.
PagesOrQuestions ==
  (\A p \in Pages : outcome[p] = "idle") \/ (\A q \in Questions : chat[q] = "idle")

MCNext == Next /\ PagesOrQuestions'
MCFairSpec == Init /\ [][MCNext]_floorVars /\ Fairness
===============================================================================
