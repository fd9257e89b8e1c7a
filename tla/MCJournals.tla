------------------------------ MODULE MCJournals ------------------------------
(* TLC instances of what appends to files: the stores of JsonLines, the paper *)
(* broker (A moves in every way a trade can end, B never does) and the alert  *)
(* engine.  The three share nothing: the steps of one are taken only while    *)
(* the others are as they began.                                              *)
EXTENDS JsonLines, PaperTrading, AlertEngine

CONSTANTS A, B

Bar(low, high, close) ==
  [open |-> 10000, low |-> low, high |-> high, close |-> close]
Calm == Bar(9900, 10200, 10100)
Rises == Bar(9900, 10700, 10500)
Swings == Bar(9600, 10700, 10000)
MCPrices == [i \in Instruments |-> IF i = A THEN {Calm, Rises, Swings} ELSE {Calm}]
MCClosed == [i \in Instruments |-> {3}]

MCAlerts == {TargetHit(A, 106), ThesisInvalidated(A, 95)}
Overnight == <<22, 6>>

\* Nothing has happened yet; of the kinds of store, and of the hours, one is enough
\* to wait with.
StoresWait ==
  kind = (CHOOSE k \in Stores : TRUE) /\ stage = "ready" /\ puts = 0 /\ faults = 0
AlertsWait ==
  engine = NewEngine /\ auditFile = <<>> /\ hour = (CHOOSE h \in Hours : TRUE)

MCInit == StoresInit /\ Init /\ AlertInit
MCNext ==
  \/ Init /\ AlertsWait /\ StoresNext /\ UNCHANGED <<paperVars, alerting>>
  \/ StoresWait /\ AlertsWait /\ Next /\ UNCHANGED <<store, alerting>>
  \/ StoresWait /\ Init /\ AlertNext /\ UNCHANGED <<store, paperVars>>
MCSpec == MCInit /\ [][MCNext]_<<store, paperVars, alerting>>
===============================================================================
