--------------------------- MODULE GatewayContract ---------------------------
(***************************************************************************)
(* What LLMGateway promises: the calls of GatewayCalls, and for each call  *)
(* that returns exactly one record in the audit log, appended in the step  *)
(* that returns.  The log is only ever appended to and survives restarts.  *)
(*                                                                         *)
(* LLMGateway.tla implements this module (LLMGateway!Contract).            *)
(***************************************************************************)
EXTENDS GatewayCalls, Sequences

VARIABLE log   \* the audit file, one entry [call, ok] per returned call

contractVars == <<status, asked, answer, log>>

ContractInit == CallsInit /\ log = << >>

Logged(r, ok) == log' = Append(log, [call |-> r, ok |-> ok])

LoggedAnswer(r) == (\E d \in Data : Answer(r, d)) /\ Logged(r, TRUE)
LoggedRefusal(r) == Refuse(r) /\ Logged(r, FALSE)

ContractNext ==
  \/ \E r \in Requests :
       \/ Ask(r) /\ UNCHANGED log
       \/ LoggedAnswer(r)
       \/ LoggedRefusal(r)
       \/ Raise(r) /\ UNCHANGED log
  \/ Lose /\ UNCHANGED log

ContractSpec == ContractInit /\ [][ContractNext]_contractVars
=============================================================================
