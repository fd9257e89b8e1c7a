----------------------------- MODULE GatewayCalls -----------------------------
(***************************************************************************)
(* What a caller of LLMGateway.request sees, whatever routes, retries,     *)
(* cache and breaker are behind it: a call ends in one of three ways, a    *)
(* validated result, an explicit FAILED result, or an exception out of the *)
(* audit write.  A result cites only ids its own call handed over, or it   *)
(* repeats what an earlier call with the same key was given.               *)
(*                                                                         *)
(* GatewayContract adds the audit log to it, LLMGateway implements that,   *)
(* and the callers (ResearchFloor) are composed with this module.          *)
(***************************************************************************)
CONSTANTS
  Requests,   \* calls of LLMGateway.request
  Keys,       \* what makes two calls the same to the cache
  Ids,        \* source ids
  Data,       \* validated results; d.cites is the set of ids d cites
  NoData      \* None

VARIABLES
  status,   \* status[r]: where call r is
  asked,    \* asked[r]: r's key, and the ids its answer may cite
  answer    \* answer[r]: the validated data r's caller got, or none

CallsInit ==
  /\ status = [r \in Requests |-> "idle"]
  /\ asked \in [Requests -> [key : Keys, ids : SUBSET Ids]]
  /\ answer = [r \in Requests |-> NoData]

\* The call waits for a model.
Ask(r) ==
  /\ status[r] = "idle"
  /\ status' = [status EXCEPT ![r] = "waiting"]
  /\ UNCHANGED <<asked, answer>>

Ends(r, how) ==
  /\ status[r] \in {"idle", "waiting"}
  /\ status' = [status EXCEPT ![r] = how]
  /\ UNCHANGED asked

\* d is checked against r's ids, or was given to a call with r's key.
Founded(r, d) ==
  \/ d.cites \subseteq asked[r].ids
  \/ \E q \in Requests : asked[q].key = asked[r].key /\ answer[q] = d

\* The call returns validated data, with or without having waited (cache).
Answer(r, d) ==
  /\ Ends(r, "done")
  /\ Founded(r, d)
  /\ answer' = [answer EXCEPT ![r] = d]

\* The call returns an explicit failure and no data: nothing is fabricated.
Refuse(r) == Ends(r, "done") /\ UNCHANGED answer

\* The audit file cannot be written: the exception reaches the caller.
Raise(r) == Ends(r, "raised") /\ UNCHANGED answer

\* The worker restarts: calls in flight are gone.
Lose ==
  /\ status' = [r \in Requests |-> IF status[r] = "waiting" THEN "lost" ELSE status[r]]
  /\ UNCHANGED <<asked, answer>>
=============================================================================
