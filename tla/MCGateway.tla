------------------------------- MODULE MCGateway -------------------------------
(* TLC instances of LLMGateway: the fast and mid tiers of policies.py, one   *)
(* cacheable PUBLIC task that lists a route twice (allowed_routes and        *)
(* fallback_order may overlap) and one uncached USER task.  Both prompts     *)
(* hold no sources; some calls name the source a themselves (source_ids).    *)
EXTENDS LLMGateway, TLC

CONSTANTS r1, r2, fast, mid, p1, p2, a, b

MCRoutes == {fast, mid}
MCTasks == {"event_extraction", "chat_answer"}

MCAskList ==
  <<<<"event_extraction", p1, {}>>, <<"event_extraction", p1, {a}>>,
    <<"event_extraction", p2, {}>>, <<"chat_answer", p1, {a}>>>>

MCAsks == {MCAskList[i] : i \in DOMAIN MCAskList}

MCPolicy ==
  [t \in MCTasks |->
     IF t = "event_extraction"
       THEN [routes |-> <<fast, mid, fast>>, maxRetries |-> 1, retryOn |-> Kinds,
             class |-> 0, cacheable |-> TRUE]
       ELSE [routes |-> <<mid, fast>>, maxRetries |-> 0, retryOn |-> Kinds,
             class |-> 2, cacheable |-> FALSE]]

\* The fast tier is cleared for PUBLIC data only; the operator disables and
\* re-enables the mid tier.
MCRegistry == (fast :> [healthy |-> TRUE, clear |-> 0]) @@ (mid :> [healthy |-> TRUE, clear |-> 2])
MCOperator == (fast :> {}) @@ (mid :> [healthy : BOOLEAN, clear : {2}])

\* The two callers are alike: of two ways to deal them two asks, one is checked.
CallersInOrder ==
  \E i, j \in DOMAIN MCAskList :
    /\ i <= j
    /\ run[r1] = NewRun(r1, MCAskList[i][1], MCAskList[i][2], MCAskList[i][3])
    /\ run[r2] = NewRun(r2, MCAskList[j][1], MCAskList[j][2], MCAskList[j][3])

MCInit == Init /\ CallersInOrder
MCFairSpec == MCInit /\ [][Next]_vars /\ \A r \in Requests : WF_vars(Reply(r))
=============================================================================
