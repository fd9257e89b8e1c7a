--------------------------- MODULE LLMGatewayProofs ---------------------------
(***************************************************************************)
(* Theorems about LLMGateway for every set of calls, routes, tasks and     *)
(* payloads, every policy, threshold and registry.                         *)
(***************************************************************************)
EXTENDS LLMGateway, SequenceTheorems, FiniteSetTheorems, WellFoundedInduction, TLAPS

-----------------------------------------------------------------------------
(* Helpers.                                                                *)

\* First picks the least element, as the `for route in routes` loop does.
LEMMA FirstIsLeast ==
  ASSUME NEW S, S \subseteq Nat, S # {}
  PROVE  First(S) \in S /\ \A k \in S : First(S) <= k
<1>1. \E j \in S : \A k \in S : ~ (<<k, j>> \in OpToRel(<, Nat))
  BY NatLessThanWellFounded, WFMin
<1>2. ASSUME NEW j \in S, NEW k \in S, k < j
      PROVE  <<k, j>> \in OpToRel(<, Nat)
  <2>1. <<k, j>> \in Nat \X Nat
    OBVIOUS
  <2> QED BY <2>1, <1>2, Zenon DEF OpToRel
<1>3. PICK j \in S : \A k \in S : ~ (k < j)
  BY <1>1, <1>2
<1>4. \A k \in S : j <= k
  BY <1>3
<1> QED BY <1>4 DEF First

\* The positions a call is routed to are positions of its policy's list.
LEMMA EligiblePositions ==
  ASSUME NEW t \in Tasks
  PROVE  Eligible(t) \subseteq DOMAIN Policy[t].routes
BY DEF Eligible

\* A policy's positions are natural numbers that name routes.
LEMMA PolicyPositions ==
  ASSUME NEW t \in Tasks
  PROVE  /\ Policy[t].maxRetries \in Nat
         /\ DOMAIN Policy[t].routes \subseteq Nat
         /\ \A j \in DOMAIN Policy[t].routes : Policy[t].routes[j] \in Routes
BY GatewayAssumption, LenProperties DEF TaskPolicy

\* The record helpers keep a record a record; only the attempts, the number of
\* failures and the number of retries change.
LEMMA AttemptingRecord ==
  ASSUME NEW rec \in LLMRunRecord, NEW rt \in Routes
  PROVE  /\ Attempting(rec, rt) \in LLMRunRecord
         /\ Attempting(rec, rt).attempted = Append(rec.attempted, rt)
         /\ Attempting(rec, rt).fails = rec.fails
         /\ Attempting(rec, rt).req = rec.req
         /\ Attempting(rec, rt).task = rec.task
         /\ Attempting(rec, rt).prompt = rec.prompt /\ Attempting(rec, rt).ids = rec.ids
         /\ Attempting(rec, rt).selected = rec.selected
<1>1. rec.attempted \in Seq(Routes)
  BY DEF LLMRunRecord
<1>2. Append(rec.attempted, rt) \in Seq(Routes)
  BY <1>1, AppendProperties
<1> QED BY <1>2 DEF LLMRunRecord, Attempting

LEMMA FailingRecord ==
  ASSUME NEW rec \in LLMRunRecord
  PROVE  /\ Failing(rec) \in LLMRunRecord
         /\ Failing(rec).attempted = rec.attempted
         /\ Failing(rec).fails = rec.fails + 1
         /\ Failing(rec).req = rec.req
         /\ Failing(rec).task = rec.task
         /\ Failing(rec).prompt = rec.prompt /\ Failing(rec).ids = rec.ids
         /\ Failing(rec).selected = rec.selected
BY DEF LLMRunRecord, Failing

LEMMA RetriedRecord ==
  ASSUME NEW rec \in LLMRunRecord
  PROVE  /\ Retried(rec) \in LLMRunRecord
         /\ Retried(rec).attempted = rec.attempted
         /\ Retried(rec).fails = rec.fails
         /\ Retried(rec).req = rec.req
         /\ Retried(rec).task = rec.task
         /\ Retried(rec).prompt = rec.prompt /\ Retried(rec).ids = rec.ids
         /\ Retried(rec).selected = rec.selected
BY DEF LLMRunRecord, Retried

\* A record closed with a selected route and a final state.
LEMMA SelectingRecord ==
  ASSUME NEW rec \in LLMRunRecord, NEW rt \in Routes \cup {"none", "cache"}
  PROVE  /\ Selecting(rec, rt) \in LLMRunRecord
         /\ Selecting(rec, rt).selected = rt
         /\ Selecting(rec, rt).attempted = rec.attempted
         /\ Selecting(rec, rt).fails = rec.fails
         /\ Selecting(rec, rt).req = rec.req
         /\ Selecting(rec, rt).task = rec.task
         /\ Selecting(rec, rt).prompt = rec.prompt /\ Selecting(rec, rt).ids = rec.ids
BY DEF LLMRunRecord, Selecting

LEMMA InStateRecord ==
  ASSUME NEW rec \in LLMRunRecord, NEW st \in {"FAILED", "VALIDATED"}
  PROVE  /\ InState(rec, st) \in LLMRunRecord
         /\ InState(rec, st).state = st
         /\ InState(rec, st).selected = rec.selected
         /\ InState(rec, st).attempted = rec.attempted
         /\ InState(rec, st).fails = rec.fails
         /\ InState(rec, st).req = rec.req
         /\ InState(rec, st).task = rec.task
         /\ InState(rec, st).prompt = rec.prompt /\ InState(rec, st).ids = rec.ids
BY DEF LLMRunRecord, InState

LEMMA ValidatedRecord ==
  ASSUME NEW rec \in LLMRunRecord, NEW rt \in Routes \cup {"none", "cache"}
  PROVE  LET last == InState(Selecting(rec, rt), "VALIDATED") IN
         /\ last \in LLMRunRecord
         /\ last.state = "VALIDATED"
         /\ last.selected = rt
         /\ last.attempted = rec.attempted
         /\ last.fails = rec.fails
         /\ last.req = rec.req
         /\ last.task = rec.task
         /\ last.prompt = rec.prompt /\ last.ids = rec.ids
<1> DEFINE sel == Selecting(rec, rt)
<1>1. /\ sel \in LLMRunRecord
      /\ sel.selected = rt
      /\ sel.attempted = rec.attempted
      /\ sel.fails = rec.fails
      /\ sel.req = rec.req
      /\ sel.task = rec.task
      /\ sel.prompt = rec.prompt /\ sel.ids = rec.ids
  BY SelectingRecord
<1> HIDE DEF sel
<1>2. /\ InState(sel, "VALIDATED") \in LLMRunRecord
      /\ InState(sel, "VALIDATED").state = "VALIDATED"
      /\ InState(sel, "VALIDATED").selected = sel.selected
      /\ InState(sel, "VALIDATED").attempted = sel.attempted
      /\ InState(sel, "VALIDATED").fails = sel.fails
      /\ InState(sel, "VALIDATED").req = sel.req
      /\ InState(sel, "VALIDATED").task = sel.task
      /\ InState(sel, "VALIDATED").prompt = sel.prompt
      /\ InState(sel, "VALIDATED").ids = sel.ids
  BY <1>1, InStateRecord
<1> QED BY <1>1, <1>2 DEF sel

-----------------------------------------------------------------------------
(* The inductive invariant, and the two ways a step can move a call.       *)

CacheType == [Tasks \X Prompts -> Data \cup {NoData}]

\* What is true of a call that has not ended: nothing is selected, nothing was
\* attempted before the first await, and while it waits every attempt but the
\* one in progress has failed.
InProgress(r) ==
  /\ pc[r] \in {"idle", "waiting"} => run[r].selected = "none"
  /\ pc[r] = "idle" => run[r].attempted = << >> /\ run[r].fails = 0

GatewayInv ==
  /\ TypeOK
  /\ BreakerAgrees
  /\ AnswersGrounded
  /\ OneRunPerCall
  /\ AuditAccounts
  /\ \A r \in Requests : InProgress(r)

\* rec is r's record, with one reason for each attempt made.
Failed(r, rec) ==
  /\ rec \in LLMRunRecord
  /\ rec.req = r /\ rec.task = run[r].task /\ rec.prompt = run[r].prompt
  /\ rec.ids = run[r].ids
  /\ rec.fails = Len(rec.attempted)
  /\ rec.selected = "none"

\* data was checked against the ids of rec, or is what the cache has for it.
Written(rec, data) ==
  rec.selected = data.route /\ data.cites \subseteq rec.ids
Repeated(rec, data) ==
  rec.selected = "cache" /\ data = cache[<<rec.task, rec.prompt>>]

\* The call ends with record rec, whose outcome data is grounded.
EndsWith(r, rec, data, after) ==
  /\ rec \in LLMRunRecord
  /\ rec.req = r /\ rec.task = run[r].task /\ rec.prompt = run[r].prompt
  /\ rec.ids = run[r].ids
  /\ Accounted(rec)
  /\ data \in Data \cup {NoData}
  /\ rec.state = "VALIDATED" <=> data # NoData
  /\ data # NoData => Written(rec, data) \/ Repeated(rec, data)
  /\ \/ after = cache
     \/ /\ data # NoData /\ Written(rec, data)
        /\ Policy[rec.task].cacheable
        /\ after = [cache EXCEPT ![<<rec.task, rec.prompt>>] = data]

Ends(r) ==
  /\ pc[r] \in {"idle", "waiting"}
  /\ \E rec, data, after : EndsWith(r, rec, data, after) /\ Commit(r, rec, data, after)

\* The call makes another attempt, with record rec, at position j of the
\* positions set.
GoesOn(r, rec, set, j, a) ==
  /\ rec \in LLMRunRecord
  /\ rec.req = r /\ rec.task = run[r].task /\ rec.prompt = run[r].prompt
  /\ rec.ids = run[r].ids
  /\ rec.selected = "none"
  /\ set \subseteq DOMAIN PolicyOf(r).routes
  /\ j \in set
  /\ a \in Nat /\ a <= PolicyOf(r).maxRetries
  /\ Len(rec.attempted) = rec.fails + 1
  /\ rec.attempted[Len(rec.attempted)] = PolicyOf(r).routes[j]

Goes(r) ==
  /\ pc[r] \in {"idle", "waiting"}
  /\ pc' = [pc EXCEPT ![r] = "waiting"]
  /\ \E rec, set, j, a :
       /\ GoesOn(r, rec, set, j, a)
       /\ run' = [run EXCEPT ![r] = rec]
       /\ candidates' = [candidates EXCEPT ![r] = set]
       /\ pos' = [pos EXCEPT ![r] = j]
       /\ attempt' = [attempt EXCEPT ![r] = a]
  /\ UNCHANGED <<cache, runs, audit, result>>

-----------------------------------------------------------------------------
(* Each handler moves its call in one of these two ways.                   *)

LEMMA DegradeEnds ==
  ASSUME GatewayInv, NEW r \in Requests, NEW rec, Failed(r, rec),
         pc[r] \in {"idle", "waiting"}, Degrade(r, rec)
  PROVE  Ends(r)
<1> DEFINE last == InState(Failing(rec), "FAILED")
<1>1. /\ last \in LLMRunRecord
      /\ last.req = r /\ last.task = run[r].task /\ last.prompt = run[r].prompt
      /\ last.ids = run[r].ids
      /\ last.state = "FAILED"
      /\ last.selected = "none"
      /\ last.attempted = rec.attempted
      /\ last.fails = Len(rec.attempted) + 1
  BY FailingRecord, InStateRecord DEF Failed
<1>2. Accounted(last)
  BY <1>1 DEF Accounted
<1>3. EndsWith(r, last, NoData, cache)
  BY <1>1, <1>2 DEF EndsWith
<1>4. Commit(r, last, NoData, cache)
  BY DEF Degrade
<1> QED BY <1>3, <1>4 DEF Ends

LEMMA NextRouteMoves ==
  ASSUME GatewayInv, NEW r \in Requests, NEW rec, Failed(r, rec),
         pc[r] = "waiting", NextRoute(r, rec)
  PROVE  Ends(r) \/ Goes(r)
<1>1. CASE Later(r) = {} /\ Degrade(r, rec)
  BY <1>1, DegradeEnds
<1>2. CASE /\ Later(r) # {}
           /\ Try(r, First(Later(r)), rec)
           /\ UNCHANGED <<cache, runs, audit, pc, candidates, result>>
  <2> DEFINE j == First(Later(r))
             next == Attempting(rec, PolicyOf(r).routes[j])
  <2>1. run[r] \in LLMRunRecord /\ run[r].task \in Tasks
    BY DEF GatewayInv, TypeOK, CallsTypeOK, LLMRunRecord
  <2>2. candidates[r] \subseteq DOMAIN PolicyOf(r).routes
    BY DEF GatewayInv, TypeOK, CallOK
  <2>3. Later(r) \subseteq candidates[r] /\ Later(r) \subseteq Nat
    BY <2>1, <2>2, PolicyPositions DEF Later, PolicyOf
  <2>4. j \in candidates[r] /\ PolicyOf(r).routes[j] \in Routes
    BY <1>2, <2>1, <2>2, <2>3, FirstIsLeast, PolicyPositions DEF PolicyOf
  <2>5. GoesOn(r, next, candidates[r], j, 0)
    <3>1. rec.attempted \in Seq(Routes) /\ rec.fails \in Nat
      BY DEF Failed, LLMRunRecord
    <3>2. /\ next \in LLMRunRecord
          /\ next.attempted = Append(rec.attempted, PolicyOf(r).routes[j])
          /\ next.fails = rec.fails
          /\ next.req = r /\ next.task = run[r].task /\ next.prompt = run[r].prompt
          /\ next.ids = run[r].ids
          /\ next.selected = "none"
      BY <2>4, AttemptingRecord DEF Failed
    <3>3. /\ Len(next.attempted) = Len(rec.attempted) + 1
          /\ next.attempted[Len(rec.attempted) + 1] = PolicyOf(r).routes[j]
      BY <3>1, <3>2, <2>4, AppendProperties
    <3>4. 0 <= PolicyOf(r).maxRetries
      BY <2>1, PolicyPositions DEF PolicyOf
    <3> QED BY <2>2, <2>4, <3>2, <3>3, <3>4 DEF GoesOn, Failed
  <2>6. /\ run' = [run EXCEPT ![r] = next]
        /\ pos' = [pos EXCEPT ![r] = j]
        /\ attempt' = [attempt EXCEPT ![r] = 0]
    BY <1>2 DEF Try
  <2>7. /\ pc' = [pc EXCEPT ![r] = "waiting"]
        /\ candidates' = [candidates EXCEPT ![r] = candidates[r]]
        /\ UNCHANGED <<cache, runs, audit, result>>
    BY <1>2 DEF GatewayInv, TypeOK, CallsTypeOK
  <2> QED BY <2>5, <2>6, <2>7 DEF Goes
<1> QED BY <1>1, <1>2 DEF NextRoute

LEMMA RetryGoes ==
  ASSUME GatewayInv, NEW r \in Requests, NEW rec, Failed(r, rec), NEW kind,
         pc[r] = "waiting", MayRetry(r, kind), Retry(r, rec)
  PROVE  Goes(r)
<1> DEFINE next == Attempting(rec, RouteOf(r))
<1>1. run[r] \in LLMRunRecord /\ run[r].task \in Tasks
  BY DEF GatewayInv, TypeOK, CallsTypeOK, LLMRunRecord
<1>2. candidates[r] \subseteq DOMAIN PolicyOf(r).routes /\ pos[r] \in candidates[r]
  BY DEF GatewayInv, TypeOK, CallOK
<1>3. RouteOf(r) \in Routes
  BY <1>1, <1>2, PolicyPositions DEF RouteOf, PolicyOf
<1>4. rec.attempted \in Seq(Routes) /\ rec.fails \in Nat
  BY DEF Failed, LLMRunRecord
<1>5. /\ next \in LLMRunRecord
      /\ next.attempted = Append(rec.attempted, RouteOf(r))
      /\ next.fails = rec.fails
      /\ next.req = r /\ next.task = run[r].task /\ next.prompt = run[r].prompt
      /\ next.ids = run[r].ids
      /\ next.selected = "none"
  BY <1>3, AttemptingRecord DEF Failed
<1>6. /\ Len(next.attempted) = Len(rec.attempted) + 1
      /\ next.attempted[Len(rec.attempted) + 1] = RouteOf(r)
  BY <1>3, <1>4, <1>5, AppendProperties
<1>7. attempt[r] + 1 \in Nat /\ attempt[r] + 1 <= PolicyOf(r).maxRetries
  <2>1. attempt[r] \in Nat /\ PolicyOf(r).maxRetries \in Nat
    BY <1>1, PolicyPositions DEF GatewayInv, TypeOK, CallsTypeOK, PolicyOf
  <2> QED BY <2>1 DEF MayRetry
<1>8. GoesOn(r, next, candidates[r], pos[r], attempt[r] + 1)
  BY <1>2, <1>5, <1>6, <1>7 DEF GoesOn, Failed, RouteOf
<1>9. /\ pc' = [pc EXCEPT ![r] = "waiting"]
      /\ run' = [run EXCEPT ![r] = next]
      /\ candidates' = [candidates EXCEPT ![r] = candidates[r]]
      /\ pos' = [pos EXCEPT ![r] = pos[r]]
      /\ attempt' = [attempt EXCEPT ![r] = attempt[r] + 1]
      /\ UNCHANGED <<cache, runs, audit, result>>
  BY DEF Retry, GatewayInv, TypeOK, CallsTypeOK
<1> QED BY <1>8, <1>9 DEF Goes
\* What the failure paths hand on: r's record with the reason of the attempt
\* that just failed.
LEMMA WaitingFails ==
  ASSUME GatewayInv, NEW r \in Requests, pc[r] = "waiting"
  PROVE  /\ Failed(r, Failing(run[r]))
         /\ Failed(r, Retried(Failing(run[r])))
<1>1. /\ run[r] \in LLMRunRecord
      /\ run[r].req = r
      /\ run[r].selected = "none"
      /\ Len(run[r].attempted) = run[r].fails + 1
  BY DEF GatewayInv, TypeOK, CallsTypeOK, CallOK, InProgress, AuditAccounts
<1>2. /\ Failing(run[r]) \in LLMRunRecord
      /\ Failing(run[r]).attempted = run[r].attempted
      /\ Failing(run[r]).fails = run[r].fails + 1
      /\ Failing(run[r]).req = r
      /\ Failing(run[r]).task = run[r].task
      /\ Failing(run[r]).prompt = run[r].prompt /\ Failing(run[r]).ids = run[r].ids
      /\ Failing(run[r]).selected = "none"
  BY <1>1, FailingRecord
<1>3. /\ Retried(Failing(run[r])) \in LLMRunRecord
      /\ Retried(Failing(run[r])).attempted = run[r].attempted
      /\ Retried(Failing(run[r])).fails = run[r].fails + 1
      /\ Retried(Failing(run[r])).req = r
      /\ Retried(Failing(run[r])).task = run[r].task
      /\ Retried(Failing(run[r])).prompt = run[r].prompt
      /\ Retried(Failing(run[r])).ids = run[r].ids
      /\ Retried(Failing(run[r])).selected = "none"
  BY <1>2, RetriedRecord
<1> QED BY <1>1, <1>2, <1>3 DEF Failed

LEMMA CacheHitEnds ==
  ASSUME GatewayInv, NEW r \in Requests, CacheHit(r)
  PROVE  Ends(r)
<1> DEFINE rec == InState(Selecting(run[r], "cache"), "VALIDATED")
<1>1. /\ run[r] \in LLMRunRecord
      /\ run[r].task \in Tasks /\ run[r].prompt \in Prompts
      /\ run[r].req = r
      /\ pc[r] = "idle"
      /\ run[r].attempted = << >> /\ run[r].fails = 0
  BY DEF GatewayInv, TypeOK, CallsTypeOK, CallOK, InProgress, LLMRunRecord, CacheHit
<1>2. /\ rec \in LLMRunRecord
      /\ rec.req = r /\ rec.task = run[r].task /\ rec.prompt = run[r].prompt
      /\ rec.ids = run[r].ids
      /\ rec.state = "VALIDATED" /\ rec.selected = "cache"
      /\ rec.attempted = << >> /\ rec.fails = 0
  BY <1>1, ValidatedRecord
<1>3. Accounted(rec)
  BY <1>2 DEF Accounted
<1>4. /\ Cached(r) = cache[<<run[r].task, run[r].prompt>>]
      /\ Cached(r) # NoData
      /\ Cached(r) \in Data \cup {NoData}
  BY <1>1 DEF CacheHit, Cached, CacheKey, GatewayInv, TypeOK, CallsTypeOK
<1>5. EndsWith(r, rec, Cached(r), cache)
  BY <1>2, <1>3, <1>4 DEF EndsWith, Repeated
<1> QED BY <1>1, <1>5 DEF CacheHit, Ends

LEMMA NoRouteEnds ==
  ASSUME GatewayInv, NEW r \in Requests, NoRoute(r)
  PROVE  Ends(r)
<1>1. Failed(r, run[r])
  BY EmptySeq DEF GatewayInv, TypeOK, CallsTypeOK, CallOK, InProgress, NoRoute, Failed
<1> QED BY <1>1, DegradeEnds DEF NoRoute

LEMMA RouteGoes ==
  ASSUME GatewayInv, NEW r \in Requests, Route(r)
  PROVE  Goes(r)
<1> DEFINE set == Eligible(run[r].task)
           j == First(set)
           next == Attempting(run[r], PolicyOf(r).routes[j])
<1>1. /\ run[r] \in LLMRunRecord /\ run[r].task \in Tasks
      /\ run[r].req = r
      /\ pc[r] = "idle" /\ run[r].selected = "none"
      /\ run[r].attempted = << >> /\ run[r].fails = 0
  BY DEF GatewayInv, TypeOK, CallsTypeOK, CallOK, InProgress, LLMRunRecord, Route
<1>2. set \subseteq DOMAIN PolicyOf(r).routes /\ set \subseteq Nat /\ set # {}
  BY <1>1, EligiblePositions, PolicyPositions DEF Route, PolicyOf
<1>3. j \in set /\ PolicyOf(r).routes[j] \in Routes /\ 0 <= PolicyOf(r).maxRetries
  BY <1>1, <1>2, FirstIsLeast, PolicyPositions DEF PolicyOf
<1>4. /\ next \in LLMRunRecord
      /\ next.attempted = Append(<< >>, PolicyOf(r).routes[j])
      /\ next.fails = 0
      /\ next.req = r /\ next.task = run[r].task /\ next.prompt = run[r].prompt
      /\ next.ids = run[r].ids
      /\ next.selected = "none"
  BY <1>1, <1>3, AttemptingRecord
<1>5. Len(next.attempted) = 1 /\ next.attempted[1] = PolicyOf(r).routes[j]
  BY <1>3, <1>4, EmptySeq, AppendProperties
<1>6. GoesOn(r, next, set, j, 0)
  BY <1>2, <1>3, <1>4, <1>5 DEF GoesOn
<1> QED BY <1>1, <1>6 DEF Route, Try, Goes

LEMMA ValidatesEnds ==
  ASSUME GatewayInv, NEW r \in Requests, Validates(r)
  PROVE  Ends(r)
<1> DEFINE rec == InState(Selecting(run[r], RouteOf(r)), "VALIDATED")
           written(cites) == [route |-> RouteOf(r), cites |-> cites]
           after(cites) == IF PolicyOf(r).cacheable
                             THEN [cache EXCEPT ![CacheKey(r)] = written(cites)] ELSE cache
<1>1. PICK cites \in SUBSET Ids :
        /\ cites \subseteq run[r].ids
        /\ Commit(r, rec, written(cites), after(cites))
  BY DEF Validates, CitesKnown
<1>2. /\ run[r] \in LLMRunRecord /\ run[r].task \in Tasks
      /\ run[r].req = r
      /\ pc[r] = "waiting" /\ pos[r] \in DOMAIN PolicyOf(r).routes
      /\ Len(run[r].attempted) = run[r].fails + 1
      /\ run[r].attempted[Len(run[r].attempted)] = RouteOf(r)
  BY DEF GatewayInv, TypeOK, CallsTypeOK, CallOK, AuditAccounts, LLMRunRecord, Validates
<1>3. RouteOf(r) \in Routes
  BY <1>2, PolicyPositions DEF RouteOf, PolicyOf
<1>4. /\ rec \in LLMRunRecord
      /\ rec.req = r /\ rec.task = run[r].task /\ rec.prompt = run[r].prompt
      /\ rec.ids = run[r].ids
      /\ rec.state = "VALIDATED" /\ rec.selected = RouteOf(r)
      /\ rec.attempted = run[r].attempted /\ rec.fails = run[r].fails
  BY <1>2, <1>3, ValidatedRecord
<1>5. RouteOf(r) # "cache"
  BY <1>3, GatewayAssumption
<1>6. Accounted(rec)
  BY <1>2, <1>4, <1>5 DEF Accounted
<1>7. /\ written(cites) \in Data
      /\ written(cites) # NoData
      /\ written(cites).route = RouteOf(r) /\ written(cites).cites = cites
  BY <1>3, GatewayAssumption DEF Data
<1>8. Written(rec, written(cites))
  BY <1>1, <1>4, <1>7 DEF Written
<1>9. EndsWith(r, rec, written(cites), after(cites))
  BY <1>4, <1>6, <1>7, <1>8 DEF EndsWith, PolicyOf, CacheKey
<1> QED BY <1>1, <1>2, <1>9 DEF Ends

\* Every step of a call either ends it or makes one more attempt.
LEMMA CallStep ==
  ASSUME GatewayInv, NEW r \in Requests,
         CacheHit(r) \/ NoRoute(r) \/ Route(r) \/ Reply(r)
  PROVE  Ends(r) \/ Goes(r)
<1>1. ASSUME NEW kind, ProviderFails(r, kind) PROVE Ends(r) \/ Goes(r)
  BY <1>1, WaitingFails, RetryGoes, NextRouteMoves DEF ProviderFails
<1>2. CASE Malformed(r)
  BY <1>2, WaitingFails, RetryGoes, NextRouteMoves DEF Malformed
<1>3. CASE InventsCitation(r)
  BY <1>3, WaitingFails, NextRouteMoves DEF InventsCitation
<1> QED BY <1>1, <1>2, <1>3, CacheHitEnds, NoRouteEnds, RouteGoes, ValidatesEnds
        DEF Reply, TimesOut, Errors
-----------------------------------------------------------------------------
(* The invariant is kept by both kinds of step.                            *)

LEMMA AppendDomain ==
  ASSUME NEW S, NEW seq \in Seq(S), NEW e \in S
  PROVE  /\ Append(seq, e) \in Seq(S)
         /\ Len(seq) \in Nat
         /\ \A i \in DOMAIN seq : i \in DOMAIN Append(seq, e) /\ Append(seq, e)[i] = seq[i]
         /\ Len(seq) + 1 \in DOMAIN Append(seq, e)
         /\ Len(seq) + 1 \notin DOMAIN seq
         /\ Append(seq, e)[Len(seq) + 1] = e
         /\ \A i \in DOMAIN Append(seq, e) : i \in DOMAIN seq \/ i = Len(seq) + 1
<1>1. /\ Append(seq, e) \in Seq(S)
      /\ Len(Append(seq, e)) = Len(seq) + 1
      /\ \A i \in 1..Len(seq) : Append(seq, e)[i] = seq[i]
      /\ Append(seq, e)[Len(seq) + 1] = e
  BY AppendProperties
<1>2. Len(seq) \in Nat /\ DOMAIN seq = 1..Len(seq)
  BY LenProperties
<1>3. DOMAIN Append(seq, e) = 1..(Len(seq) + 1)
  BY <1>1, LenProperties
<1> QED BY <1>1, <1>2, <1>3

LEMMA SeqElements ==
  ASSUME NEW S, NEW seq \in Seq(S)
  PROVE  \A i \in DOMAIN seq : seq[i] \in S
BY ElementOfSeq, LenProperties

\* A line that vouches for an answer stays in the file.
LEMMA VouchedStays ==
  ASSUME NEW t, NEW p, NEW d, Vouched(t, p, d),
         \A i \in DOMAIN audit : i \in DOMAIN audit' /\ audit'[i] = audit[i]
  PROVE  Vouched(t, p, d)'
BY DEF Vouched

\* A call that has not ended is in no file and no list.
LEMMA NotRecordedYet ==
  ASSUME GatewayInv, NEW r \in Requests, pc[r] \in {"idle", "waiting"}
  PROVE  /\ \A i \in DOMAIN audit : audit[i] \in LLMRunRecord
                                     /\ audit[i].req \in Requests \ {r}
         /\ \A i \in DOMAIN runs : runs[i] \in LLMRunRecord
                                    /\ runs[i].req \in Requests \ {r}
<1>1. audit \in Seq(LLMRunRecord) /\ runs \in Seq(LLMRunRecord)
  BY DEF GatewayInv, TypeOK, CallsTypeOK
<1>2. \A i \in DOMAIN audit : audit[i] \in LLMRunRecord
  BY <1>1, SeqElements
<1>3. \A i \in DOMAIN runs : runs[i] \in LLMRunRecord
  BY <1>1, SeqElements
<1>4. \A rec \in LLMRunRecord : rec.req \in Requests
  BY DEF LLMRunRecord
<1>5. /\ \A i \in DOMAIN audit : pc[audit[i].req] = "done"
      /\ \A i \in DOMAIN runs : pc[runs[i].req] \in {"done", "raised"}
  BY DEF GatewayInv, OneRunPerCall
<1>6. pc[r] # "done" /\ pc[r] # "raised"
  OBVIOUS
<1> QED BY <1>2, <1>3, <1>4, <1>5, <1>6

\* A call that goes on keeps the invariant: it is the only one to move, and
\* neither a file, the cache nor a result changes.
LEMMA GoesKeepsInv ==
  ASSUME GatewayInv, NEW r \in Requests, Goes(r)
  PROVE  /\ CallsTypeOK' /\ \A q \in Requests : CallOK(q)'
         /\ AnswersGrounded' /\ OneRunPerCall' /\ AuditAccounts'
         /\ \A q \in Requests : InProgress(q)'
<1>1. PICK rec, set, j, a :
        /\ GoesOn(r, rec, set, j, a)
        /\ run' = [run EXCEPT ![r] = rec]
        /\ candidates' = [candidates EXCEPT ![r] = set]
        /\ pos' = [pos EXCEPT ![r] = j]
        /\ attempt' = [attempt EXCEPT ![r] = a]
  BY DEF Goes
<1>2. /\ pc[r] \in {"idle", "waiting"}
      /\ pc' = [pc EXCEPT ![r] = "waiting"]
      /\ UNCHANGED <<cache, runs, audit, result>>
  BY DEF Goes
<1>3. CallsTypeOK /\ \A q \in Requests : CallOK(q)
  BY DEF GatewayInv, TypeOK
<1>4. /\ rec \in LLMRunRecord
      /\ rec.req = r /\ rec.task = run[r].task /\ rec.prompt = run[r].prompt
      /\ rec.ids = run[r].ids
      /\ rec.selected = "none"
      /\ set \subseteq DOMAIN PolicyOf(r).routes /\ j \in set
      /\ a \in Nat /\ a <= PolicyOf(r).maxRetries
      /\ Len(rec.attempted) = rec.fails + 1
      /\ rec.attempted[Len(rec.attempted)] = PolicyOf(r).routes[j]
  BY <1>1 DEF GoesOn
<1>5. run[r].task \in Tasks /\ set \subseteq Nat /\ j \in Nat
  BY <1>3, <1>4, PolicyPositions DEF CallsTypeOK, LLMRunRecord, PolicyOf
<1>6. /\ run'[r] = rec /\ candidates'[r] = set /\ pos'[r] = j /\ attempt'[r] = a
      /\ pc'[r] = "waiting"
      /\ \A q \in Requests \ {r} :
           /\ run'[q] = run[q] /\ candidates'[q] = candidates[q] /\ pos'[q] = pos[q]
           /\ attempt'[q] = attempt[q] /\ pc'[q] = pc[q]
  BY <1>1, <1>2, <1>3 DEF CallsTypeOK
<1>7. \A q \in Requests : run'[q].task = run[q].task /\ run'[q].prompt = run[q].prompt
          /\ run'[q].ids = run[q].ids
  BY <1>4, <1>6
<1>8. \A q \in Requests : PolicyOf(q)' = PolicyOf(q)
  BY <1>7 DEF PolicyOf
<1>9. CallsTypeOK'
  BY <1>1, <1>2, <1>3, <1>4, <1>5 DEF CallsTypeOK
<1>10. ASSUME NEW q \in Requests PROVE CallOK(q)'
  BY <1>3, <1>4, <1>6, <1>8 DEF CallOK
<1>11. AnswersGrounded'
  <2>1. AnswersGrounded /\ result[r] = NoData
    BY <1>2 DEF GatewayInv, OneRunPerCall
  <2>2. ASSUME NEW q \in Requests, result'[q] # NoData
        PROVE  /\ Vouched(run[q].task, run[q].prompt, result[q])'
               /\ run'[q].selected # "cache" => result'[q].cites \subseteq run'[q].ids
    <3>1. q # r /\ result'[q] = result[q] /\ run'[q] = run[q]
      BY <1>2, <1>6, <2>1, <2>2
    <3> QED BY <1>2, <2>1, <2>2, <3>1 DEF AnswersGrounded, Vouched
  <2> QED BY <1>2, <2>1, <2>2 DEF AnswersGrounded, Vouched
<1>12. OneRunPerCall'
  <2>1. OneRunPerCall
    BY DEF GatewayInv
  <2>2. /\ \A i \in DOMAIN audit : audit[i].req \in Requests \ {r}
        /\ \A i \in DOMAIN runs : runs[i].req \in Requests \ {r}
    BY <1>2, NotRecordedYet
  <2>3. \A q \in Requests : pc'[q] = "done" => q # r
    BY <1>6
  <2> QED BY <1>2, <1>6, <2>1, <2>2, <2>3 DEF OneRunPerCall
<1>13. AuditAccounts'
  <2>1. AuditAccounts
    BY DEF GatewayInv
  <2>2. ASSUME NEW i \in DOMAIN audit' PROVE Accounted(audit[i])'
    BY <1>2, <2>1 DEF AuditAccounts, Accounted
  <2>3. RouteOf(r)' = PolicyOf(r).routes[j]
    BY <1>6, <1>8 DEF RouteOf
  <2>4. \A q \in Requests \ {r} : RouteOf(q)' = RouteOf(q)
    BY <1>6, <1>8 DEF RouteOf
  <2>5. ASSUME NEW q \in Requests, pc'[q] = "waiting"
        PROVE  /\ Len(run'[q].attempted) = run'[q].fails + 1
               /\ run'[q].attempted[Len(run'[q].attempted)] = RouteOf(q)'
    BY <1>4, <1>6, <2>1, <2>3, <2>4, <2>5 DEF AuditAccounts
  <2> QED BY <2>2, <2>5 DEF AuditAccounts
<1>14. ASSUME NEW q \in Requests PROVE InProgress(q)'
  BY <1>4, <1>6 DEF GatewayInv, InProgress
<1> QED BY <1>9, <1>10, <1>11, <1>12, <1>13, <1>14
\* A call that ends keeps the invariant, whether the audit write succeeds
\* (<1>10) or raises (<1>11): either everything is recorded or nothing is.
LEMMA EndsKeepsInv ==
  ASSUME GatewayInv, NEW r \in Requests, Ends(r)
  PROVE  /\ CallsTypeOK' /\ \A q \in Requests : CallOK(q)'
         /\ AnswersGrounded' /\ OneRunPerCall' /\ AuditAccounts'
         /\ \A q \in Requests : InProgress(q)'
<1>1. PICK rec, data, after : EndsWith(r, rec, data, after) /\ Commit(r, rec, data, after)
  BY DEF Ends
<1>2. /\ rec \in LLMRunRecord
      /\ rec.req = r /\ rec.task = run[r].task /\ rec.prompt = run[r].prompt
      /\ rec.ids = run[r].ids
      /\ Accounted(rec)
      /\ data \in Data \cup {NoData}
      /\ rec.state = "VALIDATED" <=> data # NoData
      /\ data # NoData => Written(rec, data) \/ Repeated(rec, data)
      /\ rec.task \in Tasks /\ rec.prompt \in Prompts
  BY <1>1 DEF EndsWith, LLMRunRecord
<1>3. /\ after \in CacheType
      /\ \A k \in Tasks \X Prompts : after[k] # cache[k] =>
           /\ k = <<rec.task, rec.prompt>> /\ after[k] = data /\ data # NoData
           /\ Policy[rec.task].cacheable
           /\ Written(rec, data)
  <2>1. cache \in CacheType
    BY DEF GatewayInv, TypeOK, CallsTypeOK, CacheType
  <2> QED BY <1>1, <1>2, <2>1 DEF EndsWith, CacheType
<1>4. CallsTypeOK /\ \A q \in Requests : CallOK(q)
  BY DEF GatewayInv, TypeOK
<1>5. pc[r] \in {"idle", "waiting"}
  BY DEF Ends
<1>6. /\ runs' = Append(runs, rec)
      /\ run' = [run EXCEPT ![r] = rec]
      /\ candidates' = [candidates EXCEPT ![r] = {}]
      /\ pos' = [pos EXCEPT ![r] = 0]
      /\ attempt' = [attempt EXCEPT ![r] = 0]
  BY <1>1 DEF Commit, Forget
<1>7. /\ run'[r] = rec /\ candidates'[r] = {} /\ pos'[r] = 0 /\ attempt'[r] = 0
      /\ \A q \in Requests \ {r} :
           /\ run'[q] = run[q] /\ candidates'[q] = candidates[q]
           /\ pos'[q] = pos[q] /\ attempt'[q] = attempt[q]
  BY <1>4, <1>6 DEF CallsTypeOK
<1>8. /\ \A q \in Requests : run'[q].task = run[q].task /\ run'[q].prompt = run[q].prompt
             /\ run'[q].ids = run[q].ids
      /\ \A q \in Requests : PolicyOf(q)' = PolicyOf(q)
  <2>1. \A q \in Requests : run'[q].task = run[q].task /\ run'[q].prompt = run[q].prompt
            /\ run'[q].ids = run[q].ids
    BY <1>2, <1>7
  <2> QED BY <2>1 DEF PolicyOf
<1>9. /\ runs \in Seq(LLMRunRecord) /\ audit \in Seq(LLMRunRecord)
      /\ runs' \in Seq(LLMRunRecord)
      /\ \A i \in DOMAIN runs : runs[i].req \in Requests \ {r}
      /\ \A i \in DOMAIN audit : audit[i].req \in Requests \ {r}
      /\ \A i \in DOMAIN runs' : \/ i \in DOMAIN runs /\ runs'[i] = runs[i]
                                 \/ i = Len(runs) + 1 /\ runs'[i] = rec
  BY <1>2, <1>4, <1>5, <1>6, AppendDomain, NotRecordedYet DEF CallsTypeOK
<1> DEFINE Kept ==
             /\ CallsTypeOK' /\ \A q \in Requests : CallOK(q)'
             /\ AnswersGrounded' /\ OneRunPerCall' /\ AuditAccounts'
             /\ \A q \in Requests : InProgress(q)'
<1>10. CASE /\ audit' = Append(audit, rec)
            /\ pc' = [pc EXCEPT ![r] = "done"]
            /\ result' = [result EXCEPT ![r] = data]
            /\ cache' = after
  <2>1. /\ pc'[r] = "done" /\ result'[r] = data
        /\ \A q \in Requests \ {r} : pc'[q] = pc[q] /\ result'[q] = result[q]
    BY <1>4, <1>10 DEF CallsTypeOK
  <2>2. /\ audit' \in Seq(LLMRunRecord)
        /\ \A i \in DOMAIN audit : i \in DOMAIN audit' /\ audit'[i] = audit[i]
        /\ \E i \in DOMAIN audit' : audit'[i] = rec
        /\ \A i \in DOMAIN audit' : \/ i \in DOMAIN audit /\ audit'[i] = audit[i]
                                    \/ i = Len(audit) + 1 /\ audit'[i] = rec
    BY <1>2, <1>9, <1>10, AppendDomain
  <2>3. CallsTypeOK'
    BY <1>2, <1>3, <1>4, <1>6, <1>9, <1>10, <2>2 DEF CallsTypeOK, CacheType
  <2>4. ASSUME NEW q \in Requests PROVE CallOK(q)'
    <3>1. PolicyOf(q).maxRetries \in Nat
      BY <1>4, PolicyPositions DEF PolicyOf, CallsTypeOK, LLMRunRecord
    <3> QED BY <1>2, <1>4, <1>7, <1>8, <2>1, <3>1 DEF CallOK
  <2>5. AnswersGrounded'
    <3>1. AnswersGrounded
      BY DEF GatewayInv
    <3>2. ASSUME NEW t \in Tasks, NEW p \in Prompts, NEW d, Vouched(t, p, d)
          PROVE  Vouched(t, p, d)'
      BY <2>2, <3>2, VouchedStays
    <3>3. ASSUME Written(rec, data), data # NoData
          PROVE  Vouched(rec.task, rec.prompt, data)'
      BY <1>2, <2>2, <3>3 DEF Written, Vouched
    <3>4. ASSUME NEW q \in Requests, result'[q] # NoData
          PROVE  /\ Vouched(run[q].task, run[q].prompt, result[q])'
                 /\ run'[q].selected # "cache" => result'[q].cites \subseteq run'[q].ids
      <4>1. CASE q = r
        <5>1. run'[q] = rec /\ result'[q] = data /\ data # NoData
          BY <1>7, <2>1, <3>4, <4>1
        <5>2. CASE Written(rec, data)
          <6>1. Vouched(rec.task, rec.prompt, data)'
            BY <3>3, <5>1, <5>2
          <6> QED BY <5>1, <5>2, <6>1 DEF Written, Vouched
        <5>3. CASE Repeated(rec, data)
          <6>1. Vouched(rec.task, rec.prompt, data)
            BY <1>2, <3>1, <5>1, <5>3 DEF Repeated, AnswersGrounded
          <6>2. Vouched(rec.task, rec.prompt, data)'
            BY <1>2, <3>2, <6>1
          <6> QED BY <5>1, <5>3, <6>2 DEF Repeated, Vouched
        <5> QED BY <1>2, <5>1, <5>2, <5>3
      <4>2. CASE q # r
        <5>1. run'[q] = run[q] /\ result'[q] = result[q]
          BY <1>7, <2>1, <4>2
        <5>2. run[q].task \in Tasks /\ run[q].prompt \in Prompts
          BY <1>4 DEF CallsTypeOK, LLMRunRecord
        <5>3. Vouched(run[q].task, run[q].prompt, result[q])
          BY <3>1, <3>4, <5>1 DEF AnswersGrounded
        <5>4. \A i \in DOMAIN audit : i \in DOMAIN audit' /\ audit'[i] = audit[i]
          BY <2>2
        <5> QED BY <3>1, <3>4, <5>1, <5>3, <5>4 DEF AnswersGrounded, Vouched
      <4> QED BY <4>1, <4>2
    <3>5. ASSUME NEW t \in Tasks, NEW p \in Prompts, cache'[<<t, p>>] # NoData
          PROVE  Policy[t].cacheable /\ Vouched(t, p, cache[<<t, p>>])'
      <4>1. CASE cache'[<<t, p>>] = cache[<<t, p>>]
        <5>1. Policy[t].cacheable /\ Vouched(t, p, cache[<<t, p>>])
          BY <3>1, <3>5, <4>1 DEF AnswersGrounded
        <5> QED BY <2>2, <4>1, <5>1 DEF Vouched
      <4>2. CASE cache'[<<t, p>>] # cache[<<t, p>>]
        <5>1. /\ t = rec.task /\ p = rec.prompt
              /\ cache'[<<t, p>>] = data /\ data # NoData
              /\ Policy[t].cacheable /\ Written(rec, data)
          BY <1>3, <1>10, <4>2
        <5>2. Vouched(rec.task, rec.prompt, data)'
          BY <3>3, <5>1
        <5> QED BY <5>1, <5>2 DEF Vouched
      <4> QED BY <4>1, <4>2
    <3> QED BY <3>4, <3>5 DEF AnswersGrounded
  <2>6. OneRunPerCall'
    <3>1. OneRunPerCall
      BY DEF GatewayInv
    <3>2. ASSUME NEW i \in DOMAIN audit'
          PROVE  /\ pc'[audit'[i].req] = "done"
                 /\ audit'[i] = run'[audit'[i].req]
                 /\ \A k \in DOMAIN audit' : audit'[i].req = audit'[k].req => i = k
      <4>1. CASE i \in DOMAIN audit /\ audit'[i] = audit[i]
        <5>1. /\ pc[audit[i].req] = "done" /\ audit[i] = run[audit[i].req]
              /\ \A k \in DOMAIN audit : audit[i].req = audit[k].req => i = k
          BY <3>1, <4>1 DEF OneRunPerCall
        <5>2. audit[i].req \in Requests \ {r}
          BY <1>9, <4>1
        <5>3. ASSUME NEW k \in DOMAIN audit', audit'[i].req = audit'[k].req PROVE i = k
          BY <1>2, <2>2, <4>1, <5>1, <5>2, <5>3
        <5> QED BY <1>7, <2>1, <4>1, <5>1, <5>2, <5>3
      <4>2. CASE i = Len(audit) + 1 /\ audit'[i] = rec
        <5>1. ASSUME NEW k \in DOMAIN audit', audit'[i].req = audit'[k].req PROVE i = k
          BY <1>2, <1>9, <2>2, <4>2, <5>1
        <5> QED BY <1>2, <1>7, <2>1, <4>2, <5>1
      <4> QED BY <2>2, <4>1, <4>2
    <3>3. ASSUME NEW q \in Requests, pc'[q] = "done"
          PROVE  /\ \E i \in DOMAIN audit' : audit'[i].req = q
                 /\ run'[q].state = "VALIDATED" <=> result'[q] # NoData
      BY <1>2, <1>7, <2>1, <2>2, <3>1, <3>3 DEF OneRunPerCall
    <3>4. ASSUME NEW q \in Requests, pc'[q] # "done" PROVE result'[q] = NoData
      BY <2>1, <3>1, <3>4 DEF OneRunPerCall
    <3>5. ASSUME NEW i \in DOMAIN runs'
          PROVE  /\ pc'[runs'[i].req] \in {"done", "raised"}
                 /\ \A k \in DOMAIN runs' : runs'[i].req = runs'[k].req => i = k
      <4>1. CASE i \in DOMAIN runs /\ runs'[i] = runs[i]
        <5>1. /\ pc[runs[i].req] \in {"done", "raised"}
              /\ \A k \in DOMAIN runs : runs[i].req = runs[k].req => i = k
          BY <3>1, <4>1 DEF OneRunPerCall
        <5>2. runs[i].req \in Requests \ {r}
          BY <1>9, <4>1
        <5>3. ASSUME NEW k \in DOMAIN runs', runs'[i].req = runs'[k].req PROVE i = k
          BY <1>2, <1>9, <4>1, <5>1, <5>2, <5>3
        <5> QED BY <2>1, <4>1, <5>1, <5>2, <5>3
      <4>2. CASE i = Len(runs) + 1 /\ runs'[i] = rec
        <5>1. ASSUME NEW k \in DOMAIN runs', runs'[i].req = runs'[k].req PROVE i = k
          BY <1>2, <1>9, <4>2, <5>1
        <5> QED BY <1>2, <2>1, <4>2, <5>1
      <4> QED BY <1>9, <4>1, <4>2
    <3> QED BY <3>2, <3>3, <3>4, <3>5 DEF OneRunPerCall
  <2>7. AuditAccounts'
    <3>1. AuditAccounts
      BY DEF GatewayInv
    <3>2. ASSUME NEW i \in DOMAIN audit' PROVE Accounted(audit'[i])
      BY <1>2, <2>2, <3>1 DEF AuditAccounts
    <3>3. \A q \in Requests \ {r} : RouteOf(q)' = RouteOf(q)
      BY <1>7, <1>8 DEF RouteOf
    <3>4. ASSUME NEW q \in Requests, pc'[q] = "waiting"
          PROVE  /\ Len(run'[q].attempted) = run'[q].fails + 1
                 /\ run'[q].attempted[Len(run'[q].attempted)] = RouteOf(q)'
      BY <1>7, <2>1, <3>1, <3>3, <3>4 DEF AuditAccounts
    <3> QED BY <3>2, <3>4 DEF AuditAccounts, Accounted
  <2>8. ASSUME NEW q \in Requests PROVE InProgress(q)'
    BY <1>7, <2>1 DEF GatewayInv, InProgress
  <2> QED BY <2>3, <2>4, <2>5, <2>6, <2>7, <2>8
<1>11. CASE /\ pc' = [pc EXCEPT ![r] = "raised"]
            /\ UNCHANGED <<audit, result, cache>>
  <2>1. /\ pc'[r] = "raised"
        /\ \A q \in Requests \ {r} : pc'[q] = pc[q]
    BY <1>4, <1>11 DEF CallsTypeOK
  <2>2. CallsTypeOK'
    BY <1>2, <1>4, <1>6, <1>9, <1>11 DEF CallsTypeOK
  <2>3. ASSUME NEW q \in Requests PROVE CallOK(q)'
    <3>1. PolicyOf(q).maxRetries \in Nat
      BY <1>4, PolicyPositions DEF PolicyOf, CallsTypeOK, LLMRunRecord
    <3> QED BY <1>2, <1>4, <1>7, <1>8, <2>1, <3>1 DEF CallOK
  <2>4. AnswersGrounded'
    <3>1. AnswersGrounded /\ result[r] = NoData
      BY <1>5 DEF GatewayInv, OneRunPerCall
    <3>2. ASSUME NEW q \in Requests, result'[q] # NoData
          PROVE  /\ Vouched(run[q].task, run[q].prompt, result[q])'
                 /\ run'[q].selected # "cache" => result'[q].cites \subseteq run'[q].ids
      <4>1. q # r /\ result'[q] = result[q] /\ run'[q] = run[q]
        BY <1>7, <1>11, <3>1, <3>2
      <4> QED BY <1>11, <3>1, <3>2, <4>1 DEF AnswersGrounded, Vouched
    <3> QED BY <1>11, <3>1, <3>2 DEF AnswersGrounded, Vouched
  <2>5. OneRunPerCall'
    <3>1. OneRunPerCall
      BY DEF GatewayInv
    <3>2. ASSUME NEW i \in DOMAIN audit'
          PROVE  /\ pc'[audit'[i].req] = "done"
                 /\ audit'[i] = run'[audit'[i].req]
                 /\ \A k \in DOMAIN audit' : audit'[i].req = audit'[k].req => i = k
      BY <1>7, <1>9, <1>11, <2>1, <3>1 DEF OneRunPerCall
    <3>3. ASSUME NEW q \in Requests, pc'[q] = "done"
          PROVE  /\ \E i \in DOMAIN audit' : audit'[i].req = q
                 /\ run'[q].state = "VALIDATED" <=> result'[q] # NoData
      BY <1>7, <1>11, <2>1, <3>1, <3>3 DEF OneRunPerCall
    <3>4. ASSUME NEW q \in Requests, pc'[q] # "done" PROVE result'[q] = NoData
      BY <1>5, <1>11, <2>1, <3>1, <3>4 DEF OneRunPerCall
    <3>5. ASSUME NEW i \in DOMAIN runs'
          PROVE  /\ pc'[runs'[i].req] \in {"done", "raised"}
                 /\ \A k \in DOMAIN runs' : runs'[i].req = runs'[k].req => i = k
      BY <1>2, <1>9, <2>1, <3>1 DEF OneRunPerCall
    <3> QED BY <3>2, <3>3, <3>4, <3>5 DEF OneRunPerCall
  <2>6. AuditAccounts'
    <3>1. AuditAccounts
      BY DEF GatewayInv
    <3>2. ASSUME NEW i \in DOMAIN audit' PROVE Accounted(audit'[i])
      BY <1>11, <3>1 DEF AuditAccounts
    <3>3. \A q \in Requests \ {r} : RouteOf(q)' = RouteOf(q)
      BY <1>7, <1>8 DEF RouteOf
    <3>4. ASSUME NEW q \in Requests, pc'[q] = "waiting"
          PROVE  /\ Len(run'[q].attempted) = run'[q].fails + 1
                 /\ run'[q].attempted[Len(run'[q].attempted)] = RouteOf(q)'
      BY <1>7, <2>1, <3>1, <3>3, <3>4 DEF AuditAccounts
    <3> QED BY <3>2, <3>4 DEF AuditAccounts, Accounted
  <2>7. ASSUME NEW q \in Requests PROVE InProgress(q)'
    BY <1>7, <2>1 DEF GatewayInv, InProgress
  <2> QED BY <2>2, <2>3, <2>4, <2>5, <2>6, <2>7
<1> QED BY <1>1, <1>10, <1>11 DEF Commit
-----------------------------------------------------------------------------
(* The breaker.                                                            *)

\* Whoever reports to it, the open set and the counters stay in step.
LEMMA BreakerReports ==
  ASSUME BreakerTypeOK, BreakerAgrees, NEW rt \in Routes,
         RecordFailure(rt) \/ RecordSuccess(rt) \/ UNCHANGED breaker
  PROVE  BreakerTypeOK' /\ BreakerAgrees'
<1>1. Threshold \in Nat \ {0}
  BY GatewayAssumption
<1>2. CASE RecordFailure(rt)
  BY <1>1, <1>2 DEF RecordFailure, BreakerTypeOK, BreakerAgrees
<1>3. CASE RecordSuccess(rt)
  BY <1>1, <1>3 DEF RecordSuccess, BreakerTypeOK, BreakerAgrees
<1>4. CASE UNCHANGED breaker
  BY <1>4 DEF breaker, BreakerTypeOK, BreakerAgrees
<1> QED BY <1>2, <1>3, <1>4

LEMMA CallStepBreaker ==
  ASSUME GatewayInv, NEW r \in Requests,
         CacheHit(r) \/ NoRoute(r) \/ Route(r) \/ Reply(r)
  PROVE  BreakerTypeOK' /\ BreakerAgrees' /\ UNCHANGED registry
<1>1. BreakerTypeOK /\ BreakerAgrees
  BY DEF GatewayInv, TypeOK
<1>2. CASE CacheHit(r) \/ NoRoute(r) \/ Route(r)
  <2>1. UNCHANGED breaker /\ UNCHANGED registry
    BY <1>2 DEF CacheHit, NoRoute, Route
  <2> QED BY <1>1, <2>1 DEF breaker, BreakerTypeOK, BreakerAgrees
<1>3. CASE Reply(r)
  <2>1. UNCHANGED registry /\ pc[r] = "waiting"
    BY <1>3 DEF Reply, TimesOut, Errors, ProviderFails, Malformed, Validates, InventsCitation
  <2>2. RouteOf(r) \in Routes
    <3>1. run[r].task \in Tasks
      BY DEF GatewayInv, TypeOK, CallsTypeOK, LLMRunRecord
    <3>2. pos[r] \in DOMAIN PolicyOf(r).routes
      BY <2>1 DEF GatewayInv, TypeOK, CallOK
    <3> QED BY <3>1, <3>2, PolicyPositions DEF RouteOf, PolicyOf
  <2>3. RecordFailure(RouteOf(r)) \/ RecordSuccess(RouteOf(r)) \/ UNCHANGED breaker
    BY <1>3 DEF Reply, TimesOut, Errors, ProviderFails, Malformed, Validates, InventsCitation
  <2> QED BY <1>1, <2>1, <2>2, <2>3, BreakerReports
<1> QED BY <1>2, <1>3

-----------------------------------------------------------------------------
(* The invariant holds in every reachable state.                           *)

LEMMA InitInv == Init => GatewayInv
<1> SUFFICES ASSUME Init PROVE GatewayInv
  OBVIOUS
<1>1. PICK ask \in [Requests -> Asks] :
        run = [r \in Requests |-> NewRun(r, ask[r][1], ask[r][2], ask[r][3])]
  BY DEF Init
<1>2. ASSUME NEW r \in Requests
      PROVE  /\ run[r] \in LLMRunRecord
             /\ run[r].req = r
             /\ run[r].attempted = << >> /\ run[r].fails = 0
             /\ run[r].selected = "none"
  <2>1. ask[r][1] \in Tasks /\ ask[r][2] \in Prompts /\ ask[r][3] \in SUBSET Ids
    BY GatewayAssumption
  <2> QED BY <1>1, <2>1, EmptySeq DEF NewRun, LLMRunRecord
<1>3. run \in [Requests -> LLMRunRecord]
  BY <1>1, <1>2
<1>4. registry \in [Routes -> RouteEntry] /\ Threshold \in Nat \ {0}
  BY GatewayAssumption DEF Init
<1>5. BreakerTypeOK /\ BreakerAgrees
  BY <1>4 DEF Init, BreakerTypeOK, BreakerAgrees
<1>6. CallsTypeOK
  BY <1>3, EmptySeq DEF Init, CallsTypeOK
<1>7. ASSUME NEW r \in Requests PROVE CallOK(r)
  <2>1. PolicyOf(r).maxRetries \in Nat
    BY <1>2, PolicyPositions DEF PolicyOf, LLMRunRecord
  <2> QED BY <1>2, <2>1 DEF Init, CallOK
<1>8. AnswersGrounded
  BY DEF Init, AnswersGrounded
<1>9. DOMAIN audit = {} /\ DOMAIN runs = {}
  BY DEF Init
<1>10. OneRunPerCall /\ AuditAccounts
  BY <1>9 DEF Init, OneRunPerCall, AuditAccounts
<1>11. \A r \in Requests : InProgress(r)
  BY <1>2 DEF InProgress
<1> QED BY <1>4, <1>5, <1>6, <1>7, <1>8, <1>10, <1>11 DEF GatewayInv, TypeOK

\* What the invariant says of calls and of the breaker does not look at the
\* registry: a step that moves nothing else keeps it.
LEMMA StillKeepsInv ==
  ASSUME GatewayInv,
         registry' \in [Routes -> RouteEntry],
         UNCHANGED <<failures, open>>,
         UNCHANGED <<cache, runs, audit, pc, run, candidates, pos, attempt, result>>
  PROVE  GatewayInv'
<1>1. BreakerTypeOK' /\ BreakerAgrees'
  BY DEF GatewayInv, TypeOK, BreakerTypeOK, BreakerAgrees
<1>2. CallsTypeOK'
  BY DEF GatewayInv, TypeOK, CallsTypeOK
<1>3. \A r \in Requests : PolicyOf(r)' = PolicyOf(r) /\ RouteOf(r)' = RouteOf(r)
  BY DEF PolicyOf, RouteOf
<1>4. ASSUME NEW r \in Requests PROVE CallOK(r)'
  BY <1>3 DEF GatewayInv, TypeOK, CallOK
<1>5. AnswersGrounded'
  BY DEF GatewayInv, AnswersGrounded, Vouched
<1>6. OneRunPerCall'
  BY DEF GatewayInv, OneRunPerCall
<1>7. AuditAccounts'
  BY <1>3 DEF GatewayInv, AuditAccounts, Accounted
<1>8. ASSUME NEW r \in Requests PROVE InProgress(r)'
  BY DEF GatewayInv, InProgress
<1> QED BY <1>1, <1>2, <1>4, <1>5, <1>6, <1>7, <1>8 DEF GatewayInv, TypeOK

LEMMA SetRouteKeepsInv ==
  ASSUME GatewayInv, NEW rt \in Routes, SetRoute(rt)
  PROVE  GatewayInv'
<1>1. registry' \in [Routes -> RouteEntry]
  BY GatewayAssumption DEF SetRoute, GatewayInv, TypeOK
<1>2. /\ UNCHANGED <<failures, open>>
      /\ UNCHANGED <<cache, runs, audit, pc, run, candidates, pos, attempt, result>>
  BY DEF SetRoute, breaker, locals
<1> QED BY <1>1, <1>2, StillKeepsInv

LEMMA RestartKeepsInv ==
  ASSUME GatewayInv, Restart
  PROVE  GatewayInv'
<1>1. TypeOK
  BY DEF GatewayInv
<1>2. ASSUME NEW r \in Requests
      PROVE  /\ run'[r] \in LLMRunRecord
             /\ run'[r].req = r /\ run'[r].task = run[r].task /\ run'[r].prompt = run[r].prompt
             /\ run'[r].ids = run[r].ids
             /\ pc[r] # "waiting" => run'[r] = run[r]
  <2>1. run[r] \in LLMRunRecord /\ run[r].req = r
    BY <1>1 DEF TypeOK, CallsTypeOK, CallOK
  <2>2. CASE pc[r] = "waiting"
    <3>1. run'[r] = NewRun(r, run[r].task, run[r].prompt, run[r].ids)
      BY <2>2 DEF Restart
    <3> QED BY <2>1, <2>2, <3>1, EmptySeq DEF NewRun, LLMRunRecord
  <2>3. CASE pc[r] # "waiting"
    BY <2>1, <2>3 DEF Restart
  <2> QED BY <2>2, <2>3
<1>3. ASSUME NEW r \in Requests
      PROVE  /\ pc'[r] # "waiting"
             /\ pc'[r] = "done" <=> pc[r] = "done"
             /\ pc'[r] = "idle" <=> pc[r] = "idle"
             /\ pc'[r] \in {"idle", "waiting", "done", "raised", "lost"}
             /\ candidates'[r] = {} /\ pos'[r] = 0 /\ attempt'[r] = 0
  BY <1>1 DEF Restart, TypeOK, CallsTypeOK
<1>4. registry' \in [Routes -> RouteEntry] /\ Threshold \in Nat \ {0}
  BY GatewayAssumption DEF Restart
<1>5. BreakerTypeOK' /\ BreakerAgrees'
  BY <1>4 DEF Restart, BreakerTypeOK, BreakerAgrees
<1>6. CallsTypeOK'
  <2>1. run' \in [Requests -> LLMRunRecord]
    BY <1>2 DEF Restart
  <2>2. pc' \in [Requests -> {"idle", "waiting", "done", "raised", "lost"}]
    BY <1>3 DEF Restart
  <2> QED BY <1>1, <2>1, <2>2, EmptySeq DEF Restart, TypeOK, CallsTypeOK
<1>7. ASSUME NEW r \in Requests PROVE CallOK(r)'
  <2>1. PolicyOf(r)'.maxRetries \in Nat
    BY <1>2, PolicyPositions DEF PolicyOf, LLMRunRecord
  <2> QED BY <1>2, <1>3, <2>1 DEF CallOK
<1>8. AnswersGrounded'
  <2>1. /\ AnswersGrounded
        /\ \A r \in Requests : result[r] # NoData => pc[r] = "done"
    BY DEF GatewayInv, OneRunPerCall
  <2>2. UNCHANGED <<audit, result>>
    BY DEF Restart
  <2>3. ASSUME NEW r \in Requests, result'[r] # NoData
        PROVE  /\ Vouched(run[r].task, run[r].prompt, result[r])'
               /\ run'[r].selected # "cache" => result'[r].cites \subseteq run'[r].ids
    <3>1. run'[r] = run[r]
      BY <1>2, <2>1, <2>2, <2>3
    <3> QED BY <2>1, <2>2, <2>3, <3>1 DEF AnswersGrounded, Vouched
  <2>4. \A t \in Tasks, p \in Prompts : cache'[<<t, p>>] = NoData
    BY DEF Restart
  <2> QED BY <2>3, <2>4 DEF AnswersGrounded
<1>9. OneRunPerCall'
  <2>1. OneRunPerCall /\ DOMAIN runs' = {} /\ UNCHANGED <<audit, result>>
    BY DEF GatewayInv, Restart
  <2>2. \A i \in DOMAIN audit : audit[i].req \in Requests
    <3>1. \A i \in DOMAIN audit : audit[i] \in LLMRunRecord
      BY <1>1, SeqElements DEF TypeOK, CallsTypeOK
    <3> QED BY <3>1 DEF LLMRunRecord
  <2> QED BY <1>2, <1>3, <2>1, <2>2 DEF OneRunPerCall
<1>10. AuditAccounts'
  BY <1>3 DEF GatewayInv, Restart, AuditAccounts, Accounted
<1>11. ASSUME NEW r \in Requests PROVE InProgress(r)'
  BY <1>2, <1>3 DEF GatewayInv, InProgress
<1> QED BY <1>4, <1>5, <1>6, <1>7, <1>8, <1>9, <1>10, <1>11 DEF GatewayInv, TypeOK

LEMMA NextKeepsInv == GatewayInv /\ [Next]_vars => GatewayInv'
<1> SUFFICES ASSUME GatewayInv, [Next]_vars PROVE GatewayInv'
  OBVIOUS
<1>1. ASSUME NEW r \in Requests, CacheHit(r) \/ NoRoute(r) \/ Route(r) \/ Reply(r)
      PROVE  GatewayInv'
  <2>1. BreakerTypeOK' /\ BreakerAgrees' /\ UNCHANGED registry
    BY <1>1, CallStepBreaker
  <2>2. /\ CallsTypeOK' /\ \A q \in Requests : CallOK(q)'
        /\ AnswersGrounded' /\ OneRunPerCall' /\ AuditAccounts'
        /\ \A q \in Requests : InProgress(q)'
    BY <1>1, CallStep, EndsKeepsInv, GoesKeepsInv
  <2>3. registry' \in [Routes -> RouteEntry]
    BY <2>1 DEF GatewayInv, TypeOK
  <2> QED BY <2>1, <2>2, <2>3 DEF GatewayInv, TypeOK
<1>2. CASE UNCHANGED vars
  <2>1. registry' \in [Routes -> RouteEntry]
    BY <1>2 DEF vars, GatewayInv, TypeOK
  <2>2. /\ UNCHANGED <<failures, open>>
        /\ UNCHANGED <<cache, runs, audit, pc, run, candidates, pos, attempt, result>>
    BY <1>2 DEF vars
  <2> QED BY <2>1, <2>2, StillKeepsInv
<1> QED BY <1>1, <1>2, SetRouteKeepsInv, RestartKeepsInv DEF Next

THEOREM InvariantHolds == Spec => []GatewayInv
BY InitInv, NextKeepsInv, PTL DEF Spec

\* The type invariant.
THEOREM TypeCorrect == Spec => []TypeOK
<1>1. GatewayInv => TypeOK
  BY DEF GatewayInv
<1> QED BY <1>1, InvariantHolds, PTL

\* The circuit breaker is open exactly on the routes at the threshold, for
\* every number of concurrent calls and every threshold.
THEOREM BreakerCorrect == Spec => []BreakerAgrees
<1>1. GatewayInv => BreakerAgrees
  BY DEF GatewayInv
<1> QED BY <1>1, InvariantHolds, PTL

\* Every answer, through any route, retry, fallback or cache entry, is one the
\* audit file vouches for: checked against the ids of the call with this task
\* and prompt it was written for, and against the caller's own unless cached.
THEOREM AnswersAreGrounded == Spec => []AnswersGrounded
<1>1. GatewayInv => AnswersGrounded
  BY DEF GatewayInv
<1> QED BY <1>1, InvariantHolds, PTL

\* Exactly one audit record per returned call, across restarts.
THEOREM OneRecordPerCall == Spec => []OneRunPerCall
<1>1. GatewayInv => OneRunPerCall
  BY DEF GatewayInv
<1> QED BY <1>1, InvariantHolds, PTL

\* Every audit record accounts for every attempt of its call.
THEOREM RecordsAccount == Spec => []AuditAccounts
<1>1. GatewayInv => AuditAccounts
  BY DEF GatewayInv
<1> QED BY <1>1, InvariantHolds, PTL

-----------------------------------------------------------------------------
(* Where answers come from.                                                *)

\* d was given to a call with that key, whose ids it cites.
GivenFor(t, p, d) ==
  \E q \in Requests :
    /\ run[q].task = t /\ run[q].prompt = p
    /\ result[q] = d /\ d.cites \subseteq run[q].ids

AnswersGiven ==
  /\ \A r \in Requests :
       result[r] # NoData => GivenFor(run[r].task, run[r].prompt, result[r])
  /\ \A t \in Tasks, p \in Prompts :
       cache[<<t, p>>] # NoData => GivenFor(t, p, cache[<<t, p>>])

\* The calls ask what callers ask.
AsAsked == \A r \in Requests : <<run[r].task, run[r].prompt, run[r].ids>> \in Asks

SourcedInv == AnswersGiven /\ AsAsked

\* A step changes what no call asks, and no answer that was given.
LEMMA GivenStays ==
  ASSUME NEW t, NEW p, NEW d, d # NoData, GivenFor(t, p, d),
         \A q \in Requests : /\ run'[q].task = run[q].task
                             /\ run'[q].prompt = run[q].prompt
                             /\ run'[q].ids = run[q].ids
                             /\ result[q] # NoData => result'[q] = result[q]
  PROVE  GivenFor(t, p, d)'
BY DEF GivenFor

LEMMA InitSourced == Init => SourcedInv
<1> SUFFICES ASSUME Init PROVE SourcedInv
  OBVIOUS
<1>1. PICK ask \in [Requests -> Asks] :
        run = [r \in Requests |-> NewRun(r, ask[r][1], ask[r][2], ask[r][3])]
  BY DEF Init
<1>2. ASSUME NEW r \in Requests
      PROVE  <<run[r].task, run[r].prompt, run[r].ids>> \in Asks
  <2>1. ask[r] \in Asks /\ ask[r] \in Tasks \X Prompts \X SUBSET Ids
    BY GatewayAssumption
  <2>2. run[r].task = ask[r][1] /\ run[r].prompt = ask[r][2] /\ run[r].ids = ask[r][3]
    BY <1>1 DEF NewRun
  <2>3. ask[r] = <<ask[r][1], ask[r][2], ask[r][3]>>
    BY <2>1
  <2> QED BY <2>1, <2>2, <2>3
<1>3. AnswersGiven
  BY DEF Init, AnswersGiven
<1> QED BY <1>2, <1>3 DEF SourcedInv, AsAsked

\* A call that ends gives its caller an answer to its own ids, or one that was
\* given before; in the first case the cache may get it too.
LEMMA EndsSourced ==
  ASSUME GatewayInv, SourcedInv, NEW r \in Requests, Ends(r)
  PROVE  SourcedInv'
<1>1. PICK rec, data, after : EndsWith(r, rec, data, after) /\ Commit(r, rec, data, after)
  BY DEF Ends
<1>2. /\ rec \in LLMRunRecord
      /\ rec.task = run[r].task /\ rec.prompt = run[r].prompt /\ rec.ids = run[r].ids
      /\ rec.task \in Tasks /\ rec.prompt \in Prompts
      /\ data # NoData => Written(rec, data) \/ Repeated(rec, data)
  BY <1>1 DEF EndsWith, LLMRunRecord
<1>3. /\ run \in [Requests -> LLMRunRecord]
      /\ result \in [Requests -> Data \cup {NoData}] /\ result[r] = NoData
      /\ cache \in CacheType
  BY DEF GatewayInv, TypeOK, CallsTypeOK, OneRunPerCall, Ends, CacheType
<1>4. \A q \in Requests : /\ run'[q].task = run[q].task
                          /\ run'[q].prompt = run[q].prompt
                          /\ run'[q].ids = run[q].ids
  BY <1>1, <1>2, <1>3 DEF Commit
<1>5. AsAsked'
  BY <1>4 DEF SourcedInv, AsAsked
<1>6. CASE result' = [result EXCEPT ![r] = data] /\ cache' = after
  <2>1. \A q \in Requests : result[q] # NoData => result'[q] = result[q]
    BY <1>3, <1>6
  <2>2. ASSUME NEW t, NEW p, NEW d, d # NoData, GivenFor(t, p, d)
        PROVE  GivenFor(t, p, d)'
    BY <1>4, <2>1, <2>2, GivenStays
  <2>3. ASSUME Written(rec, data), data # NoData
        PROVE  GivenFor(rec.task, rec.prompt, data)'
    BY <1>2, <1>3, <1>4, <1>6, <2>3 DEF Written, GivenFor
  <2>4. ASSUME NEW q \in Requests, result'[q] # NoData
        PROVE  GivenFor(run[q].task, run[q].prompt, result[q])'
    <3>1. CASE q # r
      <4>1. result'[q] = result[q]
        BY <1>3, <1>6, <3>1
      <4>2. GivenFor(run[q].task, run[q].prompt, result[q])
        BY <2>4, <4>1 DEF SourcedInv, AnswersGiven
      <4> QED BY <1>4, <2>1, <2>4, <4>1, <4>2 DEF GivenFor
    <3>2. CASE q = r
      <4>1. result'[q] = data /\ data # NoData
        BY <1>3, <1>6, <2>4, <3>2
      <4>2. CASE Written(rec, data)
        <5>1. GivenFor(rec.task, rec.prompt, data)'
          BY <2>3, <4>1, <4>2
        <5> QED BY <1>2, <1>4, <3>2, <4>1, <5>1 DEF GivenFor
      <4>3. CASE Repeated(rec, data)
        <5>1. GivenFor(rec.task, rec.prompt, data)
          BY <1>2, <4>1, <4>3 DEF Repeated, SourcedInv, AnswersGiven
        <5>2. GivenFor(rec.task, rec.prompt, data)'
          BY <2>2, <4>1, <5>1
        <5> QED BY <1>2, <1>4, <3>2, <4>1, <5>2 DEF GivenFor
      <4> QED BY <1>2, <4>1, <4>2, <4>3
    <3> QED BY <3>1, <3>2
  <2>5. ASSUME NEW t \in Tasks, NEW p \in Prompts, cache'[<<t, p>>] # NoData
        PROVE  GivenFor(t, p, cache[<<t, p>>])'
    <3>1. CASE cache'[<<t, p>>] = cache[<<t, p>>]
      <4>1. GivenFor(t, p, cache[<<t, p>>])
        BY <2>5, <3>1 DEF SourcedInv, AnswersGiven
      <4> QED BY <1>4, <2>1, <2>5, <3>1, <4>1 DEF GivenFor
    <3>2. CASE cache'[<<t, p>>] # cache[<<t, p>>]
      <4>1. /\ data # NoData /\ Written(rec, data)
            /\ t = rec.task /\ p = rec.prompt /\ cache'[<<t, p>>] = data
        BY <1>1, <1>2, <1>3, <1>6, <3>2 DEF EndsWith, CacheType
      <4>2. GivenFor(rec.task, rec.prompt, data)'
        BY <2>3, <4>1
      <4> QED BY <4>1, <4>2 DEF GivenFor
    <3> QED BY <3>1, <3>2
  <2> QED BY <1>5, <2>4, <2>5 DEF SourcedInv, AnswersGiven
<1>7. CASE UNCHANGED <<audit, result, cache>>
  BY <1>4, <1>5, <1>7 DEF SourcedInv, AnswersGiven, GivenFor
<1> QED BY <1>1, <1>6, <1>7 DEF Commit

LEMMA NextSourced == GatewayInv /\ SourcedInv /\ [Next]_vars => SourcedInv'
<1> SUFFICES ASSUME GatewayInv, SourcedInv, [Next]_vars PROVE SourcedInv'
  OBVIOUS
<1> DEFINE SameAsks == \A q \in Requests : /\ run'[q].task = run[q].task
                                           /\ run'[q].prompt = run[q].prompt
                                           /\ run'[q].ids = run[q].ids
<1>1. ASSUME SameAsks, result' = result, cache' = cache
      PROVE  SourcedInv'
  BY <1>1 DEF SourcedInv, AnswersGiven, AsAsked, GivenFor
<1>2. ASSUME NEW r \in Requests, CacheHit(r) \/ NoRoute(r) \/ Route(r) \/ Reply(r)
      PROVE  SourcedInv'
  <2>1. CASE Ends(r)
    BY <2>1, EndsSourced
  <2>2. CASE Goes(r)
    <3>1. PICK rec : /\ rec.task = run[r].task /\ rec.prompt = run[r].prompt
                     /\ rec.ids = run[r].ids
                     /\ run' = [run EXCEPT ![r] = rec]
      BY <2>2 DEF Goes, GoesOn
    <3>2. run \in [Requests -> LLMRunRecord]
      BY DEF GatewayInv, TypeOK, CallsTypeOK
    <3>3. SameAsks
      BY <3>1, <3>2
    <3> QED BY <1>1, <2>2, <3>3 DEF Goes
  <2> QED BY <1>2, <2>1, <2>2, CallStep
<1>3. ASSUME NEW rt \in Routes, SetRoute(rt) PROVE SourcedInv'
  BY <1>1, <1>3 DEF SetRoute
<1>4. CASE Restart
  <2>1. SameAsks /\ result' = result
    BY <1>4 DEF Restart, NewRun
  <2>2. \A t \in Tasks, p \in Prompts : cache'[<<t, p>>] = NoData
    BY <1>4 DEF Restart
  <2> QED BY <2>1, <2>2 DEF SourcedInv, AnswersGiven, AsAsked, GivenFor
<1>5. CASE UNCHANGED vars
  BY <1>1, <1>5 DEF vars
<1> QED BY <1>2, <1>3, <1>4, <1>5 DEF Next

THEOREM SourcesHold == Spec => []SourcedInv
BY InitSourced, NextSourced, InvariantHolds, PTL DEF Spec

\* Where equal keys mean equal valid ids, as for the callers in the repository,
\* every answer cites ids of its own call, cached answers included.
THEOREM OwnSourcesCited == KeysTellIds => (Spec => []CitesOwnSources)
<1> SUFFICES ASSUME KeysTellIds PROVE Spec => []CitesOwnSources
  OBVIOUS
<1>1. SourcedInv => CitesOwnSources
  <2> SUFFICES ASSUME SourcedInv, NEW r \in Requests, result[r] # NoData
               PROVE  result[r].cites \subseteq run[r].ids
    BY DEF CitesOwnSources
  <2>1. PICK q \in Requests :
          /\ run[q].task = run[r].task /\ run[q].prompt = run[r].prompt
          /\ result[r].cites \subseteq run[q].ids
    BY DEF SourcedInv, AnswersGiven, GivenFor
  <2>2. /\ <<run[r].task, run[r].prompt, run[r].ids>> \in Asks
        /\ <<run[q].task, run[q].prompt, run[q].ids>> \in Asks
    BY DEF SourcedInv, AsAsked
  <2>3. run[q].ids = run[r].ids
    BY <2>1, <2>2 DEF KeysTellIds
  <2> QED BY <2>1, <2>3
<1> QED BY <1>1, SourcesHold, PTL

-----------------------------------------------------------------------------
(* The gateway implements GatewayContract.                                 *)

\* The contract's view of the state.
Asked == [r \in Requests |-> [key |-> CacheKey(r), ids |-> run[r].ids]]
Entry(rec) == [call |-> rec.req, ok |-> rec.state = "VALIDATED"]
Log == [i \in DOMAIN audit |-> Entry(audit[i])]

\* Appending a record to the file appends its entry to the log.
LEMMA LogAppends ==
  ASSUME audit \in Seq(LLMRunRecord), NEW rec \in LLMRunRecord, audit' = Append(audit, rec)
  PROVE  Log' = Append(Log, Entry(rec))
<1> DEFINE Entries == [call : Requests, ok : BOOLEAN]
<1>1. \A x \in LLMRunRecord : Entry(x) \in Entries
  BY DEF Entry, LLMRunRecord
<1>2. \A i \in DOMAIN audit : audit[i] \in LLMRunRecord
  BY SeqElements
<1>3. Len(audit) \in Nat /\ DOMAIN audit = 1..Len(audit)
  BY LenProperties
<1>4. Log \in Seq(Entries) /\ Len(Log) = Len(audit) /\ DOMAIN Log = DOMAIN audit
  <2>1. Log \in [1..Len(audit) -> Entries]
    BY <1>1, <1>2, <1>3 DEF Log
  <2>2. Log \in Seq(Entries)
    <3>1. ASSUME NEW T, NEW n \in Nat, NEW f \in [1..n -> T] PROVE f \in Seq(T)
      OBVIOUS
    <3> HIDE DEF Entries
    <3> QED BY <1>3, <2>1, <3>1
  <2> QED BY <1>3, <2>1, <2>2, LenProperties
<1>5. /\ audit' \in Seq(LLMRunRecord)
      /\ Len(audit') = Len(audit) + 1
      /\ \A i \in 1..Len(audit) : audit'[i] = audit[i]
      /\ audit'[Len(audit) + 1] = rec
  BY AppendProperties
<1>6. DOMAIN audit' = 1..(Len(audit) + 1)
  BY <1>5, LenProperties
<1>7. Entry(rec) \in Entries
  BY <1>1
<1>8. /\ Append(Log, Entry(rec)) \in Seq(Entries)
      /\ Len(Append(Log, Entry(rec))) = Len(audit) + 1
      /\ \A i \in 1..Len(audit) : Append(Log, Entry(rec))[i] = Log[i]
      /\ Append(Log, Entry(rec))[Len(audit) + 1] = Entry(rec)
  BY <1>4, <1>7, AppendProperties
<1>9. DOMAIN Append(Log, Entry(rec)) = 1..(Len(audit) + 1)
      /\ Append(Log, Entry(rec)) = [i \in 1..(Len(audit) + 1) |-> Append(Log, Entry(rec))[i]]
  BY <1>8, LenProperties
<1>10. Log' = [i \in 1..(Len(audit) + 1) |-> Entry(audit'[i])]
  BY <1>6 DEF Log, Entry
<1>11. ASSUME NEW i \in 1..(Len(audit) + 1)
       PROVE  Entry(audit'[i]) = Append(Log, Entry(rec))[i]
  <2>1. CASE i \in 1..Len(audit)
    BY <1>3, <1>5, <1>8, <2>1 DEF Log
  <2>2. CASE i = Len(audit) + 1
    BY <1>5, <1>8, <2>2
  <2>3. i \in 1..Len(audit) \/ i = Len(audit) + 1
    BY <1>3
  <2> QED BY <2>1, <2>2, <2>3
<1> QED BY <1>9, <1>10, <1>11

LEMMA InitContract == Init => Contract!ContractInit
<1> SUFFICES ASSUME Init PROVE Contract!ContractInit
  OBVIOUS
<1>1. PICK ask \in [Requests -> Asks] :
        run = [r \in Requests |-> NewRun(r, ask[r][1], ask[r][2], ask[r][3])]
  BY DEF Init
<1>2. ASSUME NEW r \in Requests
      PROVE  Asked[r] \in [key : Tasks \X Prompts, ids : SUBSET Ids]
  <2>1. /\ run[r].task = ask[r][1] /\ run[r].prompt = ask[r][2] /\ run[r].ids = ask[r][3]
        /\ ask[r][1] \in Tasks /\ ask[r][2] \in Prompts /\ ask[r][3] \in SUBSET Ids
    BY <1>1, GatewayAssumption DEF NewRun
  <2> QED BY <2>1 DEF Asked, CacheKey
<1>3. Log = << >>
  BY DEF Init, Log
<1> QED BY <1>2, <1>3
        DEF Init, Contract!ContractInit, Contract!CallsInit, Asked, CacheKey, Log, Entry

\* A call that ends answers, refuses or raises.
LEMMA EndsContract ==
  ASSUME GatewayInv, SourcedInv, NEW r \in Requests, Ends(r)
  PROVE  \/ Contract!LoggedAnswer(r)
         \/ Contract!LoggedRefusal(r)
         \/ Contract!Raise(r) /\ Log' = Log
<1>1. PICK rec, data, after : EndsWith(r, rec, data, after) /\ Commit(r, rec, data, after)
  BY DEF Ends
<1>2. /\ rec \in LLMRunRecord
      /\ rec.req = r /\ rec.task = run[r].task
      /\ rec.prompt = run[r].prompt /\ rec.ids = run[r].ids
      /\ data \in Data \cup {NoData}
      /\ rec.state = "VALIDATED" <=> data # NoData
      /\ data # NoData => Written(rec, data) \/ Repeated(rec, data)
  BY <1>1 DEF EndsWith
<1>3. /\ run \in [Requests -> LLMRunRecord] /\ audit \in Seq(LLMRunRecord)
      /\ result \in [Requests -> Data \cup {NoData}] /\ result[r] = NoData
  BY DEF GatewayInv, TypeOK, CallsTypeOK, OneRunPerCall, Ends
<1>4. run' = [run EXCEPT ![r] = rec]
  BY <1>1 DEF Commit
<1>5. Asked' = Asked /\ \A q \in Requests : Asked[q].key = CacheKey(q)
                            /\ Asked[q].ids = run[q].ids
  <2>1. \A q \in Requests : /\ run'[q].task = run[q].task
                            /\ run'[q].prompt = run[q].prompt
                            /\ run'[q].ids = run[q].ids
    BY <1>2, <1>3, <1>4
  <2> QED BY <2>1 DEF Asked, CacheKey
<1>6. pc[r] \in {"idle", "waiting"}
  BY DEF Ends
<1>7. CASE /\ audit' = Append(audit, rec)
           /\ pc' = [pc EXCEPT ![r] = "done"]
           /\ result' = [result EXCEPT ![r] = data]
  <2>1. Log' = Append(Log, Entry(rec))
    BY <1>2, <1>3, <1>7, LogAppends
  <2>2. CASE data # NoData
    <3>1. Entry(rec) = [call |-> r, ok |-> TRUE]
      BY <1>2, <2>2 DEF Entry
    <3>2. data \in Data
      BY <1>2, <2>2
    <3>5. \/ data.cites \subseteq Asked[r].ids
          \/ \E q \in Requests : Asked[q].key = Asked[r].key /\ result[q] = data
      <4>1. CASE Written(rec, data)
        BY <1>2, <1>5, <4>1 DEF Written
      <4>2. CASE Repeated(rec, data)
        <5>1. rec.task \in Tasks /\ rec.prompt \in Prompts
          BY <1>2 DEF LLMRunRecord
        <5>2. PICK q \in Requests :
                run[q].task = rec.task /\ run[q].prompt = rec.prompt /\ result[q] = data
          BY <2>2, <4>2, <5>1 DEF Repeated, SourcedInv, AnswersGiven, GivenFor
        <5> QED BY <1>2, <1>5, <5>2 DEF CacheKey
      <4> QED BY <1>2, <2>2, <4>1, <4>2
    <3>3. Log' = Append(Log, [call |-> r, ok |-> TRUE])
      BY <2>1, <3>1
    <3>4. Contract!Answer(r, data) /\ Contract!Logged(r, TRUE)
      BY <1>5, <1>6, <1>7, <3>2, <3>3, <3>5
         DEF Contract!Answer, Contract!Founded, Contract!Ends, Contract!Logged,
             Asked, CacheKey, Log, Entry
    <3> QED BY <3>2, <3>4 DEF Contract!LoggedAnswer
  <2>3. CASE data = NoData
    <3>1. Entry(rec) = [call |-> r, ok |-> FALSE]
      BY <1>2, <2>3 DEF Entry
    <3>2. Log' = Append(Log, [call |-> r, ok |-> FALSE])
      BY <2>1, <3>1
    <3>3. result' = result
      BY <1>3, <1>7, <2>3
    <3>4. Contract!Refuse(r) /\ Contract!Logged(r, FALSE)
      BY <1>5, <1>6, <1>7, <3>2, <3>3
         DEF Contract!Refuse, Contract!Ends, Contract!Logged, Asked, CacheKey, Log, Entry
    <3> QED BY <3>4 DEF Contract!LoggedRefusal
  <2> QED BY <2>2, <2>3
<1>8. CASE pc' = [pc EXCEPT ![r] = "raised"] /\ UNCHANGED <<audit, result, cache>>
  <2>1. Log' = Log
    BY <1>8 DEF Log
  <2> QED BY <1>5, <1>6, <1>8, <2>1
          DEF Contract!Raise, Contract!Ends, Asked, CacheKey, Log, Entry
<1> QED BY <1>1, <1>7, <1>8 DEF Commit

\* A call that goes on asks, or does nothing its caller could see.
LEMMA GoesContract ==
  ASSUME GatewayInv, NEW r \in Requests, Goes(r)
  PROVE  (Contract!Ask(r) /\ Log' = Log) \/ UNCHANGED Contract!contractVars
<1>1. PICK rec : /\ rec.task = run[r].task /\ rec.prompt = run[r].prompt
                 /\ rec.ids = run[r].ids
                 /\ run' = [run EXCEPT ![r] = rec]
  BY DEF Goes, GoesOn
<1>2. /\ run \in [Requests -> LLMRunRecord]
      /\ pc \in [Requests -> {"idle", "waiting", "done", "raised", "lost"}]
  BY DEF GatewayInv, TypeOK, CallsTypeOK
<1>3. Asked' = Asked
  <2>1. \A q \in Requests : /\ run'[q].task = run[q].task
                            /\ run'[q].prompt = run[q].prompt
                            /\ run'[q].ids = run[q].ids
    BY <1>1, <1>2
  <2> QED BY <2>1 DEF Asked, CacheKey
<1>4. /\ pc[r] \in {"idle", "waiting"}
      /\ pc' = [pc EXCEPT ![r] = "waiting"]
      /\ result' = result /\ Log' = Log
  BY DEF Goes, Log
<1>5. CASE pc[r] = "idle"
  BY <1>3, <1>4, <1>5 DEF Contract!Ask, Asked, CacheKey, Log, Entry
<1>6. CASE pc[r] = "waiting"
  <2>1. pc' = pc
    BY <1>2, <1>4, <1>6
  <2> QED BY <1>3, <1>4, <2>1 DEF Contract!contractVars, Asked, CacheKey, Log, Entry
<1> QED BY <1>4, <1>5, <1>6

\* A restart loses the calls in flight and nothing else.
LEMMA RestartContract ==
  ASSUME GatewayInv, Restart
  PROVE  Contract!Lose /\ Log' = Log
<1>1. \A r \in Requests : /\ run'[r].task = run[r].task
                          /\ run'[r].prompt = run[r].prompt
                          /\ run'[r].ids = run[r].ids
  BY DEF Restart, NewRun
<1>2. Asked' = Asked
  BY <1>1 DEF Asked, CacheKey
<1>3. Log' = Log
  BY DEF Restart, Log
<1> QED BY <1>2, <1>3 DEF Restart, Contract!Lose, Asked, CacheKey, Log, Entry

LEMMA NextContract ==
  GatewayInv /\ SourcedInv /\ [Next]_vars
    => [Contract!ContractNext]_(Contract!contractVars)
<1> SUFFICES ASSUME GatewayInv, SourcedInv, [Next]_vars
             PROVE  Contract!ContractNext \/ UNCHANGED Contract!contractVars
  OBVIOUS
<1>1. ASSUME NEW r \in Requests, CacheHit(r) \/ NoRoute(r) \/ Route(r) \/ Reply(r)
      PROVE  Contract!ContractNext \/ UNCHANGED Contract!contractVars
  <2>1. \/ Contract!LoggedAnswer(r)
        \/ Contract!LoggedRefusal(r)
        \/ Contract!Raise(r) /\ Log' = Log
        \/ Contract!Ask(r) /\ Log' = Log
        \/ UNCHANGED Contract!contractVars
    BY <1>1, CallStep, EndsContract, GoesContract
  <2> QED BY <2>1 DEF Contract!ContractNext, Log, Entry
<1>2. ASSUME NEW rt \in Routes, SetRoute(rt)
      PROVE  UNCHANGED Contract!contractVars
  BY <1>2 DEF SetRoute, CacheKey, Contract!contractVars
<1>3. CASE Restart
  BY <1>3, RestartContract DEF Contract!ContractNext, Log, Entry
<1>4. CASE UNCHANGED vars
  BY <1>4 DEF vars, CacheKey, Contract!contractVars
<1> QED BY <1>1, <1>2, <1>3, <1>4 DEF Next

\* Whatever routes, retries, breaker states and cache entries a call goes
\* through, its caller sees the contract of GatewayContract.
THEOREM GatewayKeepsContract == Spec => KeepsContract
BY InitContract, NextContract, InvariantHolds, SourcesHold, PTL
   DEF Spec, KeepsContract, Contract!ContractSpec
-----------------------------------------------------------------------------
(* The routes a call tries.                                                *)

\* The record of task t's call names routes of t's list, in the order of their
\* first mention, none more than 1 + maxRetries times.
Tried(rec, rt) == {k \in DOMAIN rec.attempted : rec.attempted[k] = rt}
Follows(rec) ==
  LET tried == rec.attempted
      t == rec.task
  IN /\ \A i \in DOMAIN tried : \E j \in DOMAIN Policy[t].routes :
                                  Policy[t].routes[j] = tried[i]
     /\ \A i, k \in DOMAIN tried : i <= k => Rank(t, tried[i]) <= Rank(t, tried[k])
     /\ \A i \in DOMAIN tried : Cardinality(Tried(rec, tried[i])) <= Policy[t].maxRetries + 1

\* What makes that inductive: a call considers first mentions only, has tried
\* nothing behind the position it is at, and has tried that as often as its loop
\* counter says.
OnItsWay(r) ==
  /\ Follows(run[r])
  /\ \A j \in candidates[r] : Rank(run[r].task, PolicyOf(r).routes[j]) = j
  /\ pc[r] = "waiting" =>
       /\ \A i \in DOMAIN run[r].attempted : Rank(run[r].task, run[r].attempted[i]) <= pos[r]
       /\ Cardinality(Tried(run[r], RouteOf(r))) <= attempt[r] + 1

RoutingInv == \A r \in Requests : OnItsWay(r)

\* A step of call r that tries position j of the positions set, for the
\* (a + 1)-th time: when it starts, again, or further down.
Tries(r, set, j, a) ==
  /\ pc' = [pc EXCEPT ![r] = "waiting"]
  /\ \E rec \in LLMRunRecord :
       /\ rec.task = run[r].task
       /\ rec.attempted = Append(run[r].attempted, PolicyOf(r).routes[j])
       /\ run' = [run EXCEPT ![r] = rec]
  /\ candidates' = [candidates EXCEPT ![r] = set]
  /\ pos' = [pos EXCEPT ![r] = j]
  /\ attempt' = [attempt EXCEPT ![r] = a]
  /\ \/ pc[r] = "idle" /\ set = Eligible(run[r].task) /\ j \in set /\ a = 0
     \/ pc[r] = "waiting" /\ set = candidates[r] /\ j = pos[r] /\ a = attempt[r] + 1
        /\ a <= PolicyOf(r).maxRetries
     \/ pc[r] = "waiting" /\ set = candidates[r] /\ j \in set /\ j > pos[r] /\ a = 0

\* A step that ends call r: nothing more is tried.
Closes(r) ==
  /\ \E end \in {"done", "raised"} : pc' = [pc EXCEPT ![r] = end]
  /\ \E rec \in LLMRunRecord :
       /\ rec.task = run[r].task
       /\ rec.attempted = run[r].attempted
       /\ run' = [run EXCEPT ![r] = rec]
  /\ Forget(r)

Moves(r) == Closes(r) \/ \E set, j, a : Tries(r, set, j, a)

\* rec is the record of call r with the same attempts.
SameAttempts(r, rec) ==
  rec \in LLMRunRecord /\ rec.task = run[r].task /\ rec.attempted = run[r].attempted

LEMMA CommitCloses ==
  ASSUME NEW r \in Requests, NEW rec, SameAttempts(r, rec), NEW data, NEW after,
         Commit(r, rec, data, after)
  PROVE  Closes(r)
BY DEF Commit, Closes, SameAttempts

LEMMA DegradeCloses ==
  ASSUME NEW r \in Requests, NEW rec, SameAttempts(r, rec), Degrade(r, rec)
  PROVE  Closes(r)
<1> DEFINE last == InState(Failing(rec), "FAILED")
<1>1. SameAttempts(r, last)
  BY FailingRecord, InStateRecord DEF SameAttempts
<1>2. Commit(r, last, NoData, cache)
  BY DEF Degrade
<1> HIDE DEF last
<1> QED BY <1>1, <1>2, CommitCloses

\* The record with one attempt more.
LEMMA OneAttemptMore ==
  ASSUME NEW r \in Requests, NEW rec, SameAttempts(r, rec), NEW rt \in Routes
  PROVE  /\ Attempting(rec, rt) \in LLMRunRecord
         /\ Attempting(rec, rt).task = run[r].task
         /\ Attempting(rec, rt).attempted = Append(run[r].attempted, rt)
BY AttemptingRecord DEF SameAttempts

LEMMA RetryTries ==
  ASSUME GatewayInv, NEW r \in Requests, pc[r] = "waiting", NEW kind, MayRetry(r, kind),
         NEW rec, SameAttempts(r, rec), Retry(r, rec)
  PROVE  Tries(r, candidates[r], pos[r], attempt[r] + 1)
<1>1. run[r].task \in Tasks /\ attempt[r] \in Nat
  BY DEF GatewayInv, TypeOK, CallsTypeOK, LLMRunRecord
<1>2. PolicyOf(r).maxRetries \in Nat
  BY <1>1, PolicyPositions DEF PolicyOf
<1>3. pos[r] \in DOMAIN PolicyOf(r).routes
  BY DEF GatewayInv, TypeOK, CallOK
<1>4. RouteOf(r) \in Routes /\ RouteOf(r) = PolicyOf(r).routes[pos[r]]
  BY <1>1, <1>3, PolicyPositions DEF RouteOf, PolicyOf
<1>5. attempt[r] + 1 <= PolicyOf(r).maxRetries
  BY <1>1, <1>2 DEF MayRetry
<1>6. /\ pc' = [pc EXCEPT ![r] = "waiting"]
      /\ candidates' = [candidates EXCEPT ![r] = candidates[r]]
      /\ pos' = [pos EXCEPT ![r] = pos[r]]
      /\ attempt' = [attempt EXCEPT ![r] = attempt[r] + 1]
      /\ run' = [run EXCEPT ![r] = Attempting(rec, RouteOf(r))]
  BY DEF Retry, GatewayInv, TypeOK, CallsTypeOK
<1> DEFINE next == Attempting(rec, RouteOf(r))
<1>7. /\ next \in LLMRunRecord
      /\ next.task = run[r].task
      /\ next.attempted = Append(run[r].attempted, PolicyOf(r).routes[pos[r]])
      /\ run' = [run EXCEPT ![r] = next]
  BY <1>4, <1>6, OneAttemptMore
<1> HIDE DEF next
<1> QED BY <1>5, <1>6, <1>7 DEF Tries

LEMMA NextRouteTries ==
  ASSUME GatewayInv, NEW r \in Requests, pc[r] = "waiting",
         NEW rec, SameAttempts(r, rec), NextRoute(r, rec)
  PROVE  Moves(r)
<1>1. CASE Later(r) = {} /\ Degrade(r, rec)
  BY <1>1, DegradeCloses DEF Moves
<1>2. CASE /\ Later(r) # {}
           /\ Try(r, First(Later(r)), rec)
           /\ UNCHANGED <<cache, runs, audit, pc, candidates, result>>
  <2> DEFINE j == First(Later(r))
  <2>1. run[r].task \in Tasks
    BY DEF GatewayInv, TypeOK, CallsTypeOK, LLMRunRecord
  <2>2. candidates[r] \subseteq DOMAIN PolicyOf(r).routes
    BY DEF GatewayInv, TypeOK, CallOK
  <2>3. Later(r) \subseteq Nat
    BY <2>1, <2>2, PolicyPositions DEF Later, PolicyOf
  <2>4. j \in candidates[r] /\ j > pos[r]
    BY <1>2, <2>3, FirstIsLeast DEF Later
  <2>5. PolicyOf(r).routes[j] \in Routes
    BY <2>1, <2>2, <2>4, PolicyPositions DEF PolicyOf
  <2>6. /\ pc' = [pc EXCEPT ![r] = "waiting"]
        /\ candidates' = [candidates EXCEPT ![r] = candidates[r]]
        /\ pos' = [pos EXCEPT ![r] = j]
        /\ attempt' = [attempt EXCEPT ![r] = 0]
        /\ run' = [run EXCEPT ![r] = Attempting(rec, PolicyOf(r).routes[j])]
    BY <1>2 DEF Try, GatewayInv, TypeOK, CallsTypeOK
  <2>7. Tries(r, candidates[r], j, 0)
    BY <2>4, <2>5, <2>6, OneAttemptMore DEF Tries
  <2> QED BY <2>7 DEF Moves
<1> QED BY <1>1, <1>2 DEF NextRoute

\* Every handler closes its call or tries one route.
LEMMA CallMoves ==
  ASSUME GatewayInv, NEW r \in Requests,
         CacheHit(r) \/ NoRoute(r) \/ Route(r) \/ Reply(r)
  PROVE  Moves(r)
<1>1. /\ run[r] \in LLMRunRecord /\ run[r].task \in Tasks
      /\ SameAttempts(r, run[r])
  BY DEF GatewayInv, TypeOK, CallsTypeOK, LLMRunRecord, SameAttempts
<1>2. SameAttempts(r, Failing(run[r])) /\ SameAttempts(r, Retried(Failing(run[r])))
  BY <1>1, FailingRecord, RetriedRecord DEF SameAttempts
<1>3. CASE CacheHit(r)
  <2>1. SameAttempts(r, InState(Selecting(run[r], "cache"), "VALIDATED"))
    BY <1>1, ValidatedRecord DEF SameAttempts
  <2> QED BY <1>3, <2>1, CommitCloses DEF CacheHit, Moves
<1>4. CASE NoRoute(r)
  BY <1>1, <1>4, DegradeCloses DEF NoRoute, Moves
<1>5. CASE Route(r)
  <2> DEFINE set == Eligible(run[r].task)
             j == First(set)
  <2>1. set \subseteq DOMAIN PolicyOf(r).routes /\ set \subseteq Nat /\ set # {}
    BY <1>1, <1>5, EligiblePositions, PolicyPositions DEF Route, PolicyOf
  <2>2. j \in set /\ PolicyOf(r).routes[j] \in Routes
    BY <1>1, <2>1, FirstIsLeast, PolicyPositions DEF PolicyOf
  <2>3. Tries(r, set, j, 0)
    BY <1>1, <1>5, <2>2, OneAttemptMore DEF Route, Try, Tries
  <2> QED BY <2>3 DEF Moves
<1>6. CASE Validates(r)
  <2>1. RouteOf(r) \in Routes
    <3>1. pos[r] \in DOMAIN PolicyOf(r).routes
      BY <1>6 DEF Validates, GatewayInv, TypeOK, CallOK
    <3> QED BY <1>1, <3>1, PolicyPositions DEF RouteOf, PolicyOf
  <2>2. SameAttempts(r, InState(Selecting(run[r], RouteOf(r)), "VALIDATED"))
    BY <1>1, <2>1, ValidatedRecord DEF SameAttempts
  <2> QED BY <1>6, <2>2, CommitCloses DEF Validates, Moves
<1>7. ASSUME NEW kind, ProviderFails(r, kind) PROVE Moves(r)
  BY <1>2, <1>7, RetryTries, NextRouteTries DEF ProviderFails, Moves
<1>8. CASE Malformed(r)
  BY <1>2, <1>8, RetryTries, NextRouteTries DEF Malformed, Moves
<1>9. CASE InventsCitation(r)
  BY <1>2, <1>9, NextRouteTries DEF InventsCitation
<1> QED BY <1>3, <1>4, <1>5, <1>6, <1>7, <1>8, <1>9 DEF Reply, TimesOut, Errors
-----------------------------------------------------------------------------
(* They follow the policy.                                                 *)

\* The first mention of a route on the list is on the list, and not behind any other.
LEMMA RankIsFirst ==
  ASSUME NEW t \in Tasks, NEW j \in DOMAIN Policy[t].routes
  PROVE  /\ Rank(t, Policy[t].routes[j]) \in Nat
         /\ Rank(t, Policy[t].routes[j]) \in DOMAIN Policy[t].routes
         /\ Policy[t].routes[Rank(t, Policy[t].routes[j])] = Policy[t].routes[j]
         /\ Rank(t, Policy[t].routes[j]) <= j
<1> DEFINE S == {k \in DOMAIN Policy[t].routes : Policy[t].routes[k] = Policy[t].routes[j]}
<1>1. S \subseteq Nat /\ j \in S
  BY PolicyPositions
<1>2. First(S) \in S /\ \A k \in S : First(S) <= k
  BY <1>1, FirstIsLeast
<1>3. Rank(t, Policy[t].routes[j]) = First(S)
  BY DEF Rank
<1> QED BY <1>1, <1>2, <1>3

LEMMA EligibleAreFirst ==
  ASSUME NEW t \in Tasks, NEW j \in Eligible(t)
  PROVE  Rank(t, Policy[t].routes[j]) = j
<1>1. j \in DOMAIN Policy[t].routes /\ j \in Nat
  BY PolicyPositions DEF Eligible
<1>2. \A k \in 1..(j - 1) : Policy[t].routes[k] # Policy[t].routes[j]
  BY DEF Eligible
<1> DEFINE first == Rank(t, Policy[t].routes[j])
<1>3. first \in Nat /\ first \in DOMAIN Policy[t].routes /\ first <= j
      /\ Policy[t].routes[first] = Policy[t].routes[j]
  BY <1>1, RankIsFirst
<1>4. first >= 1
  <2>1. Policy[t].routes \in Seq(Routes)
    BY GatewayAssumption DEF TaskPolicy
  <2>2. DOMAIN Policy[t].routes = 1..Len(Policy[t].routes)
    BY <2>1, LenProperties
  <2> QED BY <1>3, <2>2
<1> QED BY <1>1, <1>2, <1>3, <1>4

\* One attempt more raises the count of its route by one and of no other.
LEMMA OneMoreTried ==
  ASSUME NEW old \in LLMRunRecord, NEW rec \in LLMRunRecord, NEW rt \in Routes,
         rec.attempted = Append(old.attempted, rt)
  PROVE  /\ \A x : IsFiniteSet(Tried(old, x)) /\ Cardinality(Tried(old, x)) \in Nat
         /\ \A x : x # rt => Tried(rec, x) = Tried(old, x)
         /\ Cardinality(Tried(rec, rt)) = Cardinality(Tried(old, rt)) + 1
<1> DEFINE new == Len(old.attempted) + 1
<1>1. old.attempted \in Seq(Routes)
  BY DEF LLMRunRecord
<1>2. /\ Len(old.attempted) \in Nat
      /\ DOMAIN old.attempted = 1..Len(old.attempted)
      /\ \A i \in DOMAIN old.attempted :
           i \in DOMAIN rec.attempted /\ rec.attempted[i] = old.attempted[i]
      /\ new \in DOMAIN rec.attempted
      /\ new \notin DOMAIN old.attempted
      /\ rec.attempted[new] = rt
      /\ \A i \in DOMAIN rec.attempted : i \in DOMAIN old.attempted \/ i = new
  BY <1>1, AppendDomain, LenProperties
<1>3. ASSUME NEW x PROVE IsFiniteSet(Tried(old, x)) /\ Cardinality(Tried(old, x)) \in Nat
  <2>1. IsFiniteSet(1..Len(old.attempted))
    BY <1>2, FS_Interval
  <2>2. Tried(old, x) \subseteq 1..Len(old.attempted)
    BY <1>2 DEF Tried
  <2>3. IsFiniteSet(Tried(old, x))
    BY <2>1, <2>2, FS_Subset
  <2> QED BY <2>3, FS_CardinalityType
<1>4. ASSUME NEW x, x # rt PROVE Tried(rec, x) = Tried(old, x)
  BY <1>2, <1>4 DEF Tried
<1>5. Tried(rec, rt) = Tried(old, rt) \cup {new}
  BY <1>2 DEF Tried
<1>6. new \notin Tried(old, rt)
  BY <1>2 DEF Tried
<1>7. Cardinality(Tried(rec, rt)) = Cardinality(Tried(old, rt)) + 1
  BY <1>3, <1>5, <1>6, FS_AddElement
<1> QED BY <1>3, <1>4, <1>7

\* A record that names one route more follows the policy if that route is not
\* before any it names, and is not named too often yet.
LEMMA FollowsOn ==
  ASSUME NEW old \in LLMRunRecord, NEW rec \in LLMRunRecord, rec.task = old.task,
         Follows(old),
         NEW j \in DOMAIN Policy[old.task].routes,
         rec.attempted = Append(old.attempted, Policy[old.task].routes[j]),
         Rank(old.task, Policy[old.task].routes[j]) = j,
         \A i \in DOMAIN old.attempted : Rank(old.task, old.attempted[i]) <= j,
         Cardinality(Tried(old, Policy[old.task].routes[j])) <= Policy[old.task].maxRetries
  PROVE  /\ Follows(rec)
         /\ \A i \in DOMAIN rec.attempted : Rank(rec.task, rec.attempted[i]) <= j
<1> DEFINE t == old.task
           rt == Policy[t].routes[j]
           new == Len(old.attempted) + 1
<1>1. t \in Tasks /\ old.attempted \in Seq(Routes) /\ rt \in Routes
      /\ j \in Nat /\ Policy[t].maxRetries \in Nat
  BY PolicyPositions DEF LLMRunRecord
<1>2. /\ \A i \in DOMAIN old.attempted :
           i \in DOMAIN rec.attempted /\ rec.attempted[i] = old.attempted[i]
      /\ new \in DOMAIN rec.attempted
      /\ new \notin DOMAIN old.attempted
      /\ rec.attempted[new] = rt
      /\ \A i \in DOMAIN rec.attempted : i \in DOMAIN old.attempted \/ i = new
      /\ DOMAIN old.attempted = 1..Len(old.attempted)
      /\ Len(old.attempted) \in Nat
  BY <1>1, AppendDomain, LenProperties
<1>3. /\ \A i \in DOMAIN old.attempted : \E k \in DOMAIN Policy[t].routes :
                                           Policy[t].routes[k] = old.attempted[i]
      /\ \A i, k \in DOMAIN old.attempted :
           i <= k => Rank(t, old.attempted[i]) <= Rank(t, old.attempted[k])
      /\ \A i \in DOMAIN old.attempted :
           Cardinality(Tried(old, old.attempted[i])) <= Policy[t].maxRetries + 1
  BY DEF Follows
<1>4. /\ \A x : x # rt => Tried(rec, x) = Tried(old, x)
      /\ Cardinality(Tried(old, rt)) \in Nat
      /\ Cardinality(Tried(rec, rt)) = Cardinality(Tried(old, rt)) + 1
  BY <1>1, OneMoreTried
<1>5. ASSUME NEW i \in DOMAIN rec.attempted
      PROVE  \E k \in DOMAIN Policy[t].routes : Policy[t].routes[k] = rec.attempted[i]
  BY <1>2, <1>3
<1>6. ASSUME NEW i \in DOMAIN rec.attempted PROVE Rank(t, rec.attempted[i]) <= j
  BY <1>1, <1>2
<1>7. ASSUME NEW i \in DOMAIN rec.attempted, NEW k \in DOMAIN rec.attempted, i <= k
      PROVE  Rank(t, rec.attempted[i]) <= Rank(t, rec.attempted[k])
  <2>1. CASE k = new
    BY <1>2, <1>6, <2>1
  <2>2. CASE k \in DOMAIN old.attempted
    <3>1. i \in DOMAIN old.attempted
      BY <1>2, <1>7, <2>2
    <3> QED BY <1>2, <1>3, <1>7, <2>2, <3>1
  <2> QED BY <1>2, <2>1, <2>2
<1>8. ASSUME NEW i \in DOMAIN rec.attempted
      PROVE  Cardinality(Tried(rec, rec.attempted[i])) <= Policy[t].maxRetries + 1
  <2>1. CASE rec.attempted[i] = rt
    BY <1>1, <1>4, <2>1
  <2>2. CASE rec.attempted[i] # rt
    <3>1. i \in DOMAIN old.attempted /\ rec.attempted[i] = old.attempted[i]
      BY <1>2, <2>2
    <3> QED BY <1>3, <1>4, <2>2, <3>1
  <2> QED BY <2>1, <2>2
<1> QED BY <1>5, <1>6, <1>7, <1>8 DEF Follows
\* Who is tried is a position of the call's list, its first mention, not behind what
\* was tried before, and not tried too often yet.
LEMMA TriedInTurn ==
  ASSUME GatewayInv, NEW r \in Requests, OnItsWay(r), NEW set, NEW j, NEW a,
         Tries(r, set, j, a)
  PROVE  LET rt == PolicyOf(r).routes[j] IN
         /\ set \subseteq DOMAIN PolicyOf(r).routes /\ j \in set
         /\ \A k \in set : Rank(run[r].task, PolicyOf(r).routes[k]) = k
         /\ \A i \in DOMAIN run[r].attempted : Rank(run[r].task, run[r].attempted[i]) <= j
         /\ a \in Nat /\ a <= PolicyOf(r).maxRetries
         /\ Cardinality(Tried(run[r], rt)) <= a
<1> DEFINE t == run[r].task
           rt == PolicyOf(r).routes[j]
<1>1. /\ run[r] \in LLMRunRecord /\ t \in Tasks
      /\ attempt[r] \in Nat /\ pos[r] \in Nat
      /\ candidates[r] \subseteq DOMAIN PolicyOf(r).routes
      /\ pc[r] = "waiting" => pos[r] \in candidates[r]
      /\ pc[r] = "idle" => run[r].attempted = << >>
  BY DEF GatewayInv, TypeOK, CallsTypeOK, CallOK, InProgress, LLMRunRecord
<1>2. PolicyOf(r).maxRetries \in Nat /\ PolicyOf(r) = Policy[t]
  BY <1>1, PolicyPositions DEF PolicyOf
<1>3. ASSUME Tried(run[r], rt) = {} PROVE Cardinality(Tried(run[r], rt)) = 0
  BY <1>3, FS_EmptySet
<1>4. CASE pc[r] = "idle" /\ set = Eligible(t) /\ j \in set /\ a = 0
  <2>1. DOMAIN run[r].attempted = {} /\ Tried(run[r], rt) = {}
    BY <1>1, <1>4 DEF Tried
  <2>2. set \subseteq DOMAIN PolicyOf(r).routes
    BY <1>1, <1>2, <1>4, EligiblePositions
  <2>3. \A k \in set : Rank(t, PolicyOf(r).routes[k]) = k
    BY <1>1, <1>2, <1>4, EligibleAreFirst
  <2> QED BY <1>2, <1>3, <1>4, <2>1, <2>2, <2>3
<1>5. CASE pc[r] = "waiting" /\ set = candidates[r] /\ j = pos[r] /\ a = attempt[r] + 1
           /\ a <= PolicyOf(r).maxRetries
  <2>1. /\ \A k \in set : Rank(t, PolicyOf(r).routes[k]) = k
        /\ \A i \in DOMAIN run[r].attempted : Rank(t, run[r].attempted[i]) <= j
        /\ Cardinality(Tried(run[r], rt)) <= a
    BY <1>5 DEF OnItsWay, RouteOf
  <2> QED BY <1>1, <1>5, <2>1
<1>6. CASE pc[r] = "waiting" /\ set = candidates[r] /\ j \in set /\ j > pos[r] /\ a = 0
  <2>1. /\ \A k \in set : Rank(t, PolicyOf(r).routes[k]) = k
        /\ \A i \in DOMAIN run[r].attempted : Rank(t, run[r].attempted[i]) <= pos[r]
        /\ Follows(run[r])
    BY <1>6 DEF OnItsWay
  <2>2. j \in Nat /\ j \in DOMAIN Policy[t].routes
    BY <1>1, <1>2, <1>6, PolicyPositions
  <2>3. ASSUME NEW i \in DOMAIN run[r].attempted PROVE Rank(t, run[r].attempted[i]) <= j
    <3>1. PICK k \in DOMAIN Policy[t].routes : Policy[t].routes[k] = run[r].attempted[i]
      BY <2>1 DEF Follows
    <3>2. Rank(t, run[r].attempted[i]) \in Nat
      BY <1>1, <3>1, RankIsFirst
    <3> QED BY <1>1, <1>6, <2>1, <2>2, <3>2
  <2>4. Tried(run[r], rt) = {}
    BY <1>1, <1>6, <2>1, <2>2 DEF Tried
  <2> QED BY <1>1, <1>2, <1>3, <1>6, <2>1, <2>3, <2>4
<1> QED BY <1>4, <1>5, <1>6 DEF Tries

\* Follows looks at its record only: of the next state at the next record.
LEMMA FollowsNext ==
  ASSUME NEW r, Follows(run'[r])
  PROVE  Follows(run[r])'
BY DEF Follows, Rank, First, Tried

\* A call that tries a route stays on its way.
LEMMA TriesOnItsWay ==
  ASSUME GatewayInv, NEW r \in Requests, OnItsWay(r), NEW set, NEW j, NEW a,
         Tries(r, set, j, a)
  PROVE  OnItsWay(r)'
<1> DEFINE t == run[r].task
           rt == PolicyOf(r).routes[j]
<1>1. /\ run[r] \in LLMRunRecord /\ t \in Tasks
      /\ run \in [Requests -> LLMRunRecord]
      /\ r \in DOMAIN pc /\ r \in DOMAIN candidates /\ r \in DOMAIN pos /\ r \in DOMAIN attempt
  BY DEF GatewayInv, TypeOK, CallsTypeOK, LLMRunRecord
<1>2. PICK rec \in LLMRunRecord :
        /\ rec.task = t
        /\ rec.attempted = Append(run[r].attempted, rt)
        /\ run' = [run EXCEPT ![r] = rec]
  BY DEF Tries
<1>3. /\ run'[r] = rec /\ candidates'[r] = set /\ pos'[r] = j /\ attempt'[r] = a
      /\ PolicyOf(r) = Policy[t] /\ PolicyOf(r)' = Policy[t]
      /\ RouteOf(r)' = rt
  BY <1>1, <1>2 DEF Tries, PolicyOf, RouteOf
<1>4. /\ set \subseteq DOMAIN Policy[t].routes /\ j \in set
      /\ \A k \in set : Rank(t, Policy[t].routes[k]) = k
      /\ \A i \in DOMAIN run[r].attempted : Rank(t, run[r].attempted[i]) <= j
      /\ a \in Nat /\ a <= Policy[t].maxRetries
      /\ Cardinality(Tried(run[r], rt)) <= a
  BY <1>3, TriedInTurn
<1>5. rt \in Routes /\ rt = Policy[t].routes[j] /\ Policy[t].maxRetries \in Nat
  BY <1>1, <1>3, <1>4, PolicyPositions
<1>6. /\ Cardinality(Tried(run[r], rt)) \in Nat
      /\ Cardinality(Tried(rec, rt)) = Cardinality(Tried(run[r], rt)) + 1
  BY <1>1, <1>2, <1>5, OneMoreTried
<1>7. /\ Follows(rec)
      /\ \A i \in DOMAIN rec.attempted : Rank(t, rec.attempted[i]) <= j
  <2>1. Follows(run[r]) /\ Rank(t, Policy[t].routes[j]) = j
        /\ Cardinality(Tried(run[r], rt)) <= Policy[t].maxRetries
    BY <1>4, <1>5, <1>6 DEF OnItsWay
  <2> QED BY <1>1, <1>2, <1>4, <1>5, <2>1, FollowsOn
<1>8. Cardinality(Tried(rec, rt)) <= a + 1
  BY <1>4, <1>6
<1>9. Follows(run[r])'
  <2>1. Follows(run'[r])
    BY <1>3, <1>7
  <2> QED BY <2>1, FollowsNext
<1>10. \A k \in candidates'[r] : Rank(run'[r].task, PolicyOf(r)'.routes[k]) = k
  BY <1>2, <1>3, <1>4
<1>11. /\ \A i \in DOMAIN run'[r].attempted : Rank(run'[r].task, run'[r].attempted[i]) <= pos'[r]
       /\ Cardinality(Tried(run'[r], RouteOf(r)')) <= attempt'[r] + 1
  BY <1>2, <1>3, <1>7, <1>8
<1> QED BY <1>9, <1>10, <1>11 DEF OnItsWay, Rank, First, Tried

\* A record is followed or not by its task and attempts alone.
LEMMA SameFollows ==
  ASSUME NEW old, NEW rec, rec.task = old.task, rec.attempted = old.attempted, Follows(old)
  PROVE  Follows(rec)
BY DEF Follows, Tried

\* A call that ends, is lost or does not move stays on its way.
LEMMA ClosesOnItsWay ==
  ASSUME GatewayInv, NEW r \in Requests, OnItsWay(r), Closes(r)
  PROVE  OnItsWay(r)'
<1>1. PICK rec \in LLMRunRecord :
        /\ rec.task = run[r].task
        /\ rec.attempted = run[r].attempted
        /\ run' = [run EXCEPT ![r] = rec]
  BY DEF Closes
<1>2. /\ run'[r] = rec /\ candidates'[r] = {} /\ pc'[r] # "waiting"
  BY <1>1 DEF Closes, Forget, GatewayInv, TypeOK, CallsTypeOK
<1>3. Follows(rec)
  BY <1>1, SameFollows DEF OnItsWay
<1>4. Follows(run'[r])
  BY <1>2, <1>3
<1> QED BY <1>2, <1>4, FollowsNext DEF OnItsWay

LEMMA OthersOnTheirWay ==
  ASSUME NEW r \in Requests, OnItsWay(r),
         run'[r] = run[r], candidates'[r] = candidates[r], pc'[r] = pc[r],
         pos'[r] = pos[r], attempt'[r] = attempt[r]
  PROVE  OnItsWay(r)'
<1>1. PolicyOf(r)' = PolicyOf(r) /\ RouteOf(r)' = RouteOf(r)
  BY DEF PolicyOf, RouteOf
<1> QED BY <1>1 DEF OnItsWay, Follows, Rank, First, Tried

\* A step of one call moves no other.
LEMMA MovesAlone ==
  ASSUME GatewayInv, NEW r \in Requests, Moves(r), NEW q \in Requests \ {r}
  PROVE  /\ run'[q] = run[q] /\ candidates'[q] = candidates[q] /\ pc'[q] = pc[q]
         /\ pos'[q] = pos[q] /\ attempt'[q] = attempt[q]
BY DEF Moves, Closes, Forget, Tries, GatewayInv, TypeOK, CallsTypeOK

LEMMA RestartOnItsWay ==
  ASSUME GatewayInv, RoutingInv, Restart, NEW r \in Requests
  PROVE  OnItsWay(r)'
<1>1. candidates'[r] = {} /\ pc'[r] # "waiting"
  BY DEF Restart, GatewayInv, TypeOK, CallsTypeOK
<1>2. CASE pc[r] = "waiting"
  <2>1. run'[r].attempted = << >>
    BY <1>2 DEF Restart, NewRun
  <2>2. DOMAIN run'[r].attempted = {}
    BY <2>1
  <2>3. Follows(run[r])'
    BY <2>2 DEF Follows
  <2> QED BY <1>1, <2>3 DEF OnItsWay
<1>3. CASE pc[r] # "waiting"
  <2>1. run'[r] = run[r]
    BY <1>3 DEF Restart
  <2>2. Follows(run'[r])
    BY <2>1 DEF RoutingInv, OnItsWay
  <2> QED BY <1>1, <2>2, FollowsNext DEF OnItsWay
<1> QED BY <1>2, <1>3

LEMMA InitRouting == Init => RoutingInv
<1> SUFFICES ASSUME Init, NEW r \in Requests PROVE OnItsWay(r)
  BY DEF RoutingInv
<1>1. run[r].attempted = << >> /\ candidates[r] = {} /\ pc[r] = "idle"
  BY DEF Init, NewRun
<1>2. DOMAIN run[r].attempted = {}
  BY <1>1
<1> QED BY <1>1, <1>2 DEF OnItsWay, Follows

LEMMA NextRouting == GatewayInv /\ RoutingInv /\ [Next]_vars => RoutingInv'
<1> SUFFICES ASSUME GatewayInv, RoutingInv, [Next]_vars, NEW q \in Requests PROVE OnItsWay(q)'
  BY DEF RoutingInv
<1>0. OnItsWay(q)
  BY DEF RoutingInv
<1>1. ASSUME NEW r \in Requests, CacheHit(r) \/ NoRoute(r) \/ Route(r) \/ Reply(r)
      PROVE  OnItsWay(q)'
  <2>1. Moves(r)
    BY <1>1, CallMoves
  <2>2. CASE q = r
    BY <1>0, <2>1, <2>2, ClosesOnItsWay, TriesOnItsWay DEF Moves
  <2>3. CASE q # r
    BY <1>0, <2>1, <2>3, MovesAlone, OthersOnTheirWay
  <2> QED BY <2>2, <2>3
<1>2. ASSUME NEW rt \in Routes, SetRoute(rt) PROVE OnItsWay(q)'
  BY <1>0, <1>2, OthersOnTheirWay DEF SetRoute, locals
<1>3. CASE UNCHANGED vars
  BY <1>0, <1>3, OthersOnTheirWay DEF vars
<1> QED BY <1>1, <1>2, <1>3, RestartOnItsWay DEF Next

LEMMA RoutingHolds == Spec => []RoutingInv
BY InitRouting, NextRouting, InvariantHolds, PTL DEF Spec

\* Whatever the policies' lists repeat and however breakers and the registry change
\* while calls run, every call tries approved routes only, in the policy's order and
\* none more often than it may be retried.
THEOREM AttemptsFollow == Spec => []AttemptsFollowPolicy
<1>1. RoutingInv => AttemptsFollowPolicy
  <2> SUFFICES ASSUME RoutingInv, NEW r \in Requests PROVE Follows(run[r])
    BY DEF AttemptsFollowPolicy, Follows, Tried
  <2> QED BY DEF RoutingInv, OnItsWay
<1> QED BY <1>1, RoutingHolds, PTL
-----------------------------------------------------------------------------
(* A route that has become unusable drains.                                *)

\* What UnusableRouteDrains says of one step.
LateAttempt(r, rt) ==
  (pc'[r] = "waiting" /\ run'[r].attempted # run[r].attempted /\ rt = RouteOf(r)')
    => Holds(r, rt) \/ Usable(rt, run[r].task)
StaysOpen(rt) == (\A r \in Requests : ~Holds(r, rt)) => rt \in open' \/ Restart

\* A call tries what it was routed to, or what is usable when it starts.
LEMMA TriesWhatItHolds ==
  ASSUME GatewayInv, NEW r \in Requests, NEW set, NEW j, NEW a, Tries(r, set, j, a), NEW rt
  PROVE  LateAttempt(r, rt)
<1>1. /\ run[r].task \in Tasks
      /\ run \in [Requests -> LLMRunRecord] /\ r \in DOMAIN pos
      /\ candidates[r] \subseteq DOMAIN PolicyOf(r).routes
      /\ candidates[r] \subseteq Nat /\ pos[r] \in Nat
      /\ pc[r] = "waiting" => pos[r] \in candidates[r]
  BY DEF GatewayInv, TypeOK, CallsTypeOK, CallOK, LLMRunRecord
<1>2. RouteOf(r)' = PolicyOf(r).routes[j]
  BY <1>1 DEF Tries, RouteOf, PolicyOf
<1>3. CASE pc[r] = "idle" /\ j \in Eligible(run[r].task)
  <2>1. Usable(PolicyOf(r).routes[j], run[r].task)
    BY <1>1, <1>3 DEF Eligible, Usable, PolicyOf
  <2> QED BY <1>2, <2>1 DEF LateAttempt
<1>4. CASE pc[r] = "waiting" /\ j \in candidates[r] /\ j >= pos[r]
  <2>1. Holds(r, PolicyOf(r).routes[j])
    BY <1>4 DEF Holds
  <2> QED BY <1>2, <2>1 DEF LateAttempt
<1>5. CASE pc[r] = "waiting" /\ j = pos[r]
  BY <1>1, <1>4, <1>5
<1>6. CASE pc[r] = "waiting" /\ j \in candidates[r] /\ j > pos[r]
  BY <1>1, <1>4, <1>6
<1> QED BY <1>3, <1>5, <1>6 DEF Tries

\* Only an answer of a route closes its breaker, to a call that holds it.
LEMMA HeldBreakerCloses ==
  ASSUME GatewayInv, NEW r \in Requests,
         CacheHit(r) \/ NoRoute(r) \/ Route(r) \/ Reply(r),
         NEW rt \in open
  PROVE  rt \in open' \/ Holds(r, rt)
<1>1. CASE CacheHit(r) \/ NoRoute(r) \/ Route(r)
  BY <1>1 DEF CacheHit, NoRoute, Route, breaker
<1>2. CASE Reply(r)
  <2>1. pc[r] = "waiting"
    BY <1>2 DEF Reply, TimesOut, Errors, ProviderFails, Malformed, Validates, InventsCitation
  <2>2. pos[r] \in candidates[r] /\ pos[r] \in Nat
    BY <2>1 DEF GatewayInv, TypeOK, CallsTypeOK, CallOK
  <2>3. Holds(r, RouteOf(r))
    BY <2>1, <2>2 DEF Holds, RouteOf
  <2>4. RecordFailure(RouteOf(r)) \/ RecordSuccess(RouteOf(r)) \/ UNCHANGED breaker
    BY <1>2 DEF Reply, TimesOut, Errors, ProviderFails, Malformed, Validates, InventsCitation
  <2>5. open' = open \/ open' = open \cup {RouteOf(r)} \/ open' = open \ {RouteOf(r)}
    BY <2>4 DEF RecordFailure, RecordSuccess, breaker
  <2> QED BY <2>3, <2>5
<1> QED BY <1>1, <1>2

LEMMA StepDrains ==
  ASSUME GatewayInv, [Next]_vars
  PROVE  /\ \A r \in Requests, rt \in Routes : LateAttempt(r, rt)
         /\ \A rt \in open : StaysOpen(rt)
<1>1. ASSUME NEW q \in Requests, CacheHit(q) \/ NoRoute(q) \/ Route(q) \/ Reply(q)
      PROVE  /\ \A r \in Requests, rt \in Routes : LateAttempt(r, rt)
             /\ \A rt \in open : StaysOpen(rt)
  <2>1. Moves(q)
    BY <1>1, CallMoves
  <2>2. ASSUME NEW r \in Requests \ {q}, NEW rt PROVE LateAttempt(r, rt)
    BY <2>1, MovesAlone DEF LateAttempt
  <2>3. ASSUME NEW rt PROVE LateAttempt(q, rt)
    <3>1. CASE Closes(q)
      <4>1. pc'[q] # "waiting"
        BY <3>1 DEF Closes, GatewayInv, TypeOK, CallsTypeOK
      <4> QED BY <4>1 DEF LateAttempt
    <3> QED BY <2>1, <3>1, TriesWhatItHolds DEF Moves
  <2>4. ASSUME NEW rt \in open PROVE StaysOpen(rt)
    BY <1>1, HeldBreakerCloses DEF StaysOpen
  <2> QED BY <2>2, <2>3, <2>4
<1>2. ASSUME NEW rt \in Routes, SetRoute(rt)
      PROVE  run' = run /\ open' = open
  BY <1>2 DEF SetRoute, breaker
<1>3. CASE UNCHANGED vars
  BY <1>3 DEF vars, LateAttempt, StaysOpen
<1>4. CASE Restart
  <2>1. \A r \in Requests : pc'[r] # "waiting"
    BY <1>4 DEF Restart, GatewayInv, TypeOK, CallsTypeOK
  <2> QED BY <1>4, <2>1 DEF LateAttempt, StaysOpen
<1>5. CASE \E rt \in Routes : SetRoute(rt)
  BY <1>2, <1>5 DEF LateAttempt, StaysOpen
<1> QED BY <1>1, <1>3, <1>4, <1>5 DEF Next

\* A route that has become unusable is tried only by calls that were routed to it
\* before, and without such a call nothing but a restart closes its breaker.
THEOREM UnusableRoutesDrain == Spec => UnusableRouteDrains
<1>1. GatewayInv /\ [Next]_vars =>
        [/\ \A r \in Requests, rt \in Routes :
              (pc'[r] = "waiting" /\ run'[r].attempted # run[r].attempted /\ rt = RouteOf(r)')
                => Holds(r, rt) \/ Usable(rt, run[r].task)
         /\ \A rt \in open :
              (\A r \in Requests : ~Holds(r, rt)) => rt \in open' \/ Restart]_vars
  BY StepDrains DEF LateAttempt, StaysOpen
<1> QED BY <1>1, InvariantHolds, PTL DEF Spec, UnusableRouteDrains
=============================================================================
