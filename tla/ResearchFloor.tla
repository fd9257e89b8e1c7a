---------------------------- MODULE ResearchFloor ----------------------------
(***************************************************************************)
(* The research floor and its callers: GET /floor/{instrument_id}          *)
(* (terminal.py floor_for), the investigation it awaits (floor.py: three   *)
(* analysts in parallel, then bull and bear in parallel, then the judge),  *)
(* the agents (agents/*.py) with their review queue (review_queue.py), and *)
(* POST /chat (chat.py).  Each agent makes one call of LLMGateway.request, *)
(* which the floor knows by GatewayCalls only.                             *)
(*                                                                         *)
(* One event loop: a handler runs until it awaits something unfinished, so *)
(* what follows an await is in the step that ends it; between two steps    *)
(* any task may run.  All of it but the queue's file is in memory, so a    *)
(* restart begins again from Init.                                         *)
(*                                                                         *)
(* Abstracted: an agent's result is the data its call returned (none: the  *)
(* result marked unavailable, with confidence 0, no evidence and, from the *)
(* judge, NO_TRADE).  Of the queue the items in memory are kept, and that  *)
(* writing its file may raise; what the file holds is not.  The market and *)
(* historical agents compute from the bars without awaiting or keeping     *)
(* anything and add no state.                                              *)
(***************************************************************************)
EXTENDS Naturals

CONSTANTS
  Pages,        \* requests for a floor page
  Questions,    \* requests to the chat
  Instruments,
  Traded,       \* those with bars up to the terminal's date
  About,        \* the instrument a page is about; of a question, maybe None
  None,
  Ids,          \* source ids
  Stored,       \* evidence_by_id: the ids of the documents of an instrument
  Filing,       \* the id of the notice made up for an instrument without any
  Data, NoData, \* validated results, records [cites, low, conflict, ...]; None
  Analysts,     \* among "news", "fundamental", "sentiment"
  Debaters,     \* among "bull", "bear"
  Reviewing,    \* FALSE: the floor was built without a review queue
  QueueMayFail  \* TRUE: the queue has a file, and appending to it may raise

Agents == Analysts \cup Debaters \cup {"judge"}
Calls == (Pages \X Agents) \cup (Questions \X {"chat"})

ASSUME FloorAssumption ==
  /\ Traded \subseteq Instruments
  /\ About \in [Pages \cup Questions -> Instruments \cup {None}]
  /\ \A p \in Pages : About[p] \in Instruments
  /\ None \notin Instruments
  /\ Pages \cap Questions = {}
  /\ Stored \in [Instruments -> SUBSET Ids]
  /\ Filing \in [Instruments -> Ids]
  /\ \A d \in Data : d.cites \subseteq Ids /\ d.low \in BOOLEAN /\ d.conflict \in BOOLEAN
  /\ NoData \notin Data /\ None \notin Data \cup {NoData}
  /\ Analysts \subseteq {"news", "fundamental", "sentiment"}
  /\ Debaters \subseteq {"bull", "bear"}
  /\ Reviewing \in BOOLEAN /\ QueueMayFail \in BOOLEAN

VARIABLES
  status, asked, answer,    \* the gateway calls (GatewayCalls)
  stage,   \* stage[p]: 0 not investigated, 1 the analysts' tasks exist, 2 the
           \* debaters' too, 3 the judge was called
  outcome, \* outcome[p]: "idle", "pending", "shown", "nobars" or "failed"
  view,    \* view[p]: the page the client got
  cache,   \* _floor_cache
  queue,   \* the review queue, without its order: items [call, reason]
  broken,  \* the calls whose agent raised in enqueue, after its call returned
  chat     \* chat[q]: "idle", "limited", "pending", "refused", "grounded", "failed"

calls == <<status, asked, answer>>
pages == <<stage, outcome, view, cache>>
reviews == <<queue, broken>>
floorVars == <<calls, pages, reviews, chat>>

\* Mutant: every agent reads the documents of all instruments.
PayloadOfAll(c) == UNION {Stored[i] : i \in Instruments}

\* The sources an agent, or the chat, passes to the gateway.
AllStored == UNION {Stored[i] : i \in Instruments}
Evidence(i) == IF Stored[i] # {} THEN Stored[i] ELSE {Filing[i]}
Payload(c) ==
  IF c[1] \in Pages THEN Evidence(About[c[1]])
  ELSE IF About[c[1]] = None THEN AllStored ELSE Stored[About[c[1]]]

\* What a prompt is made of besides the evidence: the agent's instruction and
\* the instrument, for the judge also the other agents' theses, which are left
\* out here (more calls are alike); of a question, its own words.
Key(c) ==
  IF c[1] \in Pages THEN [agent |-> c[2], about |-> About[c[1]]] ELSE [question |-> c[1]]

G == INSTANCE GatewayCalls WITH Requests <- Calls, Keys <- {Key(c) : c \in Calls}

\* A page: for every agent the data of its call.
NoPage == [a \in Agents |-> None]
PageOf(p) == [a \in Agents |-> answer[<<p, a>>]]

StageOf(a) == IF a \in Analysts THEN 1 ELSE IF a \in Debaters THEN 2 ELSE 3

\* The task has ended with a result: its call returned, and so did enqueue.
Back(c) == status[c] = "done" /\ c \notin broken

\* Mutants: the first of the tasks is enough; every task must bring data.
AnyBack(p, as) == \E a \in as : Back(<<p, a>>)
AllAvailable(p, as) == \A a \in as : Back(<<p, a>>) /\ answer[<<p, a>>] # NoData
AllBack(p, as) == \A a \in as : Back(<<p, a>>)

-----------------------------------------------------------------------------
(* An agent's task: run() up to its await, and from the gateway's return   *)
(* to its own.                                                             *)

\* Mutant: a reason that ReviewReason does not have.
FlagsUnknown(a, d) == IF d = NoData THEN {"unavailable"} ELSE {}

\* What an agent flags for review in data d (or none): the conflict of a news
\* story is one of polarities, of sentiment a sign of manipulation.  Sentiment
\* compares no confidence and fundamental no polarities.
Flags(a, d) ==
  IF d = NoData THEN {"degraded"}
  ELSE (IF d.low /\ a \in {"news", "fundamental"} THEN {"low_confidence"} ELSE {})
       \cup (IF d.conflict /\ a \in {"news", "sentiment"} THEN {"conflict"} ELSE {})

ToReview(c, d) == IF Reviewing /\ c[2] \in Analysts THEN Flags(c[2], d) ELSE {}

\* A conflict is flagged before a low confidence.
UpTo(last, whys) == IF last = "conflict" THEN whys \ {"low_confidence"} ELSE whys

\* Mutant: an error of the file is swallowed, with what is left to flag.
EnqueuesBestEffort(c, d) ==
  /\ \/ queue' = queue \cup [call : {c}, reason : ToReview(c, d)]
     \/ /\ QueueMayFail
        /\ \E last \in ToReview(c, d) :
             queue' = queue \cup [call : {c}, reason : UpTo(last, ToReview(c, d))]
  /\ UNCHANGED broken

\* enqueue, once for each reason: the item is in memory before the file is
\* written; when that write raises, so does the agent.
Enqueues(c, d) ==
  \/ /\ queue' = queue \cup [call : {c}, reason : ToReview(c, d)]
     /\ UNCHANGED broken
  \/ /\ QueueMayFail
     /\ \E last \in ToReview(c, d) :
          queue' = queue \cup [call : {c}, reason : UpTo(last, ToReview(c, d))]
     /\ broken' = broken \cup {c}

\* The gateway returns to the agent, which flags the result and returns.
Returns(c, d) ==
  /\ IF d = NoData THEN G!Refuse(c) ELSE G!Answer(c, d)
  /\ Enqueues(c, d)

\* The task's first step: the call waits, or ends without waiting.
AgentRuns(p, a) ==
  /\ a # "judge"
  /\ stage[p] >= StageOf(a)
  /\ status[<<p, a>>] = "idle"
  /\ \/ G!Ask(<<p, a>>) /\ UNCHANGED reviews
     \/ \E d \in Data \cup {NoData} : Returns(<<p, a>>, d)
     \/ G!Raise(<<p, a>>) /\ UNCHANGED reviews
  /\ UNCHANGED <<pages, chat>>

AgentReturns(p, a) ==
  /\ a # "judge"
  /\ status[<<p, a>>] = "waiting"
  /\ \/ \E d \in Data \cup {NoData} : Returns(<<p, a>>, d)
     \/ G!Raise(<<p, a>>) /\ UNCHANGED reviews
  /\ UNCHANGED <<pages, chat>>

-----------------------------------------------------------------------------
(* floor_for and investigate.                                              *)

\* The results become the page, cached and returned.
Shows(p, page) ==
  /\ outcome' = [outcome EXCEPT ![p] = "shown"]
  /\ view' = [view EXCEPT ![p] = page]
  /\ cache' = [cache EXCEPT ![About[p]] = page]

\* Mutant: a cached page with an unavailable agent is investigated again.
StartPageAfresh(p) ==
  LET i == About[p]
      whole == cache[i] # NoPage /\ \A a \in Agents : cache[i][a] # NoData
  IN /\ outcome[p] = "idle" /\ i \in Traded
     /\ view' = IF whole THEN [view EXCEPT ![p] = cache[i]] ELSE view
     /\ outcome' = [outcome EXCEPT ![p] = IF whole THEN "shown" ELSE "pending"]
     /\ stage' = [stage EXCEPT ![p] = IF whole THEN 0 ELSE 1]
     /\ UNCHANGED <<calls, cache, reviews, chat>>

StartPage(p) ==
  LET i == About[p]
  IN /\ outcome[p] = "idle"
     /\ \/ /\ cache[i] # NoPage
           /\ view' = [view EXCEPT ![p] = cache[i]]
           /\ outcome' = [outcome EXCEPT ![p] = "shown"]
           /\ UNCHANGED stage
        \/ /\ cache[i] = NoPage /\ i \notin Traded
           /\ outcome' = [outcome EXCEPT ![p] = "nobars"]
           /\ UNCHANGED <<stage, view>>
        \/ /\ cache[i] = NoPage /\ i \in Traded
           /\ outcome' = [outcome EXCEPT ![p] = "pending"]
           /\ stage' = [stage EXCEPT ![p] = 1]
           /\ UNCHANGED view
     /\ UNCHANGED <<calls, cache, reviews, chat>>

\* The analysts' gather returns their results; the debaters' tasks are made.
StartDebate(p) ==
  /\ outcome[p] = "pending" /\ stage[p] = 1
  /\ AllBack(p, Analysts)
  /\ stage' = [stage EXCEPT ![p] = 2]
  /\ UNCHANGED <<calls, outcome, view, cache, reviews, chat>>

\* The judge is awaited directly: what follows its return is the same step.
JudgeReturns(p) ==
  LET c == <<p, "judge">>
  IN \/ /\ \E d \in Data \cup {NoData} :
             /\ Returns(c, d)
             /\ Shows(p, [PageOf(p) EXCEPT !["judge"] = d])
     \/ /\ G!Raise(c)
        /\ outcome' = [outcome EXCEPT ![p] = "failed"]
        /\ UNCHANGED <<view, cache, reviews>>

\* The debaters' gather returns; the judge is called.
StartJudge(p) ==
  /\ outcome[p] = "pending" /\ stage[p] = 2
  /\ AllBack(p, Debaters)
  /\ stage' = [stage EXCEPT ![p] = 3]
  /\ \/ G!Ask(<<p, "judge">>) /\ UNCHANGED <<outcome, view, cache, reviews>>
     \/ JudgeReturns(p)
  /\ UNCHANGED chat

FinishPage(p) ==
  /\ outcome[p] = "pending" /\ stage[p] = 3
  /\ status[<<p, "judge">>] = "waiting"
  /\ JudgeReturns(p)
  /\ UNCHANGED <<stage, chat>>

\* gather passes on the first exception; the sibling tasks go on.
FailPage(p) ==
  /\ outcome[p] = "pending" /\ stage[p] \in {1, 2}
  /\ \E a \in Agents :
       StageOf(a) = stage[p] /\ (status[<<p, a>>] = "raised" \/ <<p, a>> \in broken)
  /\ outcome' = [outcome EXCEPT ![p] = "failed"]
  /\ UNCHANGED <<calls, stage, view, cache, reviews, chat>>

-----------------------------------------------------------------------------
(* POST /chat.                                                             *)

ChatReturns(q) ==
  LET c == <<q, "chat">>
  IN /\ \/ /\ G!Refuse(c)
           /\ chat' = [chat EXCEPT ![q] = "refused"]
        \/ /\ \E d \in Data : G!Answer(c, d)
           /\ chat' = [chat EXCEPT ![q] = "grounded"]
        \/ /\ G!Raise(c)
           /\ chat' = [chat EXCEPT ![q] = "failed"]
     /\ UNCHANGED <<pages, reviews>>

\* The rate limiter may answer 429; a question without any evidence is refused.
StartChat(q) ==
  LET c == <<q, "chat">>
  IN /\ chat[q] = "idle"
     /\ \/ /\ chat' = [chat EXCEPT ![q] = "limited"]
           /\ UNCHANGED <<calls, pages, reviews>>
        \/ /\ Payload(c) = {}
           /\ chat' = [chat EXCEPT ![q] = "refused"]
           /\ UNCHANGED <<calls, pages, reviews>>
        \/ /\ Payload(c) # {}
           /\ \/ /\ G!Ask(c)
                 /\ chat' = [chat EXCEPT ![q] = "pending"]
                 /\ UNCHANGED <<pages, reviews>>
              \/ ChatReturns(q)

FinishChat(q) == chat[q] = "pending" /\ ChatReturns(q)

-----------------------------------------------------------------------------
Init ==
  /\ status = [c \in Calls |-> "idle"]
  /\ asked = [c \in Calls |-> [key |-> Key(c), ids |-> Payload(c)]]
  /\ answer = [c \in Calls |-> NoData]
  /\ stage = [p \in Pages |-> 0]
  /\ outcome = [p \in Pages |-> "idle"]
  /\ view = [p \in Pages |-> NoPage]
  /\ cache = [i \in Instruments |-> NoPage]
  /\ queue = {}
  /\ broken = {}
  /\ chat = [q \in Questions |-> "idle"]

PageStep(p) == StartDebate(p) \/ StartJudge(p) \/ FinishPage(p) \/ FailPage(p)
AgentStep(p, a) == AgentRuns(p, a) \/ AgentReturns(p, a)

Next ==
  \/ \E p \in Pages :
       \/ StartPage(p)
       \/ PageStep(p)
       \/ \E a \in Agents : AgentStep(p, a)
  \/ \E q \in Questions : StartChat(q) \/ FinishChat(q)

Spec == Init /\ [][Next]_floorVars

\* The loop runs every task that can run, and every gateway call ends
\* (LLMGateway!EveryCallEnds); clients need not ask.
Fairness ==
  /\ \A p \in Pages : /\ WF_floorVars(PageStep(p))
                      /\ \A a \in Agents : WF_floorVars(AgentStep(p, a))
  /\ \A q \in Questions : WF_floorVars(FinishChat(q))

FairSpec == Spec /\ Fairness

-----------------------------------------------------------------------------
(* Properties.                                                             *)

\* Every variable has its type.
TypeOK ==
  /\ status \in [Calls -> {"idle", "waiting", "done", "raised"}]
  /\ asked \in [Calls -> [key : {Key(c) : c \in Calls}, ids : SUBSET Ids]]
  /\ answer \in [Calls -> Data \cup {NoData}]
  /\ stage \in [Pages -> 0..3]
  /\ outcome \in [Pages -> {"idle", "pending", "shown", "nobars", "failed"}]
  /\ view \in [Pages -> [Agents -> Data \cup {NoData, None}]]
  /\ cache \in [Instruments -> [Agents -> Data \cup {NoData, None}]]
  /\ queue \subseteq [call : Calls, reason : {"degraded", "low_confidence", "conflict"}]
  /\ broken \subseteq Calls
  /\ chat \in [Questions -> {"idle", "limited", "pending", "refused", "grounded", "failed"}]

\* A cached or shown page of an instrument is one whole investigation of that
\* instrument, every agent having returned: never a mixture of two that
\* ran at the same time, a part of one that failed, or one still changing.
WholePageOf(i, page) ==
  \E p \in Pages : /\ About[p] = i /\ page = PageOf(p)
                  /\ \A a \in Agents : Back(<<p, a>>)

PagesAreWhole ==
  /\ \A i \in Instruments : cache[i] # NoPage => WholePageOf(i, cache[i])
  /\ \A p \in Pages : outcome[p] = "shown" => WholePageOf(About[p], view[p])

\* What a client is shown rests on the evidence stored for what it asked about
\* (chat.py: "answers only from stored, timestamped evidence"): a page cites the
\* evidence of its instrument, an answer of the chat the stored documents of the
\* instrument asked about, and without any there is no answer.
ShownIsGrounded ==
  /\ \A p \in Pages, a \in Agents :
       outcome[p] = "shown" /\ view[p][a] # NoData =>
         view[p][a].cites \subseteq Evidence(About[p])
  /\ \A q \in Questions : chat[q] = "grounded" =>
       LET stored == IF About[q] = None THEN AllStored ELSE Stored[About[q]]
       IN stored # {} /\ answer[<<q, "chat">>].cites \subseteq stored

Queued(c, why) == [call |-> c, reason |-> why] \in queue

\* With a review queue, no debate starts, and no agent hands on a result, before
\* a human can see what is wrong with it: that it is missing, an extraction of
\* low confidence, a story told both ways, a sign of manipulation; also when a
\* write of the queue's file fails between two reasons, and for pages that fail.
\* And nothing is queued that is not so.
DebateIsReviewed ==
  /\ \A p \in Pages, a \in Analysts :
       LET c == <<p, a>>
           d == answer[c]
       IN Reviewing /\ (stage[p] >= 2 \/ Back(c)) =>
            IF d = NoData THEN Queued(c, "degraded")
            ELSE /\ d.low /\ a \in {"news", "fundamental"} => Queued(c, "low_confidence")
                 /\ d.conflict /\ a \in {"news", "sentiment"} => Queued(c, "conflict")
  /\ \A x \in queue :
       LET d == answer[x.call]
       IN /\ status[x.call] = "done" /\ x.call[2] \in Analysts
          /\ x.reason = "degraded" <=> d = NoData
          /\ x.reason = "low_confidence" => d.low
          /\ x.reason = "conflict" => d.conflict

\* review_queue.py: "Low-confidence extractions, conflicting claims, and degraded
\* (LLM-unavailable) results are queued for a human instead of flowing downstream
\* unquestioned."  The extractions are those of news and fundamental; flowing
\* downstream is the debate.
NothingUnquestioned ==
  \A p \in Pages, a \in Analysts \cap {"news", "fundamental"} :
    LET c == <<p, a>>
        d == answer[c]
    IN Reviewing /\ stage[p] >= 2 =>
         IF d = NoData THEN Queued(c, "degraded")
         ELSE /\ d.low => Queued(c, "low_confidence")
              /\ d.conflict => Queued(c, "conflict")

\* Once a page is cached and no investigation of its instrument is under way,
\* every later request for it gets that page and starts no investigation.
Settled(i) ==
  cache[i] # NoPage /\ \A p \in Pages : About[p] = i => outcome[p] # "pending"

SettledPageStays ==
  [][\A i \in Instruments : Settled(i) =>
       /\ Settled(i)' /\ cache'[i] = cache[i]
       /\ \A p \in Pages : About[p] = i /\ outcome[p] = "idle" /\ outcome'[p] # "idle"
            => outcome'[p] = "shown" /\ view'[p] = cache[i]]_floorVars

\* Every page that is investigated is shown or fails, whichever agents are
\* unavailable or raise, and every question is answered or refused.
EveryRequestEnds ==
  /\ \A p \in Pages : outcome[p] = "pending" ~> outcome[p] \in {"shown", "failed"}
  /\ \A q \in Questions : chat[q] = "pending" ~> chat[q] \in {"refused", "grounded", "failed"}
=============================================================================
