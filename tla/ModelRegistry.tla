----------------------------- MODULE ModelRegistry -----------------------------
(***************************************************************************)
(* services/quant/model_registry.py: model cards, their approval states,   *)
(* champion / rollback, and the JSON-lines file every change rewrites.     *)
(* The file is opened with "w", so a write that raises or a process that   *)
(* dies in the middle leaves a prefix of the cards; a new process never    *)
(* reads the file back.                                                    *)
(*                                                                         *)
(* Abstracted: a card is its id and approval state.                        *)
(***************************************************************************)
EXTENDS Naturals, Sequences

CONSTANTS
  Models,      \* model ids (uuids: never handed out twice)
  Grants,      \* the approvals callers pass to set_approval
  MayFail,     \* TRUE: writing the file may raise OSError
  MayCrash,    \* TRUE: the process may die while the file is being written
  MaxHistory   \* bound on the champion history

Approval == {"shadow", "approved", "rejected", "champion"}

\* No caller passes CHAMPION to set_approval (quant_demo.py, the tests).
ASSUME RegistryAssumption ==
  /\ Grants \subseteq Approval \ {"champion"}
  /\ MayFail \in BOOLEAN
  /\ MayCrash \in BOOLEAN
  /\ MaxHistory \in Nat

VARIABLES
  cards,    \* ModelRegistry._cards: the approval of each model, or "absent"
  order,    \* the dict's insertion order, in which cards are written
  history,  \* ModelRegistry._champion_history
  file,     \* the file: the approval written for each model, or "absent"
  synced    \* history variable: this process's last _persist completed

vars == <<cards, order, history, file, synced>>

NoCards == [m \in Models |-> "absent"]
Known == {m \in Models : cards[m] # "absent"}

\* The first k cards in dict order: what a torn write leaves.
Prefix(after, ord, k) ==
  [m \in Models |-> IF \E i \in 1..k : ord[i] = m THEN after[m] ELSE "absent"]

Torn(after, ord) == \E k \in 0..(Len(ord) - 1) : file' = Prefix(after, ord, k)

Remember(after, ord, hist) == cards' = after /\ order' = ord /\ history' = hist

\* The process is gone, and a new ModelRegistry(path) starts empty.
Gone == Remember(NoCards, << >>, << >>) /\ synced' = FALSE

\* _persist after a change in memory: the whole file is rewritten, or open or
\* write raises (the change in memory stays), or the process dies in the middle.
Persist(after, ord, hist) ==
  \/ /\ Remember(after, ord, hist)
     /\ file' = after
     /\ synced' = TRUE
  \/ /\ MayFail
     /\ Remember(after, ord, hist)
     /\ UNCHANGED file \/ Torn(after, ord)
     /\ synced' = FALSE
  \/ /\ MayCrash
     /\ Torn(after, ord)
     /\ Gone

\* Mutants: the demoted champion gets a state of its own; no demotion at all.
DemotedToRetired(m) ==
  [k \in Models |-> IF cards[k] = "champion" /\ k # m THEN "retired" ELSE cards[k]]
CrownedOnly(m) == [cards EXCEPT ![m] = "champion"]

\* Every champion but m becomes APPROVED, then m becomes champion.
Demoted(m) ==
  [k \in Models |-> IF cards[k] = "champion" /\ k # m THEN "approved" ELSE cards[k]]
Crowned(m) == [Demoted(m) EXCEPT ![m] = "champion"]

Register(m) ==
  /\ m \notin Known
  /\ Persist([cards EXCEPT ![m] = "shadow"], Append(order, m), history)

\* Mutant: the approval is not written to the file.
SetApprovalUnsaved(m, a) ==
  /\ m \in Known
  /\ cards' = [cards EXCEPT ![m] = a]
  /\ UNCHANGED <<order, history, file, synced>>

SetApproval(m, a) ==
  /\ m \in Known
  /\ Persist([cards EXCEPT ![m] = a], order, history)

\* Mutant: a model crowned twice in a row is in the history twice.
ToppedAlways(m) == Append(history, m)

\* The champion history with m on top; a model crowned twice in a row once.
Topped(m) ==
  IF history = << >> \/ history[Len(history)] # m THEN Append(history, m) ELSE history

SetChampion(m) ==
  /\ m \in Known
  /\ Len(Topped(m)) <= MaxHistory
  /\ Persist(Crowned(m), order, Topped(m))

\* set_champion of an unknown id: the loop has demoted the champion before the
\* KeyError, and nothing is written.
SetChampionUnknown(m) ==
  /\ m \notin Known
  /\ cards' = Demoted(m)
  /\ UNCHANGED <<order, history, file, synced>>

\* rollback() with at least two champions so far (otherwise it returns None).
Previous == history[Len(history) - 1]

Rollback ==
  /\ Len(history) >= 2
  /\ Persist(Crowned(Previous), order, SubSeq(history, 1, Len(history) - 1))

Restart ==
  /\ Gone
  /\ UNCHANGED file

Init ==
  /\ cards = NoCards
  /\ order = << >>
  /\ history = << >>
  /\ file = NoCards
  /\ synced = FALSE

Next ==
  \/ \E m \in Models : Register(m) \/ SetChampion(m) \/ SetChampionUnknown(m)
  \/ \E m \in Models, a \in Grants : SetApproval(m, a)
  \/ Rollback
  \/ Restart

Spec == Init /\ [][Next]_vars

-----------------------------------------------------------------------------
(* Properties.                                                             *)

TypeOK ==
  /\ cards \in [Models -> Approval \cup {"absent"}]
  /\ order \in Seq(Models)
  /\ history \in Seq(Models)
  /\ file \in [Models -> Approval \cup {"absent"}]
  /\ synced \in BOOLEAN

\* champion() is unambiguous: at most the model on top of the champion history
\* is CHAMPION, after any mix of promotions, approvals, rollbacks and failures.
ChampionIsCurrent ==
  \A m \in Models :
    cards[m] = "champion" => history # << >> /\ m = history[Len(history)]

\* rollback() always has somewhere to go: every model of the history still has
\* a card (self._cards[previous] cannot raise), and no model follows itself
\* (rolling back never re-crowns the model being rolled back).
RollbackHasTarget ==
  \A i \in DOMAIN history :
    /\ history[i] \in Known
    /\ i > 1 => history[i] # history[i - 1]

\* After a write that completed, whatever writes failed before it, the file
\* differs from memory in one way only: a failed set_champion demoted the
\* champion in memory and the file still calls it champion (and then no model
\* is champion in memory).
FileLagsByDemotionOnly ==
  synced =>
    \A m \in Models : file[m] # cards[m] =>
      /\ file[m] = "champion"
      /\ cards[m] = "approved"
      /\ \A k \in Models : cards[k] # "champion"

\* runbooks/model-rollback.md:14: "never delete a failed model's history".
\* A model whose card was once on file stays on file.
CardsAreKept ==
  [][\A m \in Models : file[m] # "absent" => file'[m] # "absent"]_file
=============================================================================
