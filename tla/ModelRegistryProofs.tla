-------------------------- MODULE ModelRegistryProofs --------------------------
(***************************************************************************)
(* Theorems about ModelRegistry for every set of models and approvals.     *)
(***************************************************************************)
EXTENDS ModelRegistry, SequenceTheorems, TLAPS

States == Approval \cup {"absent"}

\* What a change leaves in memory, as a property of the values: this is what
\* the registry keeps true of the dict and the champion history.
Sound(c, o, h) ==
  /\ c \in [Models -> States]
  /\ o \in Seq(Models)
  /\ h \in Seq(Models)
  /\ \A m \in Models : c[m] = "champion" => Len(h) > 0 /\ m = h[Len(h)]
  /\ \A i \in 1..Len(h) : c[h[i]] # "absent"
  /\ \A i \in 1..Len(h) : i > 1 => h[i] # h[i - 1]

RegistryInv ==
  /\ Sound(cards, order, history)
  /\ file \in [Models -> States]
  /\ synced \in BOOLEAN
  /\ FileLagsByDemotionOnly

LEMMA InvImplies ==
  ASSUME RegistryInv
  PROVE  TypeOK /\ ChampionIsCurrent /\ RollbackHasTarget
<1>1. Sound(cards, order, history)
  BY DEF RegistryInv
<1>2. /\ DOMAIN history = 1..Len(history)
      /\ \A i \in 1..Len(history) : history[i] \in Models
  BY <1>1, LenProperties, ElementOfSeq DEF Sound
<1>3. TypeOK
  BY DEF RegistryInv, Sound, TypeOK, States
<1>4. ChampionIsCurrent
  BY <1>1, EmptySeq DEF Sound, ChampionIsCurrent
<1>5. RollbackHasTarget
  BY <1>1, <1>2 DEF Sound, RollbackHasTarget, Known
<1> QED BY <1>3, <1>4, <1>5

\* A registry that has lost everything is sound.
LEMMA EmptyIsSound == Sound(NoCards, << >>, << >>)
BY EmptySeq DEF Sound, NoCards, States

\* Writing a sound registry keeps the invariant, also when the write fails or
\* the process dies: memory was sound before the file was touched.
LEMMA PersistKeepsInv ==
  ASSUME RegistryInv, NEW after, NEW ord, NEW hist,
         Sound(after, ord, hist), Persist(after, ord, hist)
  PROVE  RegistryInv'
<1>1. Torn(after, ord) => file' \in [Models -> States]
  BY DEF Torn, Prefix, Sound, States
<1>2. CASE Remember(after, ord, hist) /\ file' = after /\ synced' = TRUE
  BY <1>2 DEF Remember, RegistryInv, Sound, FileLagsByDemotionOnly
<1>3. CASE /\ Remember(after, ord, hist)
           /\ UNCHANGED file \/ Torn(after, ord)
           /\ synced' = FALSE
  <2>1. file' \in [Models -> States]
    BY <1>1, <1>3 DEF RegistryInv
  <2>2. Sound(cards, order, history)'
    BY <1>3 DEF Remember, Sound
  <2> QED BY <1>3, <2>1, <2>2 DEF RegistryInv, FileLagsByDemotionOnly
<1>4. CASE Torn(after, ord) /\ Gone
  <2>1. Sound(cards, order, history)' /\ synced' = FALSE
    BY <1>4, EmptyIsSound DEF Gone, Remember, Sound
  <2> QED BY <1>1, <1>4, <2>1 DEF RegistryInv, FileLagsByDemotionOnly
<1> QED BY <1>2, <1>3, <1>4 DEF Persist

LEMMA InitInv == Init => RegistryInv
BY EmptyIsSound DEF Init, RegistryInv, FileLagsByDemotionOnly, NoCards, States

LEMMA RegisterKeepsInv ==
  ASSUME RegistryInv, NEW m \in Models, Register(m)
  PROVE  RegistryInv'
<1> DEFINE after == [cards EXCEPT ![m] = "shadow"]
           ord == Append(order, m)
<1>1. Sound(cards, order, history) /\ cards[m] = "absent"
  BY DEF RegistryInv, Register, Known
<1>2. \A i \in 1..Len(history) : history[i] \in Models
  BY <1>1, ElementOfSeq DEF Sound
<1>3. ord \in Seq(Models)
  BY <1>1, AppendProperties DEF Sound
<1>4. /\ after \in [Models -> States]
      /\ after[m] = "shadow"
      /\ \A k \in Models \ {m} : after[k] = cards[k]
  BY <1>1 DEF Sound, States, Approval
<1>5. Persist(after, ord, history)
  BY DEF Register
<1> HIDE DEF after, ord
<1>6. Sound(after, ord, history)
  BY <1>1, <1>2, <1>3, <1>4 DEF Sound
<1> QED BY <1>5, <1>6, PersistKeepsInv

LEMMA SetApprovalKeepsInv ==
  ASSUME RegistryInv, NEW m \in Models, NEW a \in Grants, SetApproval(m, a)
  PROVE  RegistryInv'
<1> DEFINE after == [cards EXCEPT ![m] = a]
<1>1. Sound(cards, order, history) /\ cards[m] # "absent"
  BY DEF RegistryInv, SetApproval, Known
<1>2. a \in States /\ a # "champion" /\ a # "absent"
  BY RegistryAssumption DEF States, Approval
<1>3. /\ after \in [Models -> States]
      /\ after[m] = a
      /\ \A k \in Models \ {m} : after[k] = cards[k]
  BY <1>1, <1>2 DEF Sound
<1>4. \A i \in 1..Len(history) : history[i] \in Models
  BY <1>1, ElementOfSeq DEF Sound
<1> HIDE DEF after
<1>5. Sound(after, order, history)
  BY <1>1, <1>2, <1>3, <1>4 DEF Sound
<1>6. Persist(after, order, history)
  BY DEF SetApproval, after
<1> QED BY <1>5, <1>6, PersistKeepsInv

\* Crowning m, with a history that ends in m, leaves a sound registry.
LEMMA CrownedIsSound ==
  ASSUME Sound(cards, order, history), NEW m \in Models, cards[m] # "absent",
         NEW h \in Seq(Models), Len(h) > 0, h[Len(h)] = m,
         \A i \in 1..Len(h) : cards[h[i]] # "absent",
         \A i \in 1..Len(h) : i > 1 => h[i] # h[i - 1]
  PROVE  Sound(Crowned(m), order, h)
<1>1. /\ Crowned(m) \in [Models -> States]
      /\ Crowned(m)[m] = "champion"
      /\ \A k \in Models \ {m} : Crowned(m)[k] = IF cards[k] = "champion" THEN "approved"
                                                                       ELSE cards[k]
  BY DEF Sound, Crowned, Demoted, States, Approval
<1>2. \A k \in Models : Crowned(m)[k] # "absent" <=> cards[k] # "absent"
  BY <1>1
<1>3. \A k \in Models : Crowned(m)[k] = "champion" => k = m
  BY <1>1
<1>4. \A i \in 1..Len(h) : h[i] \in Models
  BY ElementOfSeq
<1> QED BY <1>1, <1>2, <1>3, <1>4 DEF Sound

LEMMA SetChampionKeepsInv ==
  ASSUME RegistryInv, NEW m \in Models, SetChampion(m)
  PROVE  RegistryInv'
<1>1. Sound(cards, order, history) /\ cards[m] # "absent"
  BY DEF RegistryInv, SetChampion, Known
<1>2. /\ Len(history) \in Nat
      /\ history # << >> => Len(history) > 0
  BY <1>1, LenProperties, EmptySeq DEF Sound
<1> DEFINE h == Topped(m)
<1>3. /\ h \in Seq(Models) /\ Len(h) > 0 /\ h[Len(h)] = m
      /\ \A i \in 1..Len(h) : cards[h[i]] # "absent"
      /\ \A i \in 1..Len(h) : i > 1 => h[i] # h[i - 1]
  <2>1. CASE history # << >> /\ history[Len(history)] = m
    BY <1>1, <1>2, <2>1 DEF Sound, Topped
  <2>2. CASE history = << >> \/ history[Len(history)] # m
    <3>1. h = Append(history, m)
      BY <2>2 DEF Topped
    <3>2. /\ h \in Seq(Models)
          /\ Len(h) = Len(history) + 1
          /\ \A i \in 1..Len(history) : h[i] = history[i]
          /\ h[Len(history) + 1] = m
      BY <1>1, <3>1, AppendProperties DEF Sound
    <3> HIDE DEF h
    <3>3. \A i \in 1..Len(h) : i \in 1..Len(history) \/ i = Len(history) + 1
      BY <1>2, <3>2
    <3>4. \A i \in 1..Len(h) : cards[h[i]] # "absent"
      BY <1>1, <3>2, <3>3 DEF Sound
    <3>5. ASSUME NEW i \in 1..Len(h), i > 1 PROVE h[i] # h[i - 1]
      <4>1. CASE i \in 1..Len(history)
        <5>1. i - 1 \in 1..Len(history) /\ history[i] # history[i - 1]
          BY <1>1, <1>2, <3>5, <4>1 DEF Sound
        <5> QED BY <3>2, <4>1, <5>1
      <4>2. CASE i = Len(history) + 1
        <5>1. i - 1 = Len(history) /\ Len(history) \in 1..Len(history) /\ history # << >>
          BY <1>2, <3>5, <4>2, EmptySeq
        <5> QED BY <2>2, <3>2, <4>2, <5>1
      <4> QED BY <3>3, <4>1, <4>2
    <3> QED BY <1>2, <3>2, <3>4, <3>5
  <2> QED BY <2>1, <2>2
<1> HIDE DEF h
<1>4. Sound(Crowned(m), order, h)
  BY <1>1, <1>3, CrownedIsSound
<1>5. Persist(Crowned(m), order, h)
  BY DEF SetChampion, h
<1> QED BY <1>4, <1>5, PersistKeepsInv

\* The failed promotion: the champion is demoted in memory, the file lags.
LEMMA SetChampionUnknownKeepsInv ==
  ASSUME RegistryInv, NEW m \in Models, SetChampionUnknown(m)
  PROVE  RegistryInv'
<1>1. /\ Sound(cards, order, history) /\ cards[m] = "absent"
      /\ cards' = Demoted(m) /\ UNCHANGED <<order, history, file, synced>>
      /\ file \in [Models -> States] /\ synced \in BOOLEAN /\ FileLagsByDemotionOnly
  BY DEF RegistryInv, SetChampionUnknown, Known
<1>2. /\ cards' \in [Models -> States]
      /\ \A k \in Models : /\ cards'[k] # "champion"
                           /\ cards'[k] = IF cards[k] = "champion" THEN "approved" ELSE cards[k]
  BY <1>1 DEF Sound, Demoted, States, Approval
<1>3. \A i \in 1..Len(history) : history[i] \in Models
  BY <1>1, ElementOfSeq DEF Sound
<1>4. Sound(cards, order, history)'
  BY <1>1, <1>2, <1>3 DEF Sound
<1>5. FileLagsByDemotionOnly'
  BY <1>1, <1>2 DEF FileLagsByDemotionOnly
<1> QED BY <1>1, <1>4, <1>5 DEF RegistryInv

LEMMA RollbackKeepsInv ==
  ASSUME RegistryInv, Rollback
  PROVE  RegistryInv'
<1> DEFINE n == Len(history) - 1
           h == SubSeq(history, 1, n)
<1>1. Sound(cards, order, history) /\ Len(history) >= 2
  BY DEF RegistryInv, Rollback
<1>2. Len(history) \in Nat /\ n \in 1..Len(history) /\ 1..n \subseteq 1..Len(history)
  BY <1>1, LenProperties DEF Sound
<1>3. /\ h \in Seq(Models) /\ Len(h) = n
      /\ \A i \in 1..n : h[i] = history[i]
  BY <1>1, <1>2, SubSeqProperties DEF Sound
<1>4. Previous = history[n] /\ Previous \in Models /\ cards[Previous] # "absent"
  BY <1>1, <1>2, ElementOfSeq DEF Previous, Sound
<1> HIDE DEF h
<1>5. ASSUME NEW i \in 1..n, i > 1 PROVE h[i] # h[i - 1]
  <2>1. i - 1 \in 1..n /\ i \in 1..Len(history)
    BY <1>2, <1>5
  <2> QED BY <1>1, <1>3, <1>5, <2>1 DEF Sound
<1>6. Len(h) > 0 /\ h[Len(h)] = Previous
  BY <1>1, <1>2, <1>3, <1>4
<1>7. \A i \in 1..n : cards[h[i]] # "absent"
  BY <1>1, <1>2, <1>3 DEF Sound
<1>8. Sound(Crowned(Previous), order, h)
  BY <1>1, <1>3, <1>4, <1>5, <1>6, <1>7, CrownedIsSound
<1>9. Persist(Crowned(Previous), order, h)
  BY DEF Rollback, h
<1> QED BY <1>8, <1>9, PersistKeepsInv

LEMMA NextKeepsInv == RegistryInv /\ [Next]_vars => RegistryInv'
<1> SUFFICES ASSUME RegistryInv, [Next]_vars PROVE RegistryInv'
  OBVIOUS
<1>1. CASE Restart
  <2>1. Sound(cards, order, history)' /\ synced' = FALSE /\ file' = file
    BY <1>1, EmptyIsSound DEF Restart, Gone, Remember, Sound
  <2> QED BY <2>1 DEF RegistryInv, FileLagsByDemotionOnly
<1>2. CASE UNCHANGED vars
  BY <1>2 DEF vars, RegistryInv, Sound, FileLagsByDemotionOnly
<1> QED BY <1>1, <1>2, RegisterKeepsInv, SetApprovalKeepsInv, SetChampionKeepsInv,
           SetChampionUnknownKeepsInv, RollbackKeepsInv DEF Next

THEOREM InvariantHolds == Spec => []RegistryInv
BY InitInv, NextKeepsInv, PTL DEF Spec

\* The type invariant.
THEOREM TypeCorrect == Spec => []TypeOK
BY InvImplies, InvariantHolds, PTL

\* Only the model on top of the champion history is ever CHAMPION, whatever the
\* order of promotions, approvals, rollbacks, failed promotions and crashes.
THEOREM OneChampion == Spec => []ChampionIsCurrent
BY InvImplies, InvariantHolds, PTL

\* rollback() always finds the card of the model it goes back to, and never
\* goes back to the model it leaves.
THEOREM RollbackGoesBack == Spec => []RollbackHasTarget
BY InvImplies, InvariantHolds, PTL

\* The file differs from memory only by the demotion of a failed promotion.
THEOREM FileLags == Spec => []FileLagsByDemotionOnly
<1>1. RegistryInv => FileLagsByDemotionOnly
  BY DEF RegistryInv
<1> QED BY <1>1, InvariantHolds, PTL
=============================================================================
