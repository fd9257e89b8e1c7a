---------------------------- MODULE BarStoreProofs ----------------------------
(***************************************************************************)
(* Theorems about BarStore for every set of keys, values and feeds, every   *)
(* number of retries and every length of history; and about BarChecks for   *)
(* any prices, volumes and corporate actions, and any number of rows.       *)
(***************************************************************************)
EXTENDS BarStore, BarChecks, FoldLemmas, SequenceTheorems, TLAPS

-----------------------------------------------------------------------------
(* Helpers.                                                                *)

\* Nothing happened to a history, or one version was appended to it.
Grows(new, old, v) ==
  \/ new = old
  \/ /\ Len(new) = Len(old) + 1
     /\ \A i \in 1..Len(old) : new[i] = old[i]
     /\ new[Len(old) + 1] = v

LEMMA VersionSeq ==
  ASSUME NEW h \in Seq(Version)
  PROVE  /\ Len(h) \in Nat /\ DOMAIN h = 1..Len(h)
         /\ \A i \in 1..Len(h) : h[i] \in Version
         /\ h = << >> <=> Len(h) = 0
BY LenProperties, ElementOfSeq, EmptySeq

\* A bar was added at the end of a chain.
LEMMA AppendChain ==
  ASSUME NEW h \in Seq(Version), Chain(h), NEW v \in Version, v.ver = Len(h),
         Len(h) > 0 => v.val # h[Len(h)].val /\ v.at >= h[Len(h)].at
  PROVE  /\ Append(h, v) \in Seq(Version)
         /\ Chain(Append(h, v))
         /\ Grows(Append(h, v), h, v)
         /\ Len(Append(h, v)) = Len(h) + 1
<1> DEFINE new == Append(h, v)
<1>1. /\ new \in Seq(Version)
      /\ Len(new) = Len(h) + 1
      /\ \A i \in 1..Len(h) : new[i] = h[i]
      /\ new[Len(h) + 1] = v
  BY AppendProperties
<1>2. /\ Len(h) \in Nat /\ DOMAIN h = 1..Len(h)
      /\ DOMAIN new = 1..(Len(h) + 1)
  BY <1>1, VersionSeq
<1> HIDE DEF new
<1>3. ASSUME NEW i \in DOMAIN new
      PROVE  /\ new[i].ver = i - 1
             /\ i > 1 => new[i].val # new[i - 1].val /\ new[i].at >= new[i - 1].at
  <2>1. CASE i \in 1..Len(h)
    <3>1. /\ h[i].ver = i - 1
          /\ i > 1 => h[i].val # h[i - 1].val /\ h[i].at >= h[i - 1].at
      BY <1>2, <2>1 DEF Chain
    <3>2. i > 1 => i - 1 \in 1..Len(h)
      BY <1>2, <2>1
    <3> QED BY <1>1, <2>1, <3>1, <3>2
  <2>2. CASE i = Len(h) + 1
    <3>1. i > 1 => Len(h) \in 1..Len(h) /\ i - 1 = Len(h) /\ Len(h) > 0
      BY <1>2, <2>2
    <3>2. i - 1 = Len(h)
      BY <1>2, <2>2
    <3> QED BY <1>1, <2>2, <3>1, <3>2
  <2>3. i \in 1..Len(h) \/ i = Len(h) + 1
    BY <1>2
  <2> QED BY <2>1, <2>2, <2>3
<1>4. Chain(new)
  BY <1>3 DEF Chain
<1> QED BY <1>1, <1>4 DEF Grows, new

\* What upsert does to the history of its key, and that it leaves the others.
Upserts(new, h, k, val, v) ==
  /\ new \in [Keys -> Seq(Version)]
  /\ \A j \in Keys \ {k} : new[j] = h[j]
  /\ Chain(new[k])
  /\ Grows(new[k], h[k], v)
  /\ Len(new[k]) > 0 /\ new[k][Len(new[k])].val = val
  /\ Len(h[k]) > 0 /\ h[k][Len(h[k])].val = val => new[k] = h[k]
  /\ (Len(h[k]) > 0 => h[k][Len(h[k])].val # val) => Len(new[k]) = Len(h[k]) + 1

LEMMA UpsertGrows ==
  ASSUME NEW h \in [Keys -> Seq(Version)], NEW k \in Keys, NEW val \in Values,
         NEW at \in Days, Chain(h[k]),
         Len(h[k]) > 0 => at >= h[k][Len(h[k])].at
  PROVE  Upserts(Upserted(h, k, val, at), h, k, val,
                 [val |-> val, at |-> at, ver |-> Len(h[k])])
<1> DEFINE old == h[k]
           v == [val |-> val, at |-> at, ver |-> Len(old)]
           new == Upserted(h, k, val, at)
<1>1. /\ old \in Seq(Version) /\ Len(old) \in Nat /\ DOMAIN old = 1..Len(old)
      /\ old = << >> <=> Len(old) = 0
  BY VersionSeq
<1>2. v \in Version /\ v.val = val /\ v.at = at /\ v.ver = Len(old)
  BY <1>1 DEF Version
<1>3. CASE Len(old) > 0 /\ old[Len(old)].val = val
  <2>1. new = h
    BY <1>1, <1>3 DEF Upserted, Latest
  <2> QED BY <1>1, <1>3, <2>1 DEF Grows, Upserts
<1>4. CASE Len(old) = 0
  <2>1. old = << >>
    BY <1>1, <1>4
  <2>2. v = [val |-> val, at |-> at, ver |-> 0]
    BY <1>4
  <2>3. new = [h EXCEPT ![k] = <<v>>]
    BY <2>1, <2>2 DEF Upserted
  <2>4. <<v>> \in Seq(Version) /\ Len(<<v>>) = 1 /\ <<v>>[1] = v /\ DOMAIN <<v>> = {1}
    BY <1>2
  <2>0. h \in [Keys -> Seq(Version)] /\ old = h[k]
    OBVIOUS
  <2> HIDE DEF v, new, old
  <2>5. Chain(<<v>>)
    BY <1>2, <1>4, <2>4 DEF Chain
  <2>6. new[k] = <<v>> /\ new \in [Keys -> Seq(Version)] /\ \A j \in Keys \ {k} : new[j] = h[j]
    BY <2>3, <2>4
  <2>7. Grows(new[k], old, v)
    BY <1>4, <2>4, <2>6 DEF Grows
  <2>8. Len(new[k]) = 1 /\ new[k][1] = v
    BY <2>4, <2>6
  <2>9. Upserts(new, h, k, val, v)
    BY <1>2, <1>4, <2>0, <2>5, <2>6, <2>7, <2>8 DEF Upserts
  <2> QED BY <2>9 DEF v, new, old
<1>5. CASE Len(old) > 0 /\ old[Len(old)].val # val
  <2>1. old # << >> /\ old[Len(old)].ver + 1 = Len(old)
    <3>1. Len(old) \in DOMAIN old
      BY <1>1, <1>5
    <3> QED BY <1>1, <1>5, <3>1 DEF Chain
  <2>2. new = [h EXCEPT ![k] = Append(old, v)]
    BY <1>5, <2>1 DEF Upserted, Latest
  <2>0. h \in [Keys -> Seq(Version)] /\ old = h[k]
    OBVIOUS
  <2> HIDE DEF v, new, old
  <2>3. /\ Append(old, v) \in Seq(Version) /\ Chain(Append(old, v))
        /\ Grows(Append(old, v), old, v)
        /\ Len(Append(old, v)) = Len(old) + 1
    BY <1>1, <1>2, <1>5, AppendChain DEF old
  <2>4. Append(old, v)[Len(old) + 1] = v
    BY <1>1, <1>2, AppendProperties
  <2>5. new[k] = Append(old, v) /\ new \in [Keys -> Seq(Version)]
        /\ \A j \in Keys \ {k} : new[j] = h[j]
    BY <2>2, <2>3
  <2>6. Len(new[k]) > 0 /\ new[k][Len(new[k])].val = val
    BY <1>1, <1>2, <2>3, <2>4, <2>5
  <2>7. Upserts(new, h, k, val, v)
    BY <1>5, <2>0, <2>3, <2>5, <2>6 DEF Upserts
  <2> QED BY <2>7 DEF v, new, old
<1> QED BY <1>1, <1>3, <1>4, <1>5

-----------------------------------------------------------------------------
(* The inductive invariant: a process that is down holds nothing; a replay   *)
(* has copied the first upto[k] versions of each key; a running load has no  *)
(* session to come in its feed and is in its first attempt or a later one.   *)

Replayed ==
  \A k \in Keys :
    /\ upto[k] <= Len(disk[k])
    /\ Len(hist[k]) = upto[k]
    /\ \A i \in 1..upto[k] : hist[k][i] = disk[k][i]

NoSessionToCome == \A i \in 1..Len(feed) : feed[i].key.day <= today

StoreInv ==
  /\ BarTypeOK
  /\ CorrectionsChain
  /\ mode = "down" => hist = NoHistory /\ upto = [k \in Keys |-> 0]
  /\ mode \in {"down", "reloading"} => tries = 0 /\ outcome = "none"
  /\ mode = "reloading" => Replayed
  /\ mode = "loading" => NoSessionToCome /\ tries > 0

LEMMA NoHistoryFacts ==
  /\ NoHistory \in [Keys -> Seq(Version)]
  /\ \A k \in Keys : Len(NoHistory[k]) = 0 /\ Chain(NoHistory[k]) /\ Dated(k, NoHistory[k])
<1>1. << >> \in Seq(Version) /\ Len(<< >>) = 0 /\ DOMAIN << >> = {}
  OBVIOUS
<1> QED BY <1>1 DEF NoHistory, Chain, Dated

\* The last version of a key is not newer than today, and a version added with
\* a time between the two keeps chain and dates.
LEMMA LastDated ==
  ASSUME BarTypeOK, NEW k \in Keys, Dated(k, hist[k]), Len(hist[k]) > 0
  PROVE  /\ hist[k][Len(hist[k])] \in Version
         /\ hist[k][Len(hist[k])].at <= today
<1>1. hist[k] \in Seq(Version)
  BY DEF BarTypeOK
<1>2. Len(hist[k]) \in DOMAIN hist[k] /\ Len(hist[k]) \in 1..Len(hist[k])
  BY <1>1, VersionSeq
<1> QED BY <1>1, <1>2, VersionSeq DEF Dated

LEMMA UpsertKeepsChains ==
  ASSUME BarTypeOK, CorrectionsChain, NEW new, NEW k \in Keys, NEW val, NEW v \in Version,
         Upserts(new, hist, k, val, v), k.day <= v.at, v.at <= today
  PROVE  \A j \in Keys : Chain(new[j]) /\ Dated(j, new[j])
<1>1. SUFFICES ASSUME NEW j \in Keys
               PROVE  Chain(new[j]) /\ Dated(j, new[j])
  OBVIOUS
<1>2. CASE j # k
  BY <1>2 DEF Upserts, CorrectionsChain
<1>3. CASE j = k
  <2>1. Chain(new[k]) /\ Grows(new[k], hist[k], v) /\ Dated(k, hist[k])
    BY DEF Upserts, CorrectionsChain
  <2>2. new[k] \in Seq(Version) /\ hist[k] \in Seq(Version)
    BY DEF Upserts, BarTypeOK
  <2>3. /\ DOMAIN new[k] = 1..Len(new[k])
        /\ DOMAIN hist[k] = 1..Len(hist[k]) /\ Len(hist[k]) \in Nat
    BY <2>2, VersionSeq
  <2>4. CASE new[k] = hist[k]
    BY <1>3, <2>1, <2>4
  <2>5. CASE /\ Len(new[k]) = Len(hist[k]) + 1
             /\ \A i \in 1..Len(hist[k]) : new[k][i] = hist[k][i]
             /\ new[k][Len(hist[k]) + 1] = v
    <3>1. ASSUME NEW i \in DOMAIN new[k]
          PROVE  k.day <= new[k][i].at /\ new[k][i].at <= today
      <4>1. i \in 1..Len(hist[k]) \/ i = Len(hist[k]) + 1
        BY <2>3, <2>5
      <4>2. CASE i \in 1..Len(hist[k])
        BY <2>1, <2>3, <2>5, <4>2 DEF Dated
      <4>3. CASE i = Len(hist[k]) + 1
        BY <2>5, <4>3
      <4> QED BY <4>1, <4>2, <4>3
    <3> QED BY <1>3, <2>1, <3>1 DEF Dated
  <2> QED BY <2>1, <2>4, <2>5 DEF Grows
<1> QED BY <1>2, <1>3

\* A row of a load, and a row of a replay, as an upsert.
LEMMA LoadRowUpserts ==
  ASSUME StoreInv, LoadRow
  PROVE  /\ feed[pos + 1] \in Row
         /\ feed[pos + 1].key.day <= today
         /\ pos + 1 \in 1..Len(feed)
         /\ Upserts(hist', hist, feed[pos + 1].key, feed[pos + 1].val,
              [val |-> feed[pos + 1].val, at |-> today,
               ver |-> Len(hist[feed[pos + 1].key])])
<1> DEFINE row == feed[pos + 1]
<1>1. feed \in Seq(Row) /\ pos \in 0..Len(feed) /\ pos < Len(feed) /\ Len(feed) \in Nat
  BY LenProperties DEF StoreInv, BarTypeOK, LoadRow
<1>2. pos + 1 \in 1..Len(feed)
  BY <1>1
<1>3. row \in Row
  BY <1>1, <1>2, ElementOfSeq
<1>4. row.key \in Keys /\ row.val \in Values
  BY <1>3 DEF Row
<1>5. row.key.day <= today
  BY <1>2 DEF StoreInv, LoadRow, NoSessionToCome
<1>6. /\ hist \in [Keys -> Seq(Version)] /\ today \in Days
      /\ Chain(hist[row.key]) /\ Dated(row.key, hist[row.key])
      /\ BarTypeOK
  BY <1>4 DEF StoreInv, BarTypeOK, CorrectionsChain
<1>7. Len(hist[row.key]) > 0 => today >= hist[row.key][Len(hist[row.key])].at
  BY <1>4, <1>6, LastDated DEF Days, Version
<1>8. hist' = Upserted(hist, row.key, row.val, today)
  BY DEF LoadRow
<1> HIDE DEF row
<1>9. Upserts(hist', hist, row.key, row.val,
              [val |-> row.val, at |-> today, ver |-> Len(hist[row.key])])
  BY <1>4, <1>6, <1>7, <1>8, UpsertGrows
<1> QED BY <1>2, <1>3, <1>5, <1>9 DEF row

LEMMA ReplayUpserts ==
  ASSUME StoreInv, NEW k \in Keys, ReplayRow(k)
  PROVE  /\ disk[k][upto[k] + 1] \in Version
         /\ k.day <= disk[k][upto[k] + 1].at /\ disk[k][upto[k] + 1].at <= today
         /\ Upserts(hist', hist, k, disk[k][upto[k] + 1].val, disk[k][upto[k] + 1])
         /\ Len(hist'[k]) = Len(hist[k]) + 1
<1> DEFINE row == disk[k][upto[k] + 1]
           n == upto[k]
<1>1. /\ disk[k] \in Seq(Version) /\ n \in Nat /\ n < Len(disk[k])
      /\ hist \in [Keys -> Seq(Version)] /\ today \in Days
      /\ Len(disk[k]) \in Nat /\ DOMAIN disk[k] = 1..Len(disk[k])
      /\ hist' = Upserted(hist, k, row.val, row.at)
  BY VersionSeq DEF StoreInv, BarTypeOK, ReplayRow
<1>2. n + 1 \in 1..Len(disk[k])
  BY <1>1
<1>3. /\ row \in Version /\ row.val \in Values /\ row.at \in Days
      /\ row.ver = n
      /\ n > 0 => row.val # disk[k][n].val /\ row.at >= disk[k][n].at
      /\ k.day <= row.at /\ row.at <= today
  <2>1. row \in Version
    BY <1>1, <1>2, VersionSeq
  <2>2. Chain(disk[k]) /\ Dated(k, disk[k])
    BY DEF StoreInv, CorrectionsChain
  <2>3. /\ row.ver = (n + 1) - 1
        /\ n + 1 > 1 => row.val # disk[k][(n + 1) - 1].val
                        /\ row.at >= disk[k][(n + 1) - 1].at
    BY <1>1, <1>2, <2>2 DEF Chain
  <2>4. (n + 1) - 1 = n /\ (n > 0 => n + 1 > 1)
    BY <1>1
  <2>5. k.day <= row.at /\ row.at <= today
    BY <1>1, <1>2, <2>2 DEF Dated
  <2> QED BY <2>1, <2>3, <2>4, <2>5 DEF Version
<1>4. /\ Len(hist[k]) = n
      /\ n > 0 => hist[k][Len(hist[k])] = disk[k][n]
  <2>1. Len(hist[k]) = n /\ \A i \in 1..n : hist[k][i] = disk[k][i]
    BY DEF StoreInv, Replayed, ReplayRow
  <2>2. n > 0 => n \in 1..n
    BY <1>1
  <2> QED BY <2>1, <2>2
<1>5. Chain(hist[k])
  BY DEF StoreInv, CorrectionsChain
<1>6. row = [val |-> row.val, at |-> row.at, ver |-> Len(hist[k])]
  BY <1>3, <1>4 DEF Version
<1> HIDE DEF row, n
<1>7. Upserts(hist', hist, k, row.val, [val |-> row.val, at |-> row.at, ver |-> Len(hist[k])])
  BY <1>1, <1>3, <1>4, <1>5, UpsertGrows
<1>8. Upserts(hist', hist, k, row.val, row)
  BY <1>6, <1>7
<1>9. Len(hist'[k]) = Len(hist[k]) + 1
  <2>1. Len(hist[k]) > 0 => hist[k][Len(hist[k])].val # row.val
    BY <1>3, <1>4
  <2> QED BY <1>8, <2>1 DEF Upserts
<1> QED BY <1>3, <1>8, <1>9 DEF row, n

-----------------------------------------------------------------------------
(* The invariant holds.                                                     *)

LEMMA InitInv == Init => StoreInv
<1> SUFFICES ASSUME Init PROVE StoreInv
  OBVIOUS
<1>1. << >> \in Seq(Row) /\ Len(<< >>) = 0
  OBVIOUS
<1>2. BarTypeOK
  BY <1>1, NoHistoryFacts, BarAssumption DEF BarTypeOK, Init, Days
<1>3. CorrectionsChain
  BY NoHistoryFacts DEF CorrectionsChain, Init
<1> QED BY <1>2, <1>3 DEF StoreInv, Init

\* Steps that leave memory, file and date alone keep the histories' types and
\* chains.
LEMMA SameHistories ==
  ASSUME CorrectionsChain, hist' \in {hist, disk}, disk' \in {hist, disk}, today' = today
  PROVE  CorrectionsChain'
<1> QED BY DEF CorrectionsChain, Chain, Dated

LEMMA NextInv == StoreInv /\ [Next]_barVars => StoreInv'
<1> SUFFICES ASSUME StoreInv, [Next]_barVars PROVE StoreInv'
  OBVIOUS
<1>0. BarTypeOK /\ CorrectionsChain
  BY DEF StoreInv
<1>1. ASSUME NEW f \in Feeds, StartLoad(f) PROVE StoreInv'
  <2>1. f \in Seq(Row) /\ Len(f) \in Nat /\ DOMAIN f = 1..Len(f)
    BY BarAssumption, LenProperties
  <2>2. BarTypeOK'
    BY <1>0, <1>1, <2>1, BarAssumption DEF StartLoad, BarTypeOK, file
  <2>3. CorrectionsChain'
    BY <1>0, <1>1, SameHistories DEF StartLoad, file
  <2>4. NoSessionToCome'
    BY <1>1, <2>1 DEF StartLoad, NoSessionToCome
  <2> QED BY <1>1, <2>2, <2>3, <2>4 DEF StartLoad, StoreInv
<1>2. CASE LoadRow
  <2> DEFINE row == feed[pos + 1]
             v == [val |-> row.val, at |-> today, ver |-> Len(hist[row.key])]
  <2>1. /\ row.key \in Keys /\ row.val \in Values /\ row.key.day <= today
        /\ Upserts(hist', hist, row.key, row.val, v)
    BY <1>2, LoadRowUpserts DEF Row
  <2>2. hist' \in [Keys -> Seq(Version)]
    BY <2>1 DEF Upserts
  <2>3. v \in Version /\ v.at = today
    <3>1. hist[row.key] \in Seq(Version) /\ today \in Days
      BY <1>0, <2>1 DEF BarTypeOK
    <3> QED BY <2>1, <3>1, VersionSeq DEF Version
  <2>4. BarTypeOK'
    BY <1>0, <1>2, <2>2, LenProperties DEF LoadRow, BarTypeOK, file
  <2> HIDE DEF row, v
  <2>5. \A j \in Keys : Chain(hist'[j]) /\ Dated(j, hist'[j])
    <3>1. today <= today
      BY <1>0 DEF BarTypeOK, Days
    <3> QED BY <1>0, <2>1, <2>3, <3>1, UpsertKeepsChains
  <2>6. CorrectionsChain'
    BY <1>0, <1>2, <2>5 DEF LoadRow, CorrectionsChain, Dated, Chain, file
  <2>7. NoSessionToCome'
    BY <1>2 DEF LoadRow, StoreInv, NoSessionToCome
  <2> QED BY <1>2, <2>4, <2>6, <2>7 DEF LoadRow, StoreInv
<1>3. CASE FinishLoad
  <2>1. BarTypeOK'
    BY <1>0, <1>3 DEF FinishLoad, BarTypeOK, file
  <2>2. CorrectionsChain'
    BY <1>0, <1>3, SameHistories DEF FinishLoad, file
  <2> QED BY <1>3, <2>1, <2>2 DEF FinishLoad, StoreInv
<1>4. CASE LoadFails
  <2>1. Len(feed) \in Nat
    BY <1>0, LenProperties DEF BarTypeOK
  <2>2. BarTypeOK'
    BY <1>0, <1>4, <2>1, BarAssumption DEF LoadFails, BarTypeOK, file
  <2>3. CorrectionsChain'
    BY <1>0, <1>4, SameHistories DEF LoadFails, file
  <2>4. mode' = "loading" => NoSessionToCome' /\ tries' > 0
    <3>1. tries \in Nat
      BY <1>0, BarAssumption DEF BarTypeOK
    <3> QED BY <1>4, <3>1 DEF LoadFails, StoreInv, NoSessionToCome
  <2> QED BY <1>4, <2>2, <2>3, <2>4 DEF LoadFails, StoreInv
<1>5. CASE Save
  <2>1. BarTypeOK'
    BY <1>0, <1>5 DEF Save, BarTypeOK, job
  <2>2. CorrectionsChain'
    BY <1>0, <1>5, SameHistories DEF Save, job
  <2> QED BY <1>5, <2>1, <2>2 DEF Save, StoreInv
<1>6. CASE Kill \/ KillInSave
  <2>1. Down /\ disk' = disk /\ readable' \in BOOLEAN
    BY <1>0, <1>6 DEF Kill, KillInSave, file, BarTypeOK
  <2>2. << >> \in Seq(Row) /\ Len(<< >>) = 0
    OBVIOUS
  <2>3. BarTypeOK'
    BY <1>0, <2>1, <2>2, NoHistoryFacts, BarAssumption DEF Down, BarTypeOK
  <2>4. CorrectionsChain'
    BY <1>0, <2>1, NoHistoryFacts DEF Down, CorrectionsChain, Dated, Chain
  <2> QED BY <2>1, <2>3, <2>4 DEF Down, StoreInv
<1>7. CASE StartEmpty
  <2>1. BarTypeOK'
    BY <1>0, <1>7 DEF StartEmpty, BarTypeOK, job, file
  <2>2. CorrectionsChain'
    BY <1>0, <1>7, SameHistories DEF StartEmpty, file
  <2> QED BY <1>7, <2>1, <2>2 DEF StartEmpty, StoreInv
<1>8. CASE StartReload
  <2>1. BarTypeOK'
    BY <1>0, <1>8 DEF StartReload, BarTypeOK, job, file
  <2>2. CorrectionsChain'
    BY <1>0, <1>8, SameHistories DEF StartReload, file
  <2>3. Replayed
    <3>1. hist = NoHistory /\ \A k \in Keys : upto[k] = 0 /\ Len(disk[k]) \in Nat
      BY <1>0, <1>8, VersionSeq DEF StartReload, StoreInv, BarTypeOK
    <3> QED BY <3>1, NoHistoryFacts DEF Replayed
  <2>4. Replayed'
    BY <1>8, <2>3 DEF StartReload, Replayed, file
  <2> QED BY <1>8, <2>1, <2>2, <2>4 DEF StartReload, StoreInv, job
<1>9. ASSUME NEW k \in Keys, ReplayRow(k) PROVE StoreInv'
  <2> DEFINE row == disk[k][upto[k] + 1]
  <2>1. /\ row \in Version /\ k.day <= row.at /\ row.at <= today
        /\ Upserts(hist', hist, k, row.val, row)
        /\ Len(hist'[k]) = Len(hist[k]) + 1
    BY <1>9, ReplayUpserts
  <2> HIDE DEF row
  <2>2. hist' \in [Keys -> Seq(Version)] /\ \A j \in Keys \ {k} : hist'[j] = hist[j]
    BY <2>1 DEF Upserts
  <2>3. upto \in [Keys -> Nat] /\ upto' = [upto EXCEPT ![k] = @ + 1]
    BY <1>0, <1>9 DEF BarTypeOK, ReplayRow
  <2>4. upto' \in [Keys -> Nat] /\ upto'[k] = upto[k] + 1
        /\ \A j \in Keys \ {k} : upto'[j] = upto[j]
    BY <2>3
  <2>5. BarTypeOK'
    BY <1>0, <1>9, <2>2, <2>4 DEF ReplayRow, BarTypeOK, job, file
  <2>6. \A j \in Keys : Chain(hist'[j]) /\ Dated(j, hist'[j])
    BY <1>0, <2>1, UpsertKeepsChains
  <2>7. CorrectionsChain'
    BY <1>0, <1>9, <2>6 DEF ReplayRow, CorrectionsChain, Dated, Chain, file
  <2>8. Replayed'
    <3>1. Replayed /\ disk' = disk
      BY <1>9 DEF StoreInv, ReplayRow, file
    <3>2. ASSUME NEW j \in Keys, j # k
          PROVE  /\ upto'[j] <= Len(disk[j]) /\ Len(hist'[j]) = upto'[j]
                 /\ \A i \in 1..upto'[j] : hist'[j][i] = disk[j][i]
      BY <2>2, <2>4, <3>1, <3>2 DEF Replayed
    <3>3. /\ upto'[k] <= Len(disk[k]) /\ Len(hist'[k]) = upto'[k]
          /\ \A i \in 1..upto'[k] : hist'[k][i] = disk[k][i]
      <4>1. /\ upto[k] \in Nat /\ Len(disk[k]) \in Nat /\ upto[k] < Len(disk[k])
            /\ Len(hist[k]) = upto[k]
            /\ \A i \in 1..upto[k] : hist[k][i] = disk[k][i]
        BY <1>0, <1>9, <3>1, VersionSeq DEF Replayed, ReplayRow, BarTypeOK
      <4>2. /\ \A i \in 1..upto[k] : hist'[k][i] = hist[k][i]
            /\ hist'[k][upto[k] + 1] = row
        <5>1. Grows(hist'[k], hist[k], row) /\ hist'[k] # hist[k]
          BY <2>1, <4>1 DEF Upserts
        <5> QED BY <4>1, <5>1 DEF Grows
      <4>3. \A i \in 1..(upto[k] + 1) : i \in 1..upto[k] \/ i = upto[k] + 1
        BY <4>1
      <4>4. \A i \in 1..(upto[k] + 1) : hist'[k][i] = disk[k][i]
        BY <4>1, <4>2, <4>3 DEF row
      <4> QED BY <2>1, <2>4, <4>1, <4>4
    <3> QED BY <3>1, <3>2, <3>3 DEF Replayed
  <2> QED BY <1>9, <2>5, <2>7, <2>8 DEF ReplayRow, StoreInv, job
<1>10. CASE Reloaded
  <2>1. BarTypeOK'
    BY <1>0, <1>10 DEF Reloaded, BarTypeOK, job, file
  <2>2. CorrectionsChain'
    BY <1>0, <1>10, SameHistories DEF Reloaded, file
  <2> QED BY <1>10, <2>1, <2>2 DEF Reloaded, StoreInv
<1>11. CASE Tomorrow
  <2>1. BarTypeOK'
    BY <1>0, <1>11, BarAssumption DEF Tomorrow, BarTypeOK, Days, job, file
  <2>2. ASSUME NEW k \in Keys, NEW h \in Seq(Version), Dated(k, h)
        PROVE  \A i \in DOMAIN h : k.day <= h[i].at /\ h[i].at <= today + 1
    <3>1. ASSUME NEW i \in DOMAIN h PROVE h[i].at <= today + 1
      <4>1. h[i].at <= today /\ h[i] \in Version /\ today \in Days
        BY <1>0, <2>2, <3>1, VersionSeq DEF Dated, BarTypeOK
      <4> QED BY <4>1 DEF Version, Days
    <3> QED BY <2>2, <3>1 DEF Dated
  <2>3. CorrectionsChain'
    BY <1>0, <1>11, <2>2 DEF Tomorrow, CorrectionsChain, Chain, Dated, file, BarTypeOK
  <2> QED BY <1>11, <2>1, <2>3 DEF Tomorrow, StoreInv, job
<1>12. CASE UNCHANGED barVars
  <2>1. CorrectionsChain'
    BY <1>0, <1>12, SameHistories DEF barVars
  <2> QED BY <1>12, <2>1 DEF barVars, StoreInv, BarTypeOK, Replayed, NoSessionToCome
<1> QED BY <1>1, <1>2, <1>3, <1>4, <1>5, <1>6, <1>7, <1>8, <1>9, <1>10, <1>11, <1>12
        DEF Next, LoadStep

THEOREM StoreInvariant == Spec => []StoreInv
<1> QED BY InitInv, NextInv, PTL DEF Spec

\* Every variable keeps its type (the state of repository.py, the Parquet file
\* and run_job).
THEOREM StoreTyped == Spec => []BarTypeOK
<1>1. StoreInv => BarTypeOK
  BY DEF StoreInv
<1> QED BY <1>1, StoreInvariant, PTL

\* Corrections of a bar count from 0, each changes the value, and their ingest
\* times are in order and not before the session (repository.upsert), in memory
\* and in the file, whatever was loaded, retried, saved, killed and replayed.
THEOREM CorrectionsNumbered == Spec => []CorrectionsChain
<1>1. StoreInv => CorrectionsChain
  BY DEF StoreInv
<1> QED BY <1>1, StoreInvariant, PTL

\* load of the Parquet file through upsert gives every key the versions of the
\* file, none skipped and none renumbered.
THEOREM ReplayFaithful == Spec => []ReplayIsFaithful
<1>1. StoreInv => ReplayIsFaithful
  <2>1. SUFFICES ASSUME StoreInv, mode = "reloading", NEW k \in Keys
                 PROVE  hist[k] = SubSeq(disk[k], 1, upto[k])
    BY DEF ReplayIsFaithful
  <2>2. /\ hist[k] \in Seq(Version) /\ disk[k] \in Seq(Version) /\ upto[k] \in Nat
        /\ Len(disk[k]) \in Nat
    BY <2>1, VersionSeq DEF StoreInv, BarTypeOK
  <2>3. /\ upto[k] <= Len(disk[k]) /\ Len(hist[k]) = upto[k]
        /\ \A i \in 1..upto[k] : hist[k][i] = disk[k][i]
    BY <2>1 DEF StoreInv, Replayed
  <2> DEFINE part == SubSeq(disk[k], 1, upto[k])
  <2>4. /\ part \in Seq(Version) /\ Len(part) = upto[k]
        /\ \A i \in 1..upto[k] : part[i] = disk[k][i]
    <3>1. part = [i \in 1..upto[k] |-> disk[k][i]]
      BY <2>2, <2>3
    <3>2. \A i \in 1..upto[k] : i \in 1..Len(disk[k])
      BY <2>2, <2>3
    <3>3. part \in [1..upto[k] -> Version]
      BY <2>2, <3>1, <3>2, ElementOfSeq
    <3>4. ASSUME NEW T, NEW n \in Nat, NEW f \in [1..n -> T]
          PROVE  f \in Seq(T) /\ Len(f) = n
      OBVIOUS
    <3>5. \A i \in 1..upto[k] : part[i] = disk[k][i]
      BY <3>1
    <3> HIDE DEF part
    <3> QED BY <2>2, <3>3, <3>4, <3>5
  <2> HIDE DEF part
  <2>5. hist[k] = part
    BY <2>2, <2>3, <2>4, SeqEqual
  <2> QED BY <2>5 DEF part
<1> QED BY <1>1, StoreInvariant, PTL

\* What a step that does not end the process does to a history: nothing, or one
\* version more.
LEMMA StepGrows ==
  ASSUME StoreInv, [Next]_barVars, mode' # "down", NEW k \in Keys
  PROVE  \E v : Grows(hist'[k], hist[k], v)
<1>1. CASE LoadRow
  <2> DEFINE row == feed[pos + 1]
             v == [val |-> row.val, at |-> today, ver |-> Len(hist[row.key])]
  <2>1. row.key \in Keys /\ Upserts(hist', hist, row.key, row.val, v)
    BY <1>1, LoadRowUpserts DEF Row
  <2> HIDE DEF row, v
  <2> QED BY <2>1 DEF Upserts, Grows
<1>2. ASSUME NEW j \in Keys, ReplayRow(j) PROVE \E v : Grows(hist'[k], hist[k], v)
  <2> DEFINE row == disk[j][upto[j] + 1]
  <2>1. Upserts(hist', hist, j, row.val, row)
    BY <1>2, ReplayUpserts
  <2> HIDE DEF row
  <2> QED BY <2>1 DEF Upserts, Grows
<1>3. CASE hist' = hist
  BY <1>3 DEF Grows
<1> QED BY <1>1, <1>2, <1>3
        DEF Next, LoadStep, StartLoad, FinishLoad, LoadFails, Save, Kill, KillInSave, Down,
            StartEmpty, StartReload, Reloaded, Tomorrow, barVars

\* A living process never changes or loses a version it has ingested
\* (repository.upsert appends; nothing else writes the history).
THEOREM HistoryKept == Spec => HistoryGrows
<1>1. StoreInv /\ [Next]_barVars =>
        (mode' # "down" =>
           \A k \in Keys :
             /\ Len(hist'[k]) \in {Len(hist[k]), Len(hist[k]) + 1}
             /\ \A i \in DOMAIN hist[k] : hist'[k][i] = hist[k][i])
  <2> SUFFICES ASSUME StoreInv, [Next]_barVars, mode' # "down", NEW k \in Keys
               PROVE  /\ Len(hist'[k]) \in {Len(hist[k]), Len(hist[k]) + 1}
                      /\ \A i \in DOMAIN hist[k] : hist'[k][i] = hist[k][i]
    OBVIOUS
  <2>1. PICK v : Grows(hist'[k], hist[k], v)
    BY StepGrows
  <2>2. DOMAIN hist[k] = 1..Len(hist[k])
    BY VersionSeq DEF StoreInv, BarTypeOK
  <2> QED BY <2>1, <2>2 DEF Grows
<1> QED BY <1>1, StoreInvariant, PTL DEF Spec, HistoryGrows

-----------------------------------------------------------------------------
(* Loads and their retries.                                                 *)

\* The rows this attempt has upserted, or all rows once the load succeeded, are
\* in force unless a later one of them corrects them.
Upcoming == mode = "loading" \/ outcome = "loaded"

LoadedSoFar ==
  /\ outcome = "loaded" => mode = "ready" /\ pos = Len(feed)
  /\ Upcoming =>
       \A i \in 1..pos :
         (\A j \in 1..pos : j > i => feed[j].key # feed[i].key) =>
           /\ Len(hist[feed[i].key]) > 0
           /\ hist[feed[i].key][Len(hist[feed[i].key])].val = feed[i].val

LEMMA LoadedInit == Init => LoadedSoFar
BY DEF Init, LoadedSoFar, Upcoming

LEMMA LoadedNext == StoreInv /\ LoadedSoFar /\ [Next]_barVars => LoadedSoFar'
<1> SUFFICES ASSUME StoreInv, LoadedSoFar, [Next]_barVars PROVE LoadedSoFar'
  OBVIOUS
<1>0. /\ pos \in Nat /\ Len(feed) \in Nat
      /\ mode \in {"down", "reloading"} => outcome = "none"
  BY LenProperties DEF StoreInv, BarTypeOK
<1>1. CASE LoadRow
  <2> DEFINE row == feed[pos + 1]
             v == [val |-> row.val, at |-> today, ver |-> Len(hist[row.key])]
  <2>1. row.key \in Keys /\ row.val \in Values /\ Upserts(hist', hist, row.key, row.val, v)
        /\ feed \in Seq(Row) /\ pos + 1 \in 1..Len(feed)
    BY <1>1, LoadRowUpserts DEF Row, StoreInv, BarTypeOK
  <2>2. /\ \A j \in Keys \ {row.key} : hist'[j] = hist[j]
        /\ Len(hist'[row.key]) > 0
        /\ hist'[row.key][Len(hist'[row.key])].val = row.val
    BY <2>1 DEF Upserts
  <2>3. mode = "loading" /\ mode' = mode /\ feed' = feed /\ pos' = pos + 1 /\ outcome' = outcome
        /\ outcome # "loaded"
    BY <1>1 DEF LoadRow, LoadedSoFar
  <2>4. ASSUME NEW i \in 1..(pos + 1),
               \A j \in 1..(pos + 1) : j > i => feed[j].key # feed[i].key
        PROVE  /\ Len(hist'[feed[i].key]) > 0
               /\ hist'[feed[i].key][Len(hist'[feed[i].key])].val = feed[i].val
    <3>1. i \in 1..pos \/ i = pos + 1
      BY <1>0
    <3>2. CASE i = pos + 1
      BY <2>2, <3>2
    <3>3. CASE i \in 1..pos
      <4>1. pos + 1 \in 1..(pos + 1) /\ pos + 1 > i
        BY <1>0, <3>3
      <4>2. feed[i].key # row.key
        BY <2>4, <4>1
      <4>3. feed[i].key \in Keys
        <5>1. i \in 1..Len(feed)
          BY <1>0, <2>1, <3>3
        <5>2. feed[i] \in Row
          BY <2>1, <5>1, ElementOfSeq
        <5> QED BY <5>2 DEF Row
      <4>4. \A j \in 1..pos : j \in 1..(pos + 1)
        BY <1>0
      <4>5. /\ Len(hist[feed[i].key]) > 0
            /\ hist[feed[i].key][Len(hist[feed[i].key])].val = feed[i].val
        BY <2>3, <2>4, <3>3, <4>4 DEF LoadedSoFar, Upcoming
      <4> QED BY <2>2, <4>2, <4>3, <4>5
    <3> QED BY <3>1, <3>2, <3>3
  <2> HIDE DEF row, v
  <2> QED BY <2>3, <2>4 DEF LoadedSoFar
<1>2. ASSUME NEW f \in Feeds, StartLoad(f) PROVE LoadedSoFar'
  BY <1>2 DEF StartLoad, LoadedSoFar, Upcoming
<1>3. CASE FinishLoad
  BY <1>3 DEF FinishLoad, LoadedSoFar, Upcoming
<1>4. CASE LoadFails
  BY <1>4 DEF LoadFails, LoadedSoFar, Upcoming
<1>5. CASE Save \/ Tomorrow
  BY <1>0, <1>5 DEF Save, Tomorrow, LoadedSoFar, Upcoming, job
<1>6. CASE Kill \/ KillInSave
  BY <1>6 DEF Kill, KillInSave, Down, LoadedSoFar, Upcoming
<1>7. CASE StartEmpty \/ StartReload \/ Reloaded
  BY <1>0, <1>7 DEF StartEmpty, StartReload, Reloaded, LoadedSoFar, Upcoming, job
<1>8. ASSUME NEW k \in Keys, ReplayRow(k) PROVE LoadedSoFar'
  BY <1>0, <1>8 DEF ReplayRow, LoadedSoFar, Upcoming, job
<1>9. CASE UNCHANGED barVars
  BY <1>9 DEF barVars, LoadedSoFar, Upcoming
<1> QED BY <1>1, <1>2, <1>3, <1>4, <1>5, <1>6, <1>7, <1>8, <1>9 DEF Next, LoadStep

\* After a load that succeeded, at the first attempt or a later one, the newest
\* version of every key of the feed is the feed's last row of that key.
THEOREM LastRowWins == Spec => []LoadedFeedIsLatest
<1>1. StoreInv /\ LoadedSoFar => LoadedFeedIsLatest
  <2> SUFFICES ASSUME StoreInv, LoadedSoFar, outcome = "loaded", NEW i \in DOMAIN feed,
                      \A j \in DOMAIN feed : j > i => feed[j].key # feed[i].key
               PROVE  /\ hist[feed[i].key] # << >>
                      /\ Latest(hist, feed[i].key).val = feed[i].val
    BY DEF LoadedFeedIsLatest
  <2>1. feed \in Seq(Row) /\ DOMAIN feed = 1..Len(feed)
    BY LenProperties DEF StoreInv, BarTypeOK
  <2>2. feed[i].key \in Keys
    <3>1. feed[i] \in Row
      BY <2>1, ElementOfSeq
    <3> QED BY <3>1 DEF Row
  <2>3. /\ Len(hist[feed[i].key]) > 0
        /\ hist[feed[i].key][Len(hist[feed[i].key])].val = feed[i].val
    BY <2>1 DEF LoadedSoFar, Upcoming
  <2>4. hist[feed[i].key] \in Seq(Version)
    BY <2>2 DEF StoreInv, BarTypeOK
  <2> QED BY <2>3, <2>4, VersionSeq DEF Latest
<1> QED BY <1>1, StoreInvariant, LoadedInit, LoadedNext, PTL DEF Spec

LEMMA RetriesInit == Init => RetriesAddOnce
BY DEF Init, RetriesAddOnce

LEMMA RetriesNext == StoreInv /\ RetriesAddOnce /\ [Next]_barVars => RetriesAddOnce'
<1> SUFFICES ASSUME StoreInv, RetriesAddOnce, [Next]_barVars PROVE RetriesAddOnce'
  OBVIOUS
<1>0. tries \in Nat /\ (mode \in {"down", "reloading"} => tries = 0)
  BY BarAssumption DEF StoreInv, BarTypeOK
<1>1. CASE LoadRow
  <2> DEFINE row == feed[pos + 1]
             v == [val |-> row.val, at |-> today, ver |-> Len(hist[row.key])]
  <2>1. row.key \in Keys /\ row.val \in Values /\ Upserts(hist', hist, row.key, row.val, v)
        /\ feed \in Seq(Row) /\ pos + 1 \in 1..Len(feed) /\ pos + 1 \in DOMAIN feed
        /\ v.val = row.val
    BY <1>1, LoadRowUpserts, LenProperties DEF Row, StoreInv, BarTypeOK
  <2>2. mode = "loading" /\ mode' = mode /\ feed' = feed /\ before' = before /\ tries' = tries
    BY <1>1 DEF LoadRow
  <2>3. SUFFICES ASSUME OneRowPerKey(feed), tries > 0, NEW k \in Keys
                 PROVE  \/ hist'[k] = before[k]
                        \/ /\ Len(hist'[k]) = Len(before[k]) + 1
                           /\ \E i \in DOMAIN feed :
                                feed[i].key = k /\ feed[i].val = hist'[k][Len(hist'[k])].val
    BY <2>2 DEF RetriesAddOnce, OneRowPerKey, Latest
  <2>4. \/ hist[k] = before[k]
        \/ /\ Len(hist[k]) = Len(before[k]) + 1
           /\ \E i \in DOMAIN feed :
                feed[i].key = k /\ feed[i].val = hist[k][Len(hist[k])].val
    BY <2>2, <2>3 DEF RetriesAddOnce, Latest
  <2>5. CASE k # row.key
    <3>1. hist'[k] = hist[k]
      BY <2>1, <2>5 DEF Upserts
    <3> QED BY <2>4, <3>1
  <2>6. CASE k = row.key
    <3>1. /\ \/ hist'[k] = hist[k]
             \/ Len(hist'[k]) = Len(hist[k]) + 1
          /\ hist'[k][Len(hist'[k])].val = row.val
          /\ Len(hist[k]) > 0 /\ hist[k][Len(hist[k])].val = row.val => hist'[k] = hist[k]
      BY <2>1, <2>6 DEF Upserts, Grows
    <3>2. CASE hist[k] = before[k]
      BY <2>1, <2>6, <3>1, <3>2
    <3>3. ASSUME Len(hist[k]) = Len(before[k]) + 1, NEW i \in DOMAIN feed,
                 feed[i].key = k, feed[i].val = hist[k][Len(hist[k])].val
          PROVE  hist'[k] = hist[k]
      <4>1. i = pos + 1
        BY <2>1, <2>3, <2>6, <3>3 DEF OneRowPerKey
      <4>2. Len(hist[k]) > 0
        <5>1. before[k] \in Seq(Version)
          BY DEF StoreInv, BarTypeOK
        <5> QED BY <3>3, <5>1, VersionSeq
      <4> QED BY <3>1, <3>3, <4>1, <4>2
    <3> QED BY <2>4, <3>2, <3>3
  <2> QED BY <2>5, <2>6
<1>2. ASSUME NEW f \in Feeds, StartLoad(f) PROVE RetriesAddOnce'
  BY <1>2 DEF StartLoad, RetriesAddOnce
<1>3. CASE FinishLoad
  BY <1>3 DEF FinishLoad, RetriesAddOnce, OneRowPerKey, Latest
<1>4. CASE LoadFails
  <2>1. /\ hist' = hist /\ feed' = feed /\ before' = before
        /\ mode = "loading" /\ tries > 0
    BY <1>4 DEF LoadFails, StoreInv
  <2> QED BY <1>0, <1>4, <2>1 DEF LoadFails, RetriesAddOnce, OneRowPerKey, Latest
<1>5. CASE Save \/ Tomorrow
  BY <1>0, <1>5 DEF Save, Tomorrow, RetriesAddOnce, OneRowPerKey, Latest, job
<1>6. CASE Kill \/ KillInSave
  BY <1>6 DEF Kill, KillInSave, Down, RetriesAddOnce
<1>7. CASE StartEmpty \/ StartReload \/ Reloaded
  BY <1>0, <1>7 DEF StartEmpty, StartReload, Reloaded, RetriesAddOnce, job
<1>8. ASSUME NEW k \in Keys, ReplayRow(k) PROVE RetriesAddOnce'
  BY <1>0, <1>8 DEF ReplayRow, RetriesAddOnce, job
<1>9. CASE UNCHANGED barVars
  BY <1>9 DEF barVars, RetriesAddOnce, OneRowPerKey, Latest
<1> QED BY <1>1, <1>2, <1>3, <1>4, <1>5, <1>6, <1>7, <1>8, <1>9 DEF Next, LoadStep

\* However many attempts of a load fail and however far each got, a feed with
\* one row for each key adds at most one version to a key (loader.py: running
\* the same feed again produces no changes).
THEOREM RetriesHarmless == Spec => []RetriesAddOnce
<1> QED BY StoreInvariant, RetriesInit, RetriesNext, PTL DEF Spec

-----------------------------------------------------------------------------
(* The adjustment for corporate actions.  The factors of a set of actions   *)
(* are multiplied in some order; the product does not depend on it, and the *)
(* factors of the actions after a day are those of the actions up to a      *)
(* later day, times those after that day.                                   *)

Fractions == Nat \X (Nat \ {0})
Bars == [day : Nat, price : Fractions, volume : Nat]
Factor(s, act) == PriceFactor(act, CloseRef(s, act.ex))

LEMMA TimesFractions ==
  ASSUME NEW p \in Fractions, NEW q \in Fractions
  PROVE  Times(p, q) \in Fractions
<1>1. p[1] \in Nat /\ p[2] \in Nat /\ p[2] > 0 /\ q[1] \in Nat /\ q[2] \in Nat /\ q[2] > 0
  BY DEF Fractions
<1>2. p[1] * q[1] \in Nat /\ p[2] * q[2] \in Nat /\ p[2] * q[2] > 0
  BY <1>1
<1> QED BY <1>2 DEF Times, Fractions

LEMMA TimesInAnyOrder ==
  ASSUME NEW p \in Fractions, NEW q \in Fractions, NEW r \in Fractions
  PROVE  /\ Times(p, Times(q, r)) = Times(q, Times(p, r))
         /\ Times(Times(p, q), r) = Times(p, Times(q, r))
         /\ Times(Whole(1), p) = p
<1>1. p[1] \in Nat /\ p[2] \in Nat /\ q[1] \in Nat /\ q[2] \in Nat /\ r[1] \in Nat /\ r[2] \in Nat
      /\ p = <<p[1], p[2]>>
  BY DEF Fractions
<1>2. \A a \in Nat, b \in Nat, c \in Nat : a * (b * c) = b * (a * c) /\ (a * b) * c = a * (b * c)
  OBVIOUS
<1> QED BY <1>1, <1>2 DEF Times, Whole

\* The reference of an action is the close of the last row before its ex-date.
LEMMA CloseRefIs ==
  ASSUME NEW s \in Seq(Bars), NEW ex \in Int
  PROVE  \/ CloseRef(s, ex) = NoClose /\ \A k \in 1..Len(s) : ~ (s[k].day < ex)
         \/ \E k \in 1..Len(s) :
              /\ s[k].day < ex /\ CloseRef(s, ex) = s[k].price[1]
              /\ \A j \in 1..Len(s) : s[j].day < ex => j <= k
<1> DEFINE prior == {k \in 1..Len(s) : s[k].day < ex}
<1>1. CASE prior = {}
  BY <1>1 DEF CloseRef
<1>2. CASE prior # {}
  <2>1. Max(prior) \in prior /\ \A j \in prior : j <= Max(prior)
    <3>1. prior \subseteq 0..Len(s) /\ Len(s) \in Nat
      OBVIOUS
    <3> HIDE DEF prior
    <3> QED BY <1>2, <3>1, GreatestOfNumbers
  <2>2. CloseRef(s, ex) = s[Max(prior)].price[1]
    BY <1>2 DEF CloseRef
  <2> QED BY <2>1, <2>2
<1> QED BY <1>1, <1>2

LEMMA FactorIsFraction ==
  ASSUME NEW s \in Seq(Bars), NEW act \in KnownActions
  PROVE  Factor(s, act) \in Fractions
<1>1. /\ act.type \in {"SPLIT", "BONUS", "DIVIDEND"} /\ act.ex \in Int
      /\ act.a \in Nat /\ act.b \in Nat /\ act.amount \in Nat
      /\ act.type = "SPLIT" => act.b > 0
      /\ act.type = "BONUS" => act.a + act.b > 0
  BY ActionsAssumption
<1> DEFINE ref == CloseRef(s, act.ex)
<1>2. ref \in Nat \cup {NoClose}
  <2>1. ASSUME NEW k \in 1..Len(s) PROVE s[k].price[1] \in Nat
    <3>1. s[k] \in Bars
      OBVIOUS
    <3> QED BY <3>1 DEF Bars, Fractions
  <2> QED BY <1>1, <2>1, CloseRefIs
<1> HIDE DEF ref
<1>3. PriceFactor(act, ref) \in Fractions
  <2>1. CASE act.type = "SPLIT"
    BY <1>1, <2>1 DEF PriceFactor, Fractions
  <2>2. CASE act.type = "BONUS"
    BY <1>1, <2>2 DEF PriceFactor, Fractions
  <2>3. CASE act.type = "DIVIDEND" /\ ref \in {NoClose, 0}
    BY <1>1, <2>3 DEF PriceFactor, Fractions, Whole
  <2>4. CASE act.type = "DIVIDEND" /\ ref \notin {NoClose, 0}
    <3>1. ref \in Nat /\ ref > 0
      BY <1>2, <2>4
    <3>2. PriceFactor(act, ref) = <<IF ref > act.amount THEN ref - act.amount ELSE 0, ref>>
      BY <2>4 DEF PriceFactor
    <3> QED BY <1>1, <3>1, <3>2 DEF Fractions
  <2> QED BY <1>1, <2>1, <2>2, <2>3, <2>4
<1> QED BY <1>3 DEF Factor, ref

\* g[T] is the product of the factors of T, for every set of the actions D.
IsProducts(g, s, D) ==
  /\ g \in [SUBSET D -> Fractions]
  /\ \A T \in SUBSET D : Factors(s, T) = g[T]
  /\ g[{}] = Whole(1)
  /\ \A T \in SUBSET D : T # {} =>
       \E c \in T : c = (CHOOSE a \in T : TRUE) /\ g[T] = Times(Factor(s, c), g[T \ {c}])

LEMMA ProductsExist ==
  ASSUME NEW s \in Seq(Bars), NEW D, D \subseteq KnownActions, IsFiniteSet(D)
  PROVE  \E g : IsProducts(g, s, D)
<1> DEFINE m == [T \in SUBSET D |-> CHOOSE a \in T : TRUE]
           h == [p \in Fractions \X D |-> Times(Factor(s, p[2]), p[1])]
           Body(f, S) == [T \in SUBSET S |->
                            IF T = {} THEN Whole(1)
                            ELSE Times(Factor(s, CHOOSE a \in T : TRUE),
                                       f[T \ {CHOOSE a \in T : TRUE}])]
<1>1. Chooses(m, D)
  BY DEF Chooses
<1>2. h \in [Fractions \X D -> Fractions]
  <2>1. \A p \in Fractions \X D : Times(Factor(s, p[2]), p[1]) \in Fractions
    <3> SUFFICES ASSUME NEW p \in Fractions \X D PROVE Times(Factor(s, p[2]), p[1]) \in Fractions
      OBVIOUS
    <3>1. p[1] \in Fractions /\ p[2] \in KnownActions
      OBVIOUS
    <3> QED BY <3>1, FactorIsFraction, TimesFractions
  <2> QED BY <2>1
<1>3. Whole(1) \in Fractions
  BY DEF Whole, Fractions
<1>4. PICK g : IsFold(g, Fractions, Whole(1), h, m, D)
  <2> HIDE DEF h, m
  <2> QED BY <1>1, <1>2, <1>3, FoldExists
<1>5. g \in [SUBSET D -> Fractions] /\ g[{}] = Whole(1)
  BY <1>4 DEF IsFold
<1>6. ASSUME NEW T \in SUBSET D, T # {}
      PROVE  /\ m[T] \in T /\ m[T] = (CHOOSE a \in T : TRUE)
             /\ g[T] = Times(Factor(s, m[T]), g[T \ {m[T]}])
  <2>1. m[T] \in T /\ m[T] = (CHOOSE a \in T : TRUE)
    BY <1>6
  <2>2. g[T] = h[<<g[T \ {m[T]}], m[T]>>]
    <3> HIDE DEF h, m
    <3> QED BY <1>4, <1>6 DEF IsFold
  <2>3. g[T \ {m[T]}] \in Fractions /\ m[T] \in D
    <3> HIDE DEF h, m
    <3> QED BY <1>5, <2>1
  <2>4. h[<<g[T \ {m[T]}], m[T]>>] = Times(Factor(s, m[T]), g[T \ {m[T]}])
    <3> HIDE DEF m
    <3> QED BY <2>3
  <2> QED BY <2>1, <2>2, <2>4
<1>7. ASSUME NEW S \in SUBSET D PROVE Factors(s, S) = g[S]
  <2> DEFINE iter == CHOOSE f : f = Body(f, S)
             part == [T \in SUBSET S |-> g[T]]
  <2>1. part = Body(part, S)
    <3>1. ASSUME NEW T \in SUBSET S PROVE part[T] = Body(part, S)[T]
      <4>1. CASE T = {}
        BY <1>5, <4>1
      <4>2. CASE T # {}
        <5>1. T \in SUBSET D
          OBVIOUS
        <5> HIDE DEF m
        <5>2. /\ m[T] \in T /\ m[T] = (CHOOSE a \in T : TRUE)
              /\ g[T] = Times(Factor(s, m[T]), g[T \ {m[T]}])
          BY <1>6, <4>2, <5>1
        <5>3. T \ {m[T]} \in SUBSET S
          OBVIOUS
        <5> QED BY <4>2, <5>2, <5>3
      <4> QED BY <4>1, <4>2
    <3> QED BY <3>1
  <2>2. iter = Body(iter, S)
    <3> HIDE DEF Body, part
    <3> QED BY <2>1
  <2>3. Factors(s, S) = iter[S]
    BY DEF Factors, MapThenFoldSet, Factor
  <2> HIDE DEF iter
  <2>4. iter[{}] = g[{}]
    BY <1>5, <2>2
  <2>5. ASSUME NEW T \in SUBSET S, T # {}, iter[T \ {m[T]}] = g[T \ {m[T]}]
        PROVE  iter[T] = g[T]
    <3>1. T \in SUBSET D
      OBVIOUS
    <3> HIDE DEF m
    <3>2. m[T] = (CHOOSE a \in T : TRUE) /\ g[T] = Times(Factor(s, m[T]), g[T \ {m[T]}])
      BY <1>6, <2>5, <3>1
    <3>3. iter[T] = Times(Factor(s, m[T]), iter[T \ {m[T]}])
      BY <2>2, <2>5, <3>2
    <3> QED BY <2>5, <3>2, <3>3
  <2>6. Chooses(m, S) /\ IsFiniteSet(S)
    <3> HIDE DEF m
    <3> QED BY <1>1, FS_Subset DEF Chooses
  <2>7. \A T \in SUBSET S : iter[T] = g[T]
    <3>1. StepAlike(iter, g, m, S)
      <4> HIDE DEF m
      <4> QED BY <2>4, <2>5 DEF StepAlike
    <3> HIDE DEF m
    <3> QED BY <2>6, <3>1, FoldsAgree
  <2> QED BY <2>3, <2>7
<1>8. \A T \in SUBSET D : T # {} =>
        \E c \in T : c = (CHOOSE a \in T : TRUE) /\ g[T] = Times(Factor(s, c), g[T \ {c}])
  <2> SUFFICES ASSUME NEW T \in SUBSET D, T # {}
      PROVE \E c \in T : c = (CHOOSE a \in T : TRUE) /\ g[T] = Times(Factor(s, c), g[T \ {c}])
    OBVIOUS
  <2> HIDE DEF m
  <2> QED BY <1>6
<1>9. IsProducts(g, s, D)
  BY <1>5, <1>7, <1>8 DEF IsProducts
<1> QED BY <1>9

LEMMA SameFactors ==
  ASSUME NEW s \in Seq(Bars), NEW t \in Seq(Bars), NEW D, D \subseteq KnownActions, IsFiniteSet(D),
         \A act \in D : CloseRef(s, act.ex) = CloseRef(t, act.ex)
  PROVE  Factors(s, D) = Factors(t, D)
<1> DEFINE m == [T \in SUBSET D |-> CHOOSE a \in T : TRUE]
<1>1. PICK f : IsProducts(f, s, D)
  BY ProductsExist
<1>2. PICK g : IsProducts(g, t, D)
  BY ProductsExist
<1>3. Chooses(m, D)
  BY DEF Chooses
<1>4. \A T \in SUBSET D : T # {} => m[T] \in T /\ m[T] = (CHOOSE a \in T : TRUE)
  OBVIOUS
<1> HIDE DEF m
<1>5. StepAlike(f, g, m, D)
  <2>1. f[{}] = g[{}]
    BY <1>1, <1>2 DEF IsProducts
  <2>2. ASSUME NEW T \in SUBSET D, T # {}, f[T \ {m[T]}] = g[T \ {m[T]}] PROVE f[T] = g[T]
    <3>1. /\ f[T] = Times(Factor(s, m[T]), f[T \ {m[T]}])
          /\ g[T] = Times(Factor(t, m[T]), g[T \ {m[T]}])
      BY <1>1, <1>2, <1>4, <2>2 DEF IsProducts
    <3>2. Factor(s, m[T]) = Factor(t, m[T])
      BY <1>4, <2>2 DEF Factor
    <3> QED BY <2>2, <3>1, <3>2
  <2> QED BY <2>1, <2>2 DEF StepAlike
<1>6. f[D] = g[D]
  BY <1>3, <1>5, FoldsAgree
<1> QED BY <1>1, <1>2, <1>6 DEF IsProducts

LEMMA PositiveProduct ==
  ASSUME NEW a \in Nat, NEW b \in Nat
  PROVE  a * b > 0 <=> a > 0 /\ b > 0
OBVIOUS

LEMMA PositiveTimes ==
  ASSUME NEW p \in Fractions, NEW q \in Fractions
  PROVE  Times(p, q)[1] > 0 <=> p[1] > 0 /\ q[1] > 0
<1>1. p[1] \in Nat /\ q[1] \in Nat
  BY DEF Fractions
<1> QED BY <1>1, PositiveProduct DEF Times

\* Factors above zero have a product above zero.
LEMMA PositiveFactors ==
  ASSUME NEW s \in Seq(Bars), NEW D, D \subseteq KnownActions, IsFiniteSet(D),
         \A act \in D : Factor(s, act)[1] > 0
  PROVE  Factors(s, D)[1] > 0
<1>1. PICK g : IsProducts(g, s, D)
  BY ProductsExist
<1> DEFINE W == {T \in SUBSET D : g[T][1] > 0}
<1>2. ASSUME NEW T \in SUBSET D, \A x \in T : T \ {x} \in W PROVE T \in W
  <2>1. CASE T = {}
    BY <1>1, <2>1 DEF IsProducts, Whole
  <2>2. CASE T # {}
    <3>1. PICK c \in T : g[T] = Times(Factor(s, c), g[T \ {c}])
      BY <1>1, <2>2 DEF IsProducts
    <3>2. g[T \ {c}] \in Fractions /\ g[T \ {c}][1] > 0
      BY <1>1, <1>2 DEF IsProducts
    <3>3. Factor(s, c) \in Fractions /\ Factor(s, c)[1] > 0
      BY FactorIsFraction
    <3>4. g[T][1] > 0
      BY <3>1, <3>2, <3>3, PositiveTimes
    <3> QED BY <3>4
  <2> QED BY <2>1, <2>2
<1>3. \A T \in SUBSET D : T \in W
  <2> HIDE DEF W
  <2> QED BY <1>2, Subsets
<1> QED BY <1>1, <1>3 DEF IsProducts

\* Any factor may be taken out of the product.
LEMMA OneFactor ==
  ASSUME NEW s \in Seq(Bars), NEW D, D \subseteq KnownActions, IsFiniteSet(D),
         NEW g, IsProducts(g, s, D)
  PROVE  \A T \in SUBSET D : \A x \in T : g[T] = Times(Factor(s, x), g[T \ {x}])
<1> DEFINE W == {T \in SUBSET D : \A x \in T : g[T] = Times(Factor(s, x), g[T \ {x}])}
<1>1. ASSUME NEW T \in SUBSET D, \A x \in T : T \ {x} \in W PROVE T \in W
  <2> SUFFICES ASSUME NEW x \in T PROVE g[T] = Times(Factor(s, x), g[T \ {x}])
    OBVIOUS
  <2>1. PICK c \in T : c = (CHOOSE a \in T : TRUE) /\ g[T] = Times(Factor(s, c), g[T \ {c}])
    BY DEF IsProducts
  <2>2. CASE x # c
    <3> DEFINE R == (T \ {x}) \ {c}
    <3>1. g[T \ {c}] = Times(Factor(s, x), g[R])
      <4>1. x \in T \ {c} /\ (T \ {c}) \ {x} = R
        BY <2>2
      <4> QED BY <1>1, <4>1
    <3>2. g[T \ {x}] = Times(Factor(s, c), g[R])
      <4>1. c \in T \ {x}
        BY <2>2
      <4> QED BY <1>1, <4>1
    <3>3. Factor(s, x) \in Fractions /\ Factor(s, c) \in Fractions /\ g[R] \in Fractions
      <4>1. g[R] \in Fractions
        BY DEF IsProducts
      <4> QED BY <4>1, FactorIsFraction
    <3> HIDE DEF R
    <3> QED BY <2>1, <3>1, <3>2, <3>3, TimesInAnyOrder
  <2> QED BY <2>1, <2>2
<1>2. \A T \in SUBSET D : T \in W
  <2> HIDE DEF W
  <2> QED BY <1>1, Subsets
<1> QED BY <1>2

LEMMA FactorsOfTwoSets ==
  ASSUME NEW s \in Seq(Bars), NEW D, D \subseteq KnownActions, IsFiniteSet(D),
         NEW A \in SUBSET D, NEW B \in SUBSET D, A \cap B = {}
  PROVE  /\ Factors(s, A \cup B) = Times(Factors(s, A), Factors(s, B))
         /\ Factors(s, A) \in Fractions
<1>1. PICK g : IsProducts(g, s, D)
  BY ProductsExist
<1> DEFINE W == {T \in SUBSET D : T \cap B = {} => g[T \cup B] = Times(g[T], g[B])}
<1>2. ASSUME NEW T \in SUBSET D, \A x \in T : T \ {x} \in W PROVE T \in W
  <2> SUFFICES ASSUME T \cap B = {} PROVE g[T \cup B] = Times(g[T], g[B])
    OBVIOUS
  <2>1. CASE T = {}
    <3>1. g[T] = Whole(1) /\ g[B] \in Fractions /\ T \cup B = B
      BY <1>1, <2>1 DEF IsProducts
    <3> QED BY <3>1, TimesInAnyOrder
  <2>2. CASE T # {}
    <3>1. PICK x \in T : TRUE
      BY <2>2
    <3> DEFINE R == T \ {x}
    <3>2. g[T] = Times(Factor(s, x), g[R])
      BY <1>1, OneFactor
    <3>3. g[T \cup B] = Times(Factor(s, x), g[R \cup B])
      <4>1. T \cup B \in SUBSET D /\ x \in T \cup B /\ (T \cup B) \ {x} = R \cup B
        OBVIOUS
      <4> QED BY <1>1, <4>1, OneFactor
    <3>4. g[R \cup B] = Times(g[R], g[B])
      BY <1>2
    <3>5. Factor(s, x) \in Fractions /\ g[R] \in Fractions /\ g[B] \in Fractions
      <4>1. g[R] \in Fractions /\ g[B] \in Fractions
        BY <1>1 DEF IsProducts
      <4> QED BY <4>1, FactorIsFraction
    <3> HIDE DEF R
    <3> QED BY <3>2, <3>3, <3>4, <3>5, TimesInAnyOrder
  <2> QED BY <2>1, <2>2
<1>3. \A T \in SUBSET D : T \in W
  <2> HIDE DEF W
  <2> QED BY <1>2, Subsets
<1>4. g[A \cup B] = Times(g[A], g[B])
  BY <1>3
<1>5. A \cup B \in SUBSET D
  OBVIOUS
<1> QED BY <1>1, <1>4, <1>5 DEF IsProducts

\* The factors after a day are those up to a later day, times those after that one.
Between(acts, d, e) == {act \in acts : d < act.ex /\ act.ex <= e}

LEMMA CumulativeSplits ==
  ASSUME NEW s \in Seq(Bars), NEW acts, acts \subseteq KnownActions, IsFiniteSet(acts),
         NEW d \in Nat, NEW e \in Nat, d <= e
  PROVE  /\ Cumulative(s, acts, d) = Times(Factors(s, Between(acts, d, e)), Cumulative(s, acts, e))
         /\ Factors(s, Between(acts, d, e)) \in Fractions
         /\ Cumulative(s, acts, e) \in Fractions
<1> DEFINE B == {act \in acts : e < act.ex}
<1>1. \A act \in acts : act.ex \in Int
  BY ActionsAssumption
<1>2. {act \in acts : d < act.ex} = Between(acts, d, e) \cup B
  BY <1>1 DEF Between
<1>3. Between(acts, d, e) \cap B = {}
  BY <1>1 DEF Between
<1>4. Between(acts, d, e) \in SUBSET acts /\ B \in SUBSET acts /\ {} \in SUBSET acts
  BY DEF Between
<1>5. Cumulative(s, acts, e) = Factors(s, B)
  BY DEF Cumulative
<1>6. Cumulative(s, acts, d) = Factors(s, Between(acts, d, e) \cup B)
  BY <1>2 DEF Cumulative
<1> HIDE DEF B
<1>7. /\ Factors(s, Between(acts, d, e) \cup B) = Times(Factors(s, Between(acts, d, e)), Factors(s, B))
      /\ Factors(s, Between(acts, d, e)) \in Fractions
  BY <1>3, <1>4, FactorsOfTwoSets
<1>8. Factors(s, B) \in Fractions
  <2>1. B \cap {} = {}
    OBVIOUS
  <2> QED BY <1>4, <2>1, FactorsOfTwoSets
<1> QED BY <1>5, <1>6, <1>7, <1>8

LEMMA AdjustedPrice ==
  ASSUME NEW s \in Seq(Bars), NEW acts, NEW k \in 1..Len(s)
  PROVE  /\ AdjustBars(s, acts)[k].price = Times(s[k].price, Cumulative(s, acts, s[k].day))
         /\ AdjustBars(s, acts)[k].day = s[k].day
         /\ AdjustBars(s, acts)[k].volume =
              LET f == Cumulative(s, acts, s[k].day)
              IN IF f[1] = 0 THEN s[k].volume ELSE Rounded(<<s[k].volume * f[2], f[1]>>)
<1>1. s[k] \in Bars
  OBVIOUS
<1>2. DOMAIN s[k] = {"day", "price", "volume"}
  BY <1>1 DEF Bars
<1> QED BY <1>2 DEF AdjustBars

\* A row of the last day or a later one changes no reference up to its own day.
LEMMA CloseRefStays ==
  ASSUME NEW s \in Seq(Bars), NEW r \in Bars, NEW ex \in Int, ex <= r.day
  PROVE  CloseRef(Append(s, r), ex) = CloseRef(s, ex)
<1> DEFINE t == Append(s, r)
           prior == {k \in 1..Len(s) : s[k].day < ex}
           later == {k \in 1..Len(t) : t[k].day < ex}
<1>1. /\ Len(t) = Len(s) + 1 /\ Len(s) \in Nat /\ t[Len(s) + 1] = r
      /\ \A k \in 1..Len(s) : t[k] = s[k]
  OBVIOUS
<1>2. r.day \in Nat
  BY DEF Bars
<1> HIDE DEF t
<1>3. later = prior
  BY <1>1, <1>2
<1>4. prior # {} => Max(prior) \in prior
  <2>1. prior \subseteq 0..Len(s) /\ Len(s) \in Nat
    OBVIOUS
  <2> HIDE DEF prior
  <2> QED BY <2>1, GreatestOfNumbers
<1>5. prior # {} => t[Max(prior)] = s[Max(prior)]
  BY <1>1, <1>4
<1>6. CloseRef(s, ex) = IF prior = {} THEN NoClose ELSE s[Max(prior)].price[1]
  BY DEF CloseRef
<1>7. CloseRef(t, ex) = IF later = {} THEN NoClose ELSE t[Max(later)].price[1]
  BY DEF CloseRef
<1> HIDE DEF prior, later
<1>8. CloseRef(t, ex) = CloseRef(s, ex)
  BY <1>3, <1>5, <1>6, <1>7
<1> QED BY <1>8 DEF t

\* Rows come in the order of their days; prices and volumes are those that occur.
ChecksInv ==
  /\ rows \in Seq(Bars)
  /\ \A k \in 1..Len(rows) : rows[k].price[2] = 1
  /\ \A j, k \in 1..Len(rows) : j <= k => Day(j) <= Day(k)
  /\ announced \subseteq KnownActions /\ IsFiniteSet(announced)

LEMMA RowComes ==
  ASSUME ChecksInv, NEW p \in Closes, NEW v \in Volumes, NEW day \in Nat,
         Comes(day, p, v), rows # <<>> => day >= Day(Len(rows))
  PROVE  /\ ChecksInv'
         /\ \E r \in Bars : rows' = Append(rows, r) /\ \A k \in 1..Len(rows) : Day(k) <= r.day
<1> DEFINE r == [day |-> day, price |-> Whole(p), volume |-> v]
<1>1. p \in Nat /\ v \in Nat
  BY ChecksAssumption
<1>2. r \in Bars /\ r.price[2] = 1 /\ r.day = day
  BY <1>1 DEF Bars, Fractions, Whole
<1>3. rows' = Append(rows, r) /\ announced' = announced
  BY DEF Comes
<1> HIDE DEF r
<1>4. /\ rows \in Seq(Bars) /\ rows' \in Seq(Bars) /\ Len(rows) \in Nat
      /\ Len(rows') = Len(rows) + 1 /\ rows'[Len(rows) + 1] = r
      /\ \A k \in 1..Len(rows) : rows'[k] = rows[k]
  BY <1>2, <1>3 DEF ChecksInv
<1>5. ASSUME NEW k \in 1..Len(rows) PROVE Day(k) <= r.day /\ Day(k) \in Nat
  <2>1. rows # <<>> /\ Len(rows) \in 1..Len(rows) /\ k <= Len(rows)
    BY <1>4
  <2>2. Day(k) <= Day(Len(rows))
    BY <2>1 DEF ChecksInv
  <2>3. \A n \in 1..Len(rows) : Day(n) \in Nat
    <3>1. \A n \in 1..Len(rows) : rows[n] \in Bars
      BY <1>4
    <3> QED BY <3>1 DEF Bars, Day
  <2> QED BY <1>2, <2>1, <2>2, <2>3
<1>6. ASSUME NEW j \in 1..Len(rows'), NEW k \in 1..Len(rows'), j <= k
      PROVE  rows'[j].day <= rows'[k].day
  <2>1. CASE k = Len(rows) + 1 /\ j = k
    BY <1>2, <1>4, <2>1
  <2>2. CASE k = Len(rows) + 1 /\ j # k
    <3>1. j \in 1..Len(rows)
      BY <1>4, <2>2
    <3> QED BY <1>4, <1>5, <2>2, <3>1 DEF Day
  <2>3. CASE k # Len(rows) + 1
    <3>1. j \in 1..Len(rows) /\ k \in 1..Len(rows)
      BY <1>4, <1>6, <2>3
    <3> QED BY <1>4, <1>6, <3>1 DEF ChecksInv, Day
  <2> QED BY <2>1, <2>2, <2>3
<1>7. \A k \in 1..Len(rows') : rows'[k].price[2] = 1
  BY <1>2, <1>4 DEF ChecksInv
<1>8. ChecksInv'
  BY <1>3, <1>4, <1>6, <1>7 DEF ChecksInv, Day
<1> QED BY <1>2, <1>3, <1>5, <1>8

\* Every step of the checks brings a row or an action, or nothing.
LEMMA ChecksStep ==
  ASSUME ChecksInv, [ChecksNext]_checked
  PROVE  /\ ChecksInv'
         /\ announced \subseteq announced'
         /\ \/ UNCHANGED rows
            \/ \E r \in Bars : rows' = Append(rows, r) /\ \A k \in 1..Len(rows) : Day(k) <= r.day
<1>1. /\ rows \in Seq(Bars) /\ Len(rows) \in Nat
      /\ \A k \in 1..Len(rows) : Day(k) \in Nat
  <2>1. rows \in Seq(Bars)
    BY DEF ChecksInv
  <2>2. \A k \in 1..Len(rows) : rows[k] \in Bars
    BY <2>1
  <2> QED BY <2>1, <2>2 DEF Bars, Day
<1>2. rows # <<>> => Len(rows) \in 1..Len(rows) /\ Today = Day(Len(rows)) /\ Today \in Nat
  <2>1. rows # <<>> => Len(rows) \in 1..Len(rows)
    BY <1>1
  <2> QED BY <1>1, <2>1 DEF Today, Day, Last
<1>3. ASSUME NEW p \in Closes, NEW v \in Volumes, NEW d \in 1..MaxDate, SessionComes(d, p, v)
      PROVE  /\ ChecksInv' /\ UNCHANGED announced
             /\ \E r \in Bars : rows' = Append(rows, r) /\ \A k \in 1..Len(rows) : Day(k) <= r.day
  <2>1. d \in Nat /\ Comes(d, p, v) /\ UNCHANGED announced
    BY <1>3, ChecksAssumption DEF SessionComes, Comes
  <2>2. rows # <<>> => d >= Day(Len(rows))
    BY <1>1, <1>2, <1>3 DEF SessionComes
  <2> QED BY <2>1, <2>2, RowComes
<1>4. ASSUME NEW p \in Closes, NEW v \in Volumes, ComesAgain(p, v)
      PROVE  /\ ChecksInv' /\ UNCHANGED announced
             /\ \E r \in Bars : rows' = Append(rows, r) /\ \A k \in 1..Len(rows) : Day(k) <= r.day
  <2>1. rows # <<>> /\ Comes(Today, p, v) /\ UNCHANGED announced
    BY <1>4 DEF ComesAgain, Comes
  <2>2. Today \in Nat /\ Today >= Day(Len(rows))
    BY <1>1, <1>2, <2>1
  <2> QED BY <2>1, <2>2, RowComes
<1>5. ASSUME NEW act \in KnownActions, Announce(act)
      PROVE  ChecksInv' /\ announced \subseteq announced' /\ UNCHANGED rows
  <2>1. announced' = announced \cup {act} /\ UNCHANGED rows
    BY <1>5 DEF Announce
  <2>2. IsFiniteSet(announced')
    BY <2>1, FS_AddElement DEF ChecksInv
  <2> QED BY <2>1, <2>2 DEF ChecksInv, Day
<1>6. CASE UNCHANGED checked
  BY <1>6 DEF checked, ChecksInv, Day
<1> QED BY <1>3, <1>4, <1>5, <1>6 DEF ChecksNext

LEMMA ChecksHold == ChecksSpec => []ChecksInv
<1>1. ChecksInit => ChecksInv
  <2> SUFFICES ASSUME ChecksInit PROVE ChecksInv
    OBVIOUS
  <2>1. rows = <<>> /\ announced = {} /\ Len(<<>>) = 0 /\ IsFiniteSet({})
    BY FS_EmptySet DEF ChecksInit
  <2> QED BY <2>1 DEF ChecksInv
<1>2. ChecksInv /\ [ChecksNext]_checked => ChecksInv'
  BY ChecksStep
<1> QED BY <1>1, <1>2, PTL DEF ChecksSpec

LEMMA FiveFactors ==
  ASSUME NEW a \in Nat, NEW b \in Nat, NEW c \in Nat, NEW x \in Nat, NEW z \in Nat
  PROVE  (a * (b * c)) * (x * z) = (x * c) * (a * (b * z))
OBVIOUS

\* The prices of two bars before and after a step: the factors between their days are
\* the same, and those after the second scale both alike, by no zero.
LEMMA ReturnStays ==
  ASSUME ChecksInv, ChecksInv',
         announced \subseteq announced',
         \/ UNCHANGED rows
         \/ \E r \in Bars : rows' = Append(rows, r) /\ \A k \in 1..Len(rows) : Day(k) <= r.day,
         NEW j \in 1..Len(rows), NEW k \in 1..Len(rows), j < k,
         \A act \in announced' \ announced : ~(Day(j) < act.ex /\ act.ex <= Day(k)),
         Adjusted[j].price[1] > 0, ~Wiped(rows', announced', Day(k))
  PROVE  /\ Adjusted'[j].price[1] > 0
         /\ Equal(Times(Adjusted[j].price, Adjusted'[k].price),
                  Times(Adjusted[k].price, Adjusted'[j].price))
<1> DEFINE d == rows[j].day
           e == rows[k].day
           own == Between(announced, d, e)
           ownThen == Between(announced', d, e)
<1>1. /\ rows \in Seq(Bars) /\ rows' \in Seq(Bars)
      /\ announced \subseteq KnownActions /\ IsFiniteSet(announced)
      /\ announced' \subseteq KnownActions /\ IsFiniteSet(announced')
  BY DEF ChecksInv
<1>2. /\ j \in 1..Len(rows') /\ k \in 1..Len(rows') /\ rows'[j] = rows[j] /\ rows'[k] = rows[k]
  BY <1>1
<1>3. rows[j] \in Bars /\ rows[k] \in Bars
  BY <1>1
<1>4. d \in Nat /\ e \in Nat /\ d <= e
  BY <1>3 DEF ChecksInv, Day, Bars
<1>5. ownThen = own
  BY DEF Between, Day
<1>6. Factors(rows', own) = Factors(rows, own)
  <2>1. ASSUME NEW act \in own PROVE CloseRef(rows', act.ex) = CloseRef(rows, act.ex)
    <3>1. CASE UNCHANGED rows
      BY <3>1
    <3>2. ASSUME NEW r \in Bars, rows' = Append(rows, r), \A n \in 1..Len(rows) : Day(n) <= r.day
          PROVE  CloseRef(rows', act.ex) = CloseRef(rows, act.ex)
      <4>1. act.ex \in Int /\ act.ex <= e /\ e <= r.day /\ r.day \in Nat
        BY <1>1, <3>2, ActionsAssumption DEF Between, Day, Bars
      <4>2. act.ex <= r.day
        BY <1>4, <4>1
      <4> QED BY <1>1, <3>2, <4>1, <4>2, CloseRefStays
    <3> QED BY <3>1, <3>2
  <2>2. own \subseteq KnownActions /\ IsFiniteSet(own)
    BY <1>1, FS_Subset DEF Between
  <2> HIDE DEF own
  <2> QED BY <1>1, <2>1, <2>2, SameFactors
<1> DEFINE O == Factors(rows, own)
           C == Cumulative(rows, announced, e)
           N == Cumulative(rows', announced', e)
<1>7. /\ Cumulative(rows, announced, d) = Times(O, C)
      /\ O \in Fractions /\ C \in Fractions
  BY <1>1, <1>4, CumulativeSplits
<1>8. Cumulative(rows', announced', d) = Times(O, N) /\ N \in Fractions
  <2> HIDE DEF own, ownThen
  <2>1. /\ Cumulative(rows', announced', d) = Times(Factors(rows', ownThen), N)
        /\ N \in Fractions
    BY <1>1, <1>4, CumulativeSplits DEF ownThen
  <2> QED BY <1>5, <1>6, <2>1
<1>9. /\ Adjusted[j].price = Times(rows[j].price, Times(O, C))
      /\ Adjusted[k].price = Times(rows[k].price, C)
  BY <1>1, <1>7, AdjustedPrice DEF Adjusted
<1>10. /\ Adjusted'[j].price = Times(rows[j].price, Times(O, N))
       /\ Adjusted'[k].price = Times(rows[k].price, N)
  <2>1. /\ AdjustBars(rows', announced')[j].price =
             Times(rows'[j].price, Cumulative(rows', announced', rows'[j].day))
        /\ AdjustBars(rows', announced')[k].price =
             Times(rows'[k].price, Cumulative(rows', announced', rows'[k].day))
    BY <1>1, <1>2, AdjustedPrice
  <2> QED BY <1>2, <1>8, <2>1 DEF Adjusted
<1>11. rows[j].price \in Fractions /\ rows[k].price \in Fractions
  BY <1>3 DEF Bars
<1>12. \A a, b, c, x, z \in Fractions :
         Times(Times(a, Times(b, c)), Times(x, z)) = Times(Times(x, c), Times(a, Times(b, z)))
  <2> TAKE a, b, c, x, z \in Fractions
  <2>1. /\ a[1] \in Nat /\ b[1] \in Nat /\ c[1] \in Nat /\ x[1] \in Nat /\ z[1] \in Nat
        /\ a[2] \in Nat /\ b[2] \in Nat /\ c[2] \in Nat /\ x[2] \in Nat /\ z[2] \in Nat
    BY DEF Fractions
  <2>2. PICK a1 \in Nat, b1 \in Nat, c1 \in Nat, x1 \in Nat, z1 \in Nat :
          a1 = a[1] /\ b1 = b[1] /\ c1 = c[1] /\ x1 = x[1] /\ z1 = z[1]
    BY <2>1
  <2>3. PICK a2 \in Nat, b2 \in Nat, c2 \in Nat, x2 \in Nat, z2 \in Nat :
          a2 = a[2] /\ b2 = b[2] /\ c2 = c[2] /\ x2 = x[2] /\ z2 = z[2]
    BY <2>1
  <2>4. (a1 * (b1 * c1)) * (x1 * z1) = (x1 * c1) * (a1 * (b1 * z1))
    BY FiveFactors
  <2>5. (a2 * (b2 * c2)) * (x2 * z2) = (x2 * c2) * (a2 * (b2 * z2))
    BY FiveFactors
  <2> QED BY <2>2, <2>3, <2>4, <2>5 DEF Times
<1>13. N[1] > 0
  <2> DEFINE after == {act \in announced' : e < act.ex}
  <2>1. after \subseteq KnownActions /\ IsFiniteSet(after)
    BY <1>1, FS_Subset
  <2>2. \A act \in after : Factor(rows', act)[1] > 0
    <3> SUFFICES ASSUME NEW act \in after PROVE Factor(rows', act)[1] > 0
      OBVIOUS
    <3>1. Factor(rows', act)[1] # 0
      BY DEF Wiped, Factor, Day
    <3>2. Factor(rows', act) \in Fractions
      BY <1>1, <2>1, FactorIsFraction
    <3> QED BY <3>1, <3>2 DEF Fractions
  <2>3. N = Factors(rows', after)
    BY DEF Cumulative
  <2> HIDE DEF after, N
  <2> QED BY <1>1, <2>1, <2>2, <2>3, PositiveFactors
<1> HIDE DEF O, C, N
<1>14. Times(Adjusted[j].price, Adjusted'[k].price) = Times(Adjusted[k].price, Adjusted'[j].price)
  <2>1. Times(Times(rows[j].price, Times(O, C)), Times(rows[k].price, N))
          = Times(Times(rows[k].price, C), Times(rows[j].price, Times(O, N)))
    <3>1. O \in Fractions /\ C \in Fractions /\ N \in Fractions
      BY <1>7, <1>8
    <3> QED BY ONLY <1>11, <1>12, <3>1
  <2> QED BY ONLY <2>1, <1>9, <1>10, Zenon
<1>15. Adjusted'[j].price[1] > 0
  <2>1. /\ O \in Fractions /\ C \in Fractions /\ N \in Fractions
        /\ Times(O, C) \in Fractions /\ Times(O, N) \in Fractions
    BY <1>7, <1>8, TimesFractions
  <2>2. rows[j].price[1] > 0 /\ O[1] > 0
    BY <1>9, <1>11, <2>1, PositiveTimes
  <2> QED BY <1>10, <1>11, <1>13, <2>1, <2>2, PositiveTimes
<1> QED BY <1>14, <1>15 DEF Equal

\* corporate_actions.py adjust_bars: neither a later bar nor an action outside of the
\* two days changes the return between two bars, whatever the actions and prices, but
\* for the action that takes all earlier prices to zero.
THEOREM ReturnsStay == ChecksSpec => PastReturnsStay
<1> DEFINE Stays(j, k) ==
             /\ j < k /\ Adjusted[j].price[1] > 0
             /\ \A a \in announced' \ announced : ~(Day(j) < a.ex /\ a.ex <= Day(k))
             => \/ Wiped(rows', announced', Day(k))
                \/ /\ Adjusted'[j].price[1] > 0
                   /\ Equal(Times(Adjusted[j].price, Adjusted'[k].price),
                            Times(Adjusted[k].price, Adjusted'[j].price))
<1>1. ASSUME ChecksInv, ChecksInv', [ChecksNext]_checked,
             NEW j \in 1..Len(rows), NEW k \in 1..Len(rows)
      PROVE  Stays(j, k)
  BY <1>1, ChecksStep, ReturnStays
<1>2. ChecksInv /\ ChecksInv' /\ [ChecksNext]_checked =>
        [\A j, k \in 1..Len(rows) : Stays(j, k)]_checked
  <2> HIDE DEF Stays
  <2> QED BY <1>1
<1> QED BY <1>2, ChecksHold, PTL DEF ChecksSpec, PastReturnsStay

-----------------------------------------------------------------------------
(* What the quality suite says of adjusted bars.                           *)

LEMMA ScalingKeepsOrder ==
  ASSUME NEW a \in Int, NEW b \in Int, NEW c \in Int, c > 0
  PROVE  a * c > b * c <=> a > b
OBVIOUS

LEMMA FourFactors ==
  ASSUME NEW a \in Nat, NEW b \in Nat, NEW c \in Nat, NEW d \in Nat
  PROVE  (a * c) * (b * d) = (a * b) * (c * d)
OBVIOUS

LEMMA Spread ==
  ASSUME NEW a \in Int, NEW b \in Int, NEW c \in Int
  PROVE  100 * (a * c - b * c) = (100 * (a - b)) * c /\ a * (b * c) = (a * b) * c
OBVIOUS

\* A common factor above zero makes no move an outlier, and hides none.
LEMMA OutliesScaled ==
  ASSUME NEW u \in Fractions, NEW w \in Fractions, NEW f \in Fractions
  PROVE  Outlies(Times(u, f), Times(w, f)) <=> Outlies(u, w) /\ Times(u, f)[1] > 0
<1>1. /\ u[1] \in Nat /\ w[1] \in Nat /\ f[1] \in Nat
      /\ u[2] \in Nat /\ w[2] \in Nat /\ f[2] \in Nat /\ f[2] > 0
  BY DEF Fractions
<1>2. PICK u1 \in Nat, u2 \in Nat, w1 \in Nat, w2 \in Nat, f1 \in Nat, f2 \in Nat :
        /\ u1 = u[1] /\ u2 = u[2] /\ w1 = w[1] /\ w2 = w[2] /\ f1 = f[1] /\ f2 = f[2] /\ f2 > 0
  BY <1>1
<1> DEFINE from == u1 * w2
           to == w1 * u2
           c == f1 * f2
           Moves(a, b) == 100 * (IF b > a THEN b - a ELSE a - b) > Outlying * a
<1>3. from \in Nat /\ to \in Nat /\ c \in Nat
  OBVIOUS
<1>4. Outlies(u, w) <=> u1 > 0 /\ Moves(from, to)
  BY <1>2 DEF Outlies
<1>5. (u1 * f1) * (w2 * f2) = from * c /\ (w1 * f1) * (u2 * f2) = to * c
  BY FourFactors
<1>6. Times(u, f) = <<u1 * f1, u2 * f2>> /\ Times(w, f) = <<w1 * f1, w2 * f2>>
  BY <1>2 DEF Times
<1>7. Outlies(Times(u, f), Times(w, f)) <=> u1 * f1 > 0 /\ Moves(from * c, to * c)
  BY <1>5, <1>6 DEF Outlies
<1>8. Times(u, f)[1] = u1 * f1
  BY <1>6
<1> HIDE DEF from, to
<1>9. ASSUME u1 * f1 > 0 PROVE u1 > 0 /\ c > 0
  <2>1. u1 > 0 /\ f1 > 0
    BY <1>9, PositiveProduct
  <2> QED BY <1>2, <2>1, PositiveProduct
<1> HIDE DEF c
<1>10. ASSUME c > 0 PROVE Moves(from * c, to * c) <=> Moves(from, to)
  <2> DEFINE gap == IF to > from THEN to - from ELSE from - to
  <2>1. gap \in Int /\ Outlying \in Nat
    BY <1>3, ChecksAssumption
  <2>2. to * c > from * c <=> to > from
    BY <1>3, <1>10, ScalingKeepsOrder
  <2>3. 100 * (IF to * c > from * c THEN to * c - from * c ELSE from * c - to * c) =
          (100 * gap) * c
    <3>1. /\ 100 * (to * c - from * c) = (100 * (to - from)) * c
          /\ 100 * (from * c - to * c) = (100 * (from - to)) * c
      BY <1>3, Spread
    <3> QED BY <2>2, <3>1
  <2>4. Outlying * (from * c) = (Outlying * from) * c
    BY <1>3, <2>1, Spread
  <2> HIDE DEF gap
  <2>5. 100 * gap \in Int /\ Outlying * from \in Int
    BY <1>3, <2>1
  <2>6. (100 * gap) * c > (Outlying * from) * c <=> 100 * gap > Outlying * from
    BY <1>3, <1>10, <2>5, ScalingKeepsOrder
  <2> QED BY <2>3, <2>4, <2>6 DEF gap
<1> HIDE DEF Moves
<1> QED BY <1>4, <1>7, <1>8, <1>9, <1>10

LEMMA AdjustedPair ==
  ASSUME ChecksInv, NEW n \in 2..Len(rows)
  PROVE  LET own == {a \in announced : Day(n - 1) < a.ex /\ a.ex <= Day(n)}
             earlier == Cumulative(rows, own, Day(n - 1))
         IN Outlies(Adjusted[n - 1].price, Adjusted[n].price) <=>
              /\ Outlies(Times(rows[n - 1].price, earlier), rows[n].price)
              /\ Adjusted[n - 1].price[1] > 0
<1> DEFINE own == {a \in announced : Day(n - 1) < a.ex /\ a.ex <= Day(n)}
           P == Factors(rows, own)
           C == Cumulative(rows, announced, Day(n))
<1>1. /\ rows \in Seq(Bars) /\ announced \subseteq KnownActions /\ IsFiniteSet(announced)
      /\ n \in 1..Len(rows) /\ n - 1 \in 1..Len(rows) /\ n - 1 <= n
  BY DEF ChecksInv
<1>2. rows[n] \in Bars /\ rows[n - 1] \in Bars
  BY <1>1
<1>3. Day(n) \in Nat /\ Day(n - 1) \in Nat /\ Day(n - 1) <= Day(n)
  BY <1>1, <1>2 DEF ChecksInv, Day, Bars
<1>4. Cumulative(rows, own, Day(n - 1)) = P
  <2>1. {a \in own : Day(n - 1) < a.ex} = own
    OBVIOUS
  <2> HIDE DEF own
  <2> QED BY <2>1 DEF Cumulative
<1>5. own = Between(announced, Day(n - 1), Day(n))
  BY DEF Between
<1>6. /\ Cumulative(rows, announced, Day(n - 1)) = Times(P, C)
      /\ P \in Fractions /\ C \in Fractions
  <2> HIDE DEF own
  <2> QED BY <1>1, <1>3, <1>5, CumulativeSplits
<1>7. rows[n].price \in Fractions /\ rows[n - 1].price \in Fractions
  BY <1>2 DEF Bars
<1> HIDE DEF own, P, C
<1>8. /\ Adjusted[n - 1].price = Times(rows[n - 1].price, Times(P, C))
      /\ Adjusted[n].price = Times(rows[n].price, C)
  BY <1>1, <1>6, AdjustedPrice DEF Adjusted, Day, C
<1>9. Adjusted[n - 1].price = Times(Times(rows[n - 1].price, P), C)
  BY <1>6, <1>7, <1>8, TimesInAnyOrder
<1>10. Times(rows[n - 1].price, P) \in Fractions
  BY <1>6, <1>7, TimesFractions
<1>11. Outlies(Adjusted[n - 1].price, Adjusted[n].price) <=>
         /\ Outlies(Times(rows[n - 1].price, P), rows[n].price)
         /\ Adjusted[n - 1].price[1] > 0
  BY <1>6, <1>7, <1>8, <1>9, <1>10, OutliesScaled
<1> QED BY <1>4, <1>11 DEF own

LEMMA OutliersExplained == ASSUME ChecksInv PROVE OutliersAreUnexplained
<1> DEFINE Unexplained(n) ==
      LET own == {a \in announced : Day(n - 1) < a.ex /\ a.ex <= Day(n)}
          earlier == Cumulative(rows, own, Day(n - 1))
      IN /\ Outlies(Times(rows[n - 1].price, earlier), rows[n].price)
         /\ Adjusted[n - 1].price[1] > 0
<1>1. rows \in Seq(Bars) /\ Len(rows) \in Nat
  BY DEF ChecksInv
<1>2. Len(Adjusted) = Len(rows)
  BY <1>1 DEF Adjusted, AdjustBars
<1>3. \A n \in 2..Len(rows) :
        Outlies(Adjusted[n - 1].price, Adjusted[n].price) <=> Unexplained(n)
  BY AdjustedPair
<1>4. \A n \in 2..Len(rows) : Adjusted[n].day = Day(n)
  <2>1. \A n \in 2..Len(rows) : n \in 1..Len(rows)
    BY <1>1
  <2> QED BY <1>1, <2>1, AdjustedPrice DEF Adjusted, Day
<1> HIDE DEF Unexplained
<1>5. {n \in 2..Len(Adjusted) : Outlies(Adjusted[n - 1].price, Adjusted[n].price)} =
        {n \in 2..Len(rows) : Unexplained(n)}
  BY <1>2, <1>3
<1>6. Outliers(Adjusted) =
        {Issue("OUTLIER", "WARN", Day(k)) : k \in {n \in 2..Len(rows) : Unexplained(n)}}
  <2> DEFINE K == {n \in 2..Len(rows) : Unexplained(n)}
  <2>1. Outliers(Adjusted) = {Issue("OUTLIER", "WARN", Adjusted[k].day) : k \in K}
    BY <1>5 DEF Outliers
  <2>2. \A k \in K : Adjusted[k].day = Day(k)
    BY <1>4
  <2> HIDE DEF K
  <2>3. \A k \in K : Issue("OUTLIER", "WARN", Adjusted[k].day) = Issue("OUTLIER", "WARN", Day(k))
    BY <2>2
  <2>4. Outliers(Adjusted) = {Issue("OUTLIER", "WARN", Day(k)) : k \in K}
    BY <2>1, <2>3
  <2> QED BY <2>4 DEF K
<1> QED BY <1>6 DEF OutliersAreUnexplained, Unexplained

\* Python's round is off by a half at most.
LEMMA RoundedIsNear ==
  ASSUME NEW x \in Nat, NEW y \in Nat \ {0}
  PROVE  LET z == Rounded(<<x, y>>)
         IN /\ z \in Nat
            /\ y * z >= x => 2 * (y * z - x) <= y
            /\ y * z <= x => 2 * (x - y * z) <= y
<1> DEFINE q == x \div y
           r == x % y
<1>1. q \in Nat /\ r \in 0..(y - 1)
  OBVIOUS
<1>2. r = x - y * q
  OBVIOUS
<1>3. Rounded(<<x, y>>) = IF 2 * r < y \/ (2 * r = y /\ q % 2 = 0) THEN q ELSE q + 1
  BY DEF Rounded
<1> HIDE DEF q, r
<1>4. y * q \in Nat /\ y * (q + 1) = y * q + y
  BY <1>1
<1> DEFINE p == y * q
<1>5. p \in Nat /\ r = x - p
  BY <1>2, <1>4
<1>6. CASE Rounded(<<x, y>>) = q
  <2>1. 2 * r <= y
    BY <1>1, <1>3, <1>6
  <2> HIDE DEF p
  <2>2. (p >= x => 2 * (p - x) <= y) /\ (p <= x => 2 * (x - p) <= y)
    BY <1>1, <1>5, <2>1
  <2> QED BY <1>1, <1>6, <2>2 DEF p
<1>7. CASE Rounded(<<x, y>>) = q + 1 /\ 2 * r >= y
  <2>1. (p + y >= x => 2 * ((p + y) - x) <= y) /\ (p + y <= x => 2 * (x - (p + y)) <= y)
    <3> HIDE DEF p
    <3> QED BY <1>1, <1>5, <1>7
  <2> QED BY <1>1, <1>4, <1>7, <2>1
<1> QED BY <1>1, <1>3, <1>6, <1>7

LEMMA ScaledGap ==
  ASSUME NEW a \in Nat, NEW x \in Nat, NEW y \in Nat, NEW f \in Nat,
         y >= x => 2 * (y - x) <= f, y <= x => 2 * (x - y) <= f
  PROVE  2 * (IF a * y > a * x THEN a * y - a * x ELSE a * x - a * y) <= a * f
<1>1. \A b \in Int : b <= f => a * b <= a * f
  OBVIOUS
<1>2. a * y \in Nat /\ a * x \in Nat /\ a * f \in Nat
  OBVIOUS
<1>3. CASE y >= x
  <2>1. a * (2 * (y - x)) <= a * f
    BY <1>1, <1>3
  <2>2. a * (2 * (y - x)) = 2 * (a * y - a * x)
    OBVIOUS
  <2>3. a * (y - x) >= 0 /\ a * (y - x) = a * y - a * x
    BY <1>3
  <2> QED BY <1>2, <2>1, <2>2, <2>3
<1>4. CASE y <= x
  <2>1. a * (2 * (x - y)) <= a * f
    BY <1>1, <1>4
  <2>2. a * (2 * (x - y)) = 2 * (a * x - a * y)
    OBVIOUS
  <2>3. a * (x - y) >= 0 /\ a * (x - y) = a * x - a * y
    BY <1>4
  <2> QED BY <1>2, <2>1, <2>2, <2>3
<1> QED BY <1>3, <1>4

LEMMA NotionalStays == ASSUME ChecksInv PROVE NotionalIsKept
<1> SUFFICES ASSUME NEW k \in 1..Len(rows), Adjusted[k].price[1] > 0
             PROVE  LET p == Adjusted[k].price
                        was == rows[k].price[1] * rows[k].volume * p[2]
                        is == p[1] * Adjusted[k].volume
                    IN 2 * (IF is > was THEN is - was ELSE was - is) <= p[1]
  BY DEF NotionalIsKept
<1>1. /\ rows \in Seq(Bars) /\ rows[k] \in Bars /\ rows[k].price[2] = 1
      /\ announced \subseteq KnownActions /\ IsFiniteSet(announced)
  BY DEF ChecksInv
<1> DEFINE C == Cumulative(rows, announced, rows[k].day)
<1>2. C \in Fractions
  <2>1. rows[k].day \in Nat /\ rows[k].day <= rows[k].day
    BY <1>1 DEF Bars
  <2> QED BY <1>1, <2>1, CumulativeSplits
<1> HIDE DEF C
<1>3. PICK a \in Nat, v \in Nat, f1 \in Nat, f2 \in Nat :
        a = rows[k].price[1] /\ v = rows[k].volume /\ f1 = C[1] /\ f2 = C[2]
  BY <1>1, <1>2 DEF Bars, Fractions
<1>4. Adjusted[k].price = <<a * f1, f2>>
  <2>1. Adjusted[k].price = Times(rows[k].price, C)
    BY <1>1, AdjustedPrice DEF Adjusted, C
  <2>2. 1 * f2 = f2
    OBVIOUS
  <2> QED BY <1>1, <1>3, <2>1, <2>2 DEF Times
<1>5. f1 > 0
  BY <1>4, PositiveProduct
<1> DEFINE z == Rounded(<<v * f2, f1>>)
<1>6. Adjusted[k].volume = z
  <2>1. Adjusted[k].volume = IF C[1] = 0 THEN rows[k].volume
                             ELSE Rounded(<<rows[k].volume * C[2], C[1]>>)
    BY <1>1, AdjustedPrice DEF Adjusted, C
  <2>2. C[1] # 0
    BY <1>3, <1>5
  <2>3. Rounded(<<rows[k].volume * C[2], C[1]>>) = z
    BY <1>3, Zenon
  <2> QED BY <2>1, <2>2, <2>3
<1>7. /\ z \in Nat
      /\ f1 * z >= v * f2 => 2 * (f1 * z - v * f2) <= f1
      /\ f1 * z <= v * f2 => 2 * (v * f2 - f1 * z) <= f1
  <2>1. v * f2 \in Nat
    OBVIOUS
  <2> QED BY <1>5, <2>1, RoundedIsNear
<1> HIDE DEF z
<1>8. PICK x \in Nat, y \in Nat : x = v * f2 /\ y = f1 * z
  BY <1>7
<1>9. (a * v) * f2 = a * x /\ (a * f1) * z = a * y
  BY <1>7, <1>8
<1>10. 2 * (IF a * y > a * x THEN a * y - a * x ELSE a * x - a * y) <= a * f1
  BY <1>7, <1>8, ScaledGap
<1>11. /\ rows[k].price[1] * rows[k].volume * Adjusted[k].price[2] = a * x
       /\ Adjusted[k].price[1] * Adjusted[k].volume = a * y
       /\ Adjusted[k].price[1] = a * f1
  BY <1>3, <1>4, <1>6, <1>9
<1> QED BY <1>10, <1>11

-----------------------------------------------------------------------------
(* What is left without some days is a part of the rows, in their order.   *)

IsLeft(left, T, s, days) ==
  /\ left \in [0..Len(s) -> Seq(T)]
  /\ left[0] = <<>>
  /\ \A n \in 1..Len(s) :
       left[n] = IF s[n].day \in days THEN left[n - 1] ELSE Append(left[n - 1], s[n])

LEMMA LeftLoop ==
  ASSUME NEW T, NEW s \in Seq(T), NEW days
  PROVE  \E left : IsLeft(left, T, s, days) /\ Without(s, days) = left[Len(s)]
<1> DEFINE Takes(out, n) == IF s[n].day \in days THEN out ELSE Append(out, s[n])
           Body(f) == [n \in 0..Len(s) |-> IF n = 0 THEN <<>> ELSE Takes(f[n - 1], n)]
           h == [p \in Seq(T) \X (1..Len(s)) |-> Takes(p[1], p[2])]
<1>1. Len(s) \in Nat /\ \A n \in 1..Len(s) : s[n] \in T
  OBVIOUS
<1>2. \A out \in Seq(T) : \A n \in 1..Len(s) : Takes(out, n) \in Seq(T)
  BY <1>1
<1>3. h \in [Seq(T) \X (1..Len(s)) -> Seq(T)]
  BY <1>2
<1>4. PICK f \in [0..Len(s) -> Seq(T)] : IsLoop(f, Len(s), <<>>, h)
  <2>1. <<>> \in Seq(T)
    OBVIOUS
  <2> HIDE DEF h
  <2> QED BY <1>1, <1>3, <2>1, LoopExists
<1>5. f[0] = <<>> /\ \A n \in 1..Len(s) : f[n] = Takes(f[n - 1], n)
  <2>1. ASSUME NEW n \in 1..Len(s) PROVE f[n] = Takes(f[n - 1], n)
    <3>1. n \in 1..Len(s) /\ n - 1 \in 0..Len(s)
      BY <1>1
    <3>2. f[n] = h[<<f[n - 1], n>>] /\ f[n - 1] \in Seq(T)
      BY <1>4, <3>1 DEF IsLoop
    <3>3. h[<<f[n - 1], n>>] = Takes(f[n - 1], n)
      BY <3>1, <3>2
    <3> QED BY <3>2, <3>3
  <2> QED BY <1>4, <2>1 DEF IsLoop
<1>6. f = Body(f)
  <2>1. ASSUME NEW n \in 0..Len(s) PROVE f[n] = Body(f)[n]
    <3>1. n = 0 \/ n \in 1..Len(s)
      BY <1>1
    <3> HIDE DEF Takes
    <3> QED BY <1>5, <3>1
  <2> QED BY <1>4, <2>1
<1> DEFINE left == CHOOSE g : g = Body(g)
<1>7. left = Body(left)
  BY <1>6
<1>8. Without(s, days) = left[Len(s)]
  BY DEF Without
<1>9. left[Len(s)] = f[Len(s)]
  <2> HIDE DEF left
  <2>1. left[0] = f[0]
    BY <1>1, <1>5, <1>7
  <2>2. \A n \in 1..Len(s) : left[n - 1] = f[n - 1] => left[n] = f[n]
    <3> SUFFICES ASSUME NEW n \in 1..Len(s), left[n - 1] = f[n - 1] PROVE left[n] = f[n]
      OBVIOUS
    <3>1. n \in 0..Len(s) /\ n # 0
      BY <1>1
    <3>2. f[n] = Takes(f[n - 1], n) /\ left[n] = Takes(left[n - 1], n)
      <4> HIDE DEF Takes
      <4> QED BY <1>5, <1>7, <3>1
    <3> QED BY <3>2
  <2>3. \A n \in 0..Len(s) : left[n] = f[n]
    BY ONLY <1>1, <2>1, <2>2, LoopsAgree, ZenonT(60)
  <2> QED BY <1>1, <2>3
<1>10. IsLeft(f, T, s, days)
  BY <1>4, <1>5 DEF IsLeft
<1> QED BY <1>8, <1>9, <1>10

\* e says which row of s each row that is left was.
Embeds(e, out, s, N, days) ==
  /\ e \in [1..Len(out) -> 1..N]
  /\ \A i, j \in 1..Len(out) : i < j => e[i] < e[j]
  /\ \A i \in 1..Len(out) : out[i] = s[e[i]] /\ out[i].day \notin days

LEMMA LeftIsPart ==
  ASSUME NEW T, NEW s \in Seq(T), NEW days
  PROVE  /\ Without(s, days) \in Seq(T)
         /\ \E e : Embeds(e, Without(s, days), s, Len(s), days)
<1>1. PICK left : IsLeft(left, T, s, days) /\ Without(s, days) = left[Len(s)]
  BY LeftLoop
<1> DEFINE W == {n \in Nat : n <= Len(s) => \E e : Embeds(e, left[n], s, n, days)}
<1>2. 0 \in W
  <2> DEFINE e == [i \in 1..0 |-> 0]
  <2>1. left[0] = <<>> /\ Len(<<>>) = 0
    BY <1>1 DEF IsLeft
  <2>2. Embeds(e, left[0], s, 0, days)
    BY <2>1 DEF Embeds
  <2> QED BY <2>2
<1>3. ASSUME NEW n \in Nat, n \in W PROVE n + 1 \in W
  <2> SUFFICES ASSUME n + 1 <= Len(s) PROVE \E e : Embeds(e, left[n + 1], s, n + 1, days)
    OBVIOUS
  <2>1. PICK e : Embeds(e, left[n], s, n, days)
    BY <1>3
  <2>2. /\ n + 1 \in 1..Len(s) /\ n \in 0..Len(s) /\ (n + 1) - 1 = n
        /\ s[n + 1] \in T /\ left[n] \in Seq(T) /\ Len(left[n]) \in Nat
    BY <1>1 DEF IsLeft
  <2>3. left[n + 1] = IF s[n + 1].day \in days THEN left[n] ELSE Append(left[n], s[n + 1])
    BY <1>1, <2>2 DEF IsLeft
  <2>4. CASE s[n + 1].day \in days
    <3>1. Embeds(e, left[n + 1], s, n + 1, days)
      BY <2>1, <2>2, <2>3, <2>4 DEF Embeds
    <3> QED BY <3>1
  <2>5. CASE s[n + 1].day \notin days
    <3> DEFINE L == Len(left[n])
               g == [i \in 1..(L + 1) |-> IF i = L + 1 THEN n + 1 ELSE e[i]]
    <3>1. /\ Len(left[n + 1]) = L + 1 /\ left[n + 1][L + 1] = s[n + 1]
          /\ \A i \in 1..L : left[n + 1][i] = left[n][i]
      BY <2>2, <2>3, <2>5
    <3>2. \A i \in 1..L : e[i] \in 1..n /\ left[n][i] = s[e[i]] /\ left[n][i].day \notin days
      BY <2>1 DEF Embeds
    <3>3. g \in [1..(L + 1) -> 1..(n + 1)]
      <4>1. ASSUME NEW i \in 1..(L + 1) PROVE (IF i = L + 1 THEN n + 1 ELSE e[i]) \in 1..(n + 1)
        <5>1. i = L + 1 \/ i \in 1..L
          BY <2>2
        <5> QED BY <3>2, <5>1
      <4> QED BY <4>1
    <3>4. ASSUME NEW i \in 1..(L + 1), NEW j \in 1..(L + 1), i < j PROVE g[i] < g[j]
      <4>1. i \in 1..L /\ (j = L + 1 \/ j \in 1..L)
        BY <2>2, <3>4
      <4>2. g[i] = e[i] /\ e[i] \in 1..n
        BY <2>2, <3>2, <4>1
      <4>3. CASE j = L + 1
        BY <4>2, <4>3
      <4>4. CASE j \in 1..L
        <5>1. g[j] = e[j]
          BY <2>2, <4>4
        <5> QED BY <2>1, <3>4, <4>1, <4>2, <4>4, <5>1 DEF Embeds
      <4> QED BY <4>1, <4>3, <4>4
    <3>5. ASSUME NEW i \in 1..(L + 1)
          PROVE  left[n + 1][i] = s[g[i]] /\ left[n + 1][i].day \notin days
      <4>1. i = L + 1 \/ (i \in 1..L /\ i # L + 1)
        BY <2>2
      <4> QED BY <2>5, <3>1, <3>2, <4>1
    <3>6. Embeds(g, left[n + 1], s, n + 1, days)
      <4> HIDE DEF g, L
      <4> QED BY <3>1, <3>3, <3>4, <3>5 DEF Embeds
    <3> QED BY <3>6
  <2> QED BY <2>4, <2>5
<1>4. \A n \in Nat : n \in W
  <2> HIDE DEF W
  <2> QED BY <1>2, <1>3, Numbers
<1>5. Len(s) \in Nat
  OBVIOUS
<1>6. \E e : Embeds(e, left[Len(s)], s, Len(s), days)
  BY <1>4, <1>5
<1>7. left[Len(s)] \in Seq(T)
  BY <1>1, <1>5 DEF IsLeft
<1> QED BY <1>1, <1>6, <1>7

\* The errors are duplicates and prices not above zero.
LEMMA ErrorsAre ==
  ASSUME NEW s, NEW sessions, NEW asOf
  PROVE  Errors(RunQuality(s, sessions, asOf)) = Duplicates(s) \cup NonPositive(s)
<1>1. /\ \A i \in Duplicates(s) \cup NonPositive(s) : i.severity = "ERROR"
      /\ \A i \in Outliers(s) \cup Missing(s, sessions) \cup Stale(s, asOf) : i.severity # "ERROR"
  BY DEF Duplicates, NonPositive, Outliers, Missing, Stale, Issue
<1> QED BY <1>1 DEF Errors, RunQuality

LEMMA QuarantineIsEnough == ASSUME ChecksInv PROVE QuarantineSuffices
<1> DEFINE days == QuarantineKeys(Issues)
           left == Without(Adjusted, days)
           T == {Adjusted[k] : k \in 1..Len(Adjusted)}
<1>1. rows \in Seq(Bars) /\ Len(rows) \in Nat
  BY DEF ChecksInv
<1>2. Adjusted \in Seq(T)
  <2>1. \E f : Adjusted = [k \in 1..Len(rows) |-> f[k]]
    <3>1. Adjusted = [k \in 1..Len(rows) |-> Adjusted[k]]
      BY DEF Adjusted, AdjustBars
    <3> QED BY <3>1
  <2> QED BY <1>1, <2>1
<1>3. PICK e : Embeds(e, left, Adjusted, Len(Adjusted), days)
  <2> HIDE DEF T, days
  <2> QED BY <1>2, LeftIsPart
<1>4. left \in Seq(T)
  <2> HIDE DEF T, days
  <2> QED BY <1>2, LeftIsPart
<1>5. \A i \in Duplicates(Adjusted) \cup NonPositive(Adjusted) : i.day \in days
  BY ErrorsAre DEF QuarantineKeys, Issues
<1> HIDE DEF T, days, left
<1>6. Len(left) \in Nat /\ Len(Adjusted) \in Nat
  BY <1>2, <1>4
<1>7. Duplicates(left) = {}
  <2> SUFFICES ASSUME NEW n \in 1..Len(left), NEW j \in 1..(n - 1), left[j].day = left[n].day
               PROVE  FALSE
    BY DEF Duplicates
  <2>1. j \in 1..Len(left) /\ j < n
    BY <1>6
  <2>2. /\ e[j] \in 1..Len(Adjusted) /\ e[n] \in 1..Len(Adjusted) /\ e[j] < e[n]
        /\ left[j] = Adjusted[e[j]] /\ left[n] = Adjusted[e[n]] /\ left[n].day \notin days
    BY <1>3, <2>1 DEF Embeds
  <2>3. e[j] \in 1..(e[n] - 1)
    BY <1>6, <2>2
  <2>4. Issue("DUPLICATE", "ERROR", Adjusted[e[n]].day) \in Duplicates(Adjusted)
    BY <2>2, <2>3 DEF Duplicates
  <2> QED BY <1>5, <2>2, <2>4 DEF Issue
<1>8. NonPositive(left) = {}
  <2> SUFFICES ASSUME NEW n \in 1..Len(left), left[n].price[1] <= 0 PROVE FALSE
    BY DEF NonPositive
  <2>1. e[n] \in 1..Len(Adjusted) /\ left[n] = Adjusted[e[n]] /\ left[n].day \notin days
    BY <1>3 DEF Embeds
  <2>2. Issue("NONPOSITIVE_PRICE", "ERROR", Adjusted[e[n]].day) \in NonPositive(Adjusted)
    BY <2>1 DEF NonPositive
  <2> QED BY <1>5, <2>1, <2>2 DEF Issue
<1>9. Errors(RunQuality(left, 1..MaxDate, MaxDate)) = {}
  BY <1>7, <1>8, ErrorsAre
<1> QED BY <1>9 DEF QuarantineSuffices, left, days

\* corporate_actions.py and quality.py: whatever the prices and the actions, the outliers
\* of adjusted bars are the moves the actions of their own days do not explain, the
\* value traded stays what it was up to half a share, and without the quarantined days
\* there is no error left.
THEOREM AdjustmentsAreExact == ChecksSpec => []AdjustmentIsExact
<1>1. ChecksInv => AdjustmentIsExact
  BY OutliersExplained, NotionalStays, QuarantineIsEnough DEF AdjustmentIsExact
<1> QED BY <1>1, ChecksHold, PTL
=============================================================================
