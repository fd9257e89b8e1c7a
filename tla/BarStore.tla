------------------------------- MODULE BarStore -------------------------------
(***************************************************************************)
(* services/ingestion: the bar repository with its correction history      *)
(* (repository.py), the Parquet file it is saved to and replayed from      *)
(* (parquet_store.py), and load_eod run by run_job (loader.py, jobs.py):   *)
(* a feed is upserted row by row; when the adapter raises half way, the    *)
(* job starts again from the first row, and after its last retry it is     *)
(* dead-lettered.  All of it runs in one thread; the process may be killed *)
(* between two rows or while the file is written.                          *)
(*                                                                         *)
(* Abstracted: the prices and volume of a bar are one value; time is       *)
(* counted in days; the file is the history it was written from.           *)
(***************************************************************************)
EXTENDS Naturals, Sequences

CONSTANTS
  Keys,         \* Bar.value_key: records [inst, day, adjusted, ...]
  Values,       \* Bar.value_payload
  Feeds,        \* what adapters may yield: sequences of rows [key, val]
  Retries,      \* run_job's retries
  MaxVersions,  \* bound: no load starts once a key has that many versions
  MaxDay,       \* bound on the calendar
  MayCrash      \* TRUE: the process may be killed

Days == 1..MaxDay
Row == [key : Keys, val : Values]
Version == [val : Values, at : Days, ver : Nat]   \* a stored Bar

ASSUME BarAssumption ==
  /\ \A k \in Keys : k.day \in Days /\ k.adjusted \in BOOLEAN
  /\ Feeds \subseteq Seq(Row)
  /\ Retries \in Nat
  /\ MaxVersions \in Nat
  /\ MaxDay \in Nat \ {0}
  /\ MayCrash \in BOOLEAN

VARIABLES
  hist,     \* InMemoryBarRepository._history
  disk,     \* the Parquet file: the history of each key, empty before the first save
  readable, \* FALSE: the last save died half way
  mode,     \* "down", "ready", "loading" (in run_job) or "reloading" (in load)
  feed,     \* the rows of the running or the last load
  pos,      \* load_eod: the rows upserted by this attempt
  tries,    \* run_job: the attempt, from 1
  outcome,  \* how the last run_job ended: "none", "loaded" or "dead" (one more
            \* item in the dead-letter queue)
  upto,     \* load: upto[k] rows of k are replayed
  before,   \* history variable: hist when the running or last load began
  today     \* the date

barVars == <<hist, disk, readable, mode, feed, pos, tries, outcome, upto, before, today>>
job == <<feed, pos, tries, outcome, before>>
file == <<disk, readable>>

NoHistory == [k \in Keys |-> << >>]
Latest(h, k) == h[k][Len(h[k])]

\* Mutants: every correction is version 0; any earlier version counts as a
\* duplicate; nothing does; the newest version is overwritten.
Adding(h, k, val, at, ver) ==
  [h EXCEPT ![k] = Append(@, [val |-> val, at |-> at, ver |-> ver])]
UpsertedUnnumbered(h, k, val, at) ==
  IF h[k] # << >> /\ Latest(h, k).val = val THEN h ELSE Adding(h, k, val, at, 0)
UpsertedOnce(h, k, val, at) ==
  IF \E i \in DOMAIN h[k] : h[k][i].val = val THEN h ELSE Adding(h, k, val, at, Len(h[k]))
UpsertedAlways(h, k, val, at) == Adding(h, k, val, at, Len(h[k]))
UpsertedInPlace(h, k, val, at) ==
  IF h[k] = << >> THEN Adding(h, k, val, at, 0)
  ELSE [h EXCEPT ![k][Len(h[k])] = [val |-> val, at |-> at, ver |-> Len(h[k]) - 1]]

\* upsert: a new key at version 0, unchanged values skipped, others appended.
Upserted(h, k, val, at) ==
  IF h[k] = << >>
    THEN [h EXCEPT ![k] = <<[val |-> val, at |-> at, ver |-> 0]>>]
    ELSE IF Latest(h, k).val = val
      THEN h
      ELSE [h EXCEPT ![k] =
              Append(@, [val |-> val, at |-> at, ver |-> Latest(h, k).ver + 1])]

\* The bars as_of returns: the newest version of every session up to d.
AsOf(inst, d) ==
  {<<k, Latest(hist, k)>> :
     k \in {j \in Keys : /\ hist[j] # << >>
                         /\ j.inst = inst /\ ~j.adjusted /\ j.day <= d}}

-----------------------------------------------------------------------------
(* run_job(load_eod).                                                      *)

StartLoad(f) ==
  /\ mode = "ready"
  /\ \A i \in DOMAIN f : f[i].key.day <= today   \* no bars of sessions to come
  /\ \A k \in Keys : Len(hist[k]) < MaxVersions
  /\ mode' = "loading"
  /\ feed' = f /\ pos' = 0 /\ tries' = 1 /\ outcome' = "none"
  /\ before' = hist
  /\ UNCHANGED <<hist, file, upto, today>>

\* One row: the adapter yields it, stamped with the time, and it is upserted.
LoadRow ==
  /\ mode = "loading"
  /\ pos < Len(feed)
  /\ LET row == feed[pos + 1] IN hist' = Upserted(hist, row.key, row.val, today)
  /\ pos' = pos + 1
  /\ UNCHANGED <<file, mode, feed, tries, outcome, upto, before, today>>

FinishLoad ==
  /\ mode = "loading"
  /\ pos = Len(feed)
  /\ mode' = "ready"
  /\ outcome' = "loaded"
  /\ UNCHANGED <<hist, file, feed, pos, tries, upto, before, today>>

\* Mutant: one retry too many.
LoadFailsOnceMore ==
  /\ mode = "loading"
  /\ pos < Len(feed)
  /\ tries <= Retries + 1
  /\ tries' = tries + 1
  /\ pos' = 0
  /\ UNCHANGED <<hist, file, mode, feed, outcome, upto, before, today>>

\* The adapter raises (a bad row, an I/O error): rows upserted so far stay.
LoadFails ==
  /\ mode = "loading"
  /\ pos < Len(feed)
  /\ \/ /\ tries <= Retries
        /\ tries' = tries + 1
        /\ pos' = 0
        /\ UNCHANGED <<mode, outcome>>
     \/ /\ tries > Retries
        /\ mode' = "ready"
        /\ outcome' = "dead"
        /\ UNCHANGED <<tries, pos>>
  /\ UNCHANGED <<hist, file, feed, upto, before, today>>

LoadStep == LoadRow \/ FinishLoad \/ LoadFails

-----------------------------------------------------------------------------
(* The Parquet file and the process.                                       *)

Save ==
  /\ mode = "ready"
  /\ disk' = hist
  /\ readable' = TRUE
  /\ UNCHANGED <<hist, mode, job, upto, today>>

Down ==
  /\ hist' = NoHistory
  /\ mode' = "down"
  /\ feed' = << >> /\ pos' = 0 /\ tries' = 0 /\ outcome' = "none"
  /\ before' = NoHistory
  /\ upto' = [k \in Keys |-> 0]
  /\ UNCHANGED today

Kill ==
  /\ MayCrash
  /\ mode # "down"
  /\ Down
  /\ UNCHANGED file

\* to_parquet writes the target in place.
KillInSave ==
  /\ MayCrash
  /\ mode = "ready"
  /\ Down
  /\ readable' = FALSE
  /\ UNCHANGED disk

\* A process that does not look at the file, and one that loads it.
StartEmpty ==
  /\ mode = "down"
  /\ mode' = "ready"
  /\ UNCHANGED <<hist, file, job, upto, today>>

StartReload ==
  /\ mode = "down"
  /\ readable
  /\ mode' = "reloading"
  /\ UNCHANGED <<hist, file, job, upto, today>>

\* Mutant: the newest version of a key is replayed first.
ReplayRowNewestFirst(k) ==
  /\ mode = "reloading"
  /\ upto[k] < Len(disk[k])
  /\ LET row == disk[k][Len(disk[k]) - upto[k]] IN hist' = Upserted(hist, k, row.val, row.at)
  /\ upto' = [upto EXCEPT ![k] = @ + 1]
  /\ UNCHANGED <<file, mode, job, today>>

\* Rows come in the order of their correction version, in any order of keys
\* within a version (sort_values is not stable), with their own ingest time.
ReplayRow(k) ==
  /\ mode = "reloading"
  /\ upto[k] < Len(disk[k])
  /\ \A j \in Keys : upto[j] >= upto[k] \/ upto[j] = Len(disk[j])
  /\ LET row == disk[k][upto[k] + 1] IN hist' = Upserted(hist, k, row.val, row.at)
  /\ upto' = [upto EXCEPT ![k] = @ + 1]
  /\ UNCHANGED <<file, mode, job, today>>

Reloaded ==
  /\ mode = "reloading"
  /\ \A k \in Keys : upto[k] = Len(disk[k])
  /\ mode' = "ready"
  /\ UNCHANGED <<hist, file, job, upto, today>>

Tomorrow ==
  /\ mode \in {"ready", "down"}
  /\ today < MaxDay
  /\ today' = today + 1
  /\ UNCHANGED <<hist, file, mode, job, upto>>

Init ==
  /\ hist = NoHistory
  /\ disk = NoHistory
  /\ readable = TRUE
  /\ mode = "ready"
  /\ feed = << >> /\ pos = 0 /\ tries = 0 /\ outcome = "none"
  /\ before = NoHistory
  /\ upto = [k \in Keys |-> 0]
  /\ today = 1

Next ==
  \/ \E f \in Feeds : StartLoad(f)
  \/ LoadStep
  \/ Save \/ Kill \/ KillInSave \/ StartEmpty \/ StartReload
  \/ \E k \in Keys : ReplayRow(k)
  \/ Reloaded
  \/ Tomorrow

Spec == Init /\ [][Next]_barVars

-----------------------------------------------------------------------------
(* Properties.                                                             *)

\* Every variable has its type.
BarTypeOK ==
  /\ hist \in [Keys -> Seq(Version)]
  /\ disk \in [Keys -> Seq(Version)]
  /\ readable \in BOOLEAN
  /\ mode \in {"down", "ready", "loading", "reloading"}
  /\ feed \in Seq(Row)
  /\ pos \in 0..Len(feed)
  /\ tries \in 0..(Retries + 1)
  /\ outcome \in {"none", "loaded", "dead"}
  /\ upto \in [Keys -> Nat]
  /\ before \in [Keys -> Seq(Version)]
  /\ today \in Days

\* The correction history of a key, in memory and on disk: versions count from
\* 0, each changed the value, and each was ingested when the session had been
\* held and not before the version it corrects.
Chain(h) ==
  \A i \in DOMAIN h :
    /\ h[i].ver = i - 1
    /\ i > 1 => h[i].val # h[i - 1].val /\ h[i].at >= h[i - 1].at

Dated(k, h) == \A i \in DOMAIN h : k.day <= h[i].at /\ h[i].at <= today

CorrectionsChain ==
  \A k \in Keys :
    /\ Chain(hist[k]) /\ Chain(disk[k])
    /\ Dated(k, hist[k]) /\ Dated(k, disk[k])

\* Replaying the file through upsert restores what was saved, every version
\* with its number and its ingest time: at each point of the replay the
\* history of a key is the part of the file replayed so far, so nothing was
\* skipped as a duplicate and nothing was renumbered.
ReplayIsFaithful ==
  mode = "reloading" =>
    \A k \in Keys : hist[k] = SubSeq(disk[k], 1, upto[k])

\* While a process lives, corrections only add to the history: nothing that was
\* ingested is changed or lost, and a step adds at most one version.
HistoryGrows ==
  [][mode' # "down" =>
       \A k \in Keys :
         /\ Len(hist'[k]) \in {Len(hist[k]), Len(hist[k]) + 1}
         /\ \A i \in DOMAIN hist[k] : hist'[k][i] = hist[k][i]]_barVars

\* After a load that succeeded, whatever failed attempts came before it, the
\* newest version of every key of the feed is the feed's last row of that key.
LoadedFeedIsLatest ==
  outcome = "loaded" =>
    \A i \in DOMAIN feed :
      (\A j \in DOMAIN feed : j > i => feed[j].key # feed[i].key) =>
        /\ hist[feed[i].key] # << >>
        /\ Latest(hist, feed[i].key).val = feed[i].val

\* Running a feed again is harmless if it has one row for each key (loader.py:
\* "Re-running the same feed produces no changes"): whatever attempts failed,
\* a key is at most one version ahead of where it was before the job, and
\* only if the feed brought a new value.
OneRowPerKey(f) == \A i, j \in DOMAIN f : f[i].key = f[j].key => i = j

RetriesAddOnce ==
  OneRowPerKey(feed) /\ mode \in {"loading", "ready"} /\ tries > 0 =>
    \A k \in Keys :
      \/ hist[k] = before[k]
      \/ /\ Len(hist[k]) = Len(before[k]) + 1
         /\ \E i \in DOMAIN feed : feed[i].key = k /\ feed[i].val = Latest(hist, k).val

\* models.py:3: "Point-in-time by construction: every bar carries the session it
\* belongs to plus when it was ingested and which correction version it is, so
\* historical queries can reproduce exactly what was known at a past decision
\* time."  What as_of returned for a day that is over, it returns for good.
AsOfReproduces ==
  [][\A k \in Keys, d \in Days :
       d < today => AsOf(k.inst, d) \subseteq AsOf(k.inst, d)']_barVars
=============================================================================
