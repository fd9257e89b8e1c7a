------------------------------- MODULE JsonLines -------------------------------
(***************************************************************************)
(* The stores that keep what they are given in memory and append it, line  *)
(* by line, to a JSON file: the raw documents (document_store.py), the     *)
(* feature store (feature_store.py), the paper-signal ledger               *)
(* (paper_ledger.py) and the experiments (evaluation/registry.py).  One    *)
(* thread.  Any write may raise, after some of its bytes or none, and the  *)
(* process may die between any two steps.                                  *)
(*                                                                         *)
(* Abstracted: an item is what makes it the same item (content hash,       *)
(* instrument and day, or its own id) and the rest of it.  A file is its   *)
(* lines; a line that does not parse is Garbage, and its last line may     *)
(* lack its end, so that the next append goes on in it.  Values with a     *)
(* line separator in their text (U+2028, U+0085), which JSON leaves as it  *)
(* is, are Splitting.                                                      *)
(***************************************************************************)
EXTENDS Integers, Sequences, SequencesExt

CONSTANTS
  Keys, Values,  \* an item is a key with a value
  Splitting,     \* the values str.splitlines cuts in two
  Stores,        \* the kinds of store
  Garbage, None,
  MaxPuts, MaxLines, MaxFaults \* bounds: puts, lines of the file, faults

ASSUME StoresAssumption ==
  /\ Stores \subseteq {"documents", "features", "signals", "experiments"}
  /\ None \notin {"part", "whole"}

VARIABLES
  kind,     \* which store it is
  memory,   \* what was put, oldest first, as [item, line]; history: whether the file has
            \* something of it, "written", or why not
  hasPath,  \* the store knows its file
  file,     \* the lines
  ended,    \* the last line has its end
  raw,      \* raw/<hash>.txt of each document: None, "part" or the "whole" content
  putting,  \* the item of a put that has not returned, or None
  stage,    \* "down", "ready", "raw" (its raw file is next) or "line"
  cut,      \* history: the keys whose raw file was cut short
  puts, faults \* bounds

store == <<kind, memory, hasPath, file, ended, raw, putting, stage, cut, puts, faults>>

Items == Keys \X Values
Documents == kind = "documents"

\* What a store answers from: dicts by key, or a list.
Told(items) ==
  IF kind \in {"documents", "features"}
  THEN [k \in {items[n][1] : n \in 1..Len(items)} |->
          items[Max({n \in 1..Len(items) : items[n][1] = k})]]
  ELSE items
Written(lines) ==
  LET kept[n \in 0..Len(lines)] ==
        IF n = 0 THEN <<>>
        ELSE IF lines[n].line = "written" THEN Append(kept[n - 1], lines[n].item)
        ELSE kept[n - 1]
  IN kept[Len(lines)]
Kept == Written(memory)
Known(k) == \E n \in 1..Len(memory) : memory[n].item[1] = k

\* Two loaders cut the file with str.splitlines, two read it line by line.
Parses(line) ==
  line # Garbage /\ ~(kind \in {"documents", "experiments"} /\ line[2] \in Splitting)
Loads == \A n \in 1..Len(file) : Parses(file[n])

StoresInit ==
  /\ kind \in Stores
  /\ memory = <<>> /\ hasPath = TRUE /\ file = <<>> /\ ended = TRUE
  /\ raw = [k \in Keys |-> None] /\ putting = None /\ stage = "ready" /\ cut = {}
  /\ puts = 0 /\ faults = 0

-----------------------------------------------------------------------------
(* store, put, append, register.                                           *)

Remember(x) == memory' = Append(memory, [item |-> x, line |-> "none"])

\* Mutant: a document is entered in the dicts before its raw file is written.
BeginsRemembering(x) ==
  IF Documents /\ raw[x[1]] = None
  THEN putting' = x /\ stage' = "raw" /\ Remember(x) /\ UNCHANGED raw
  ELSE putting' = x /\ stage' = "line" /\ Remember(x) /\ UNCHANGED raw

\* The content of a known document is not stored again; its raw file, if there is
\* one, is not written again.  The other stores take every item.
Begins(x) ==
  IF Documents /\ raw[x[1]] = None
  THEN putting' = x /\ stage' = "raw" /\ UNCHANGED <<memory, raw>>
  ELSE putting' = x /\ stage' = "line" /\ Remember(x) /\ UNCHANGED raw

Put(x) ==
  /\ stage = "ready" /\ puts < MaxPuts /\ Len(file) < MaxLines
  /\ Documents => ~Known(x[1])
  /\ kind \in {"signals", "experiments"} => ~Known(x[1]) /\ \A n \in 1..Len(file) : file[n] # x
  /\ Begins(x)
  /\ puts' = puts + 1
  /\ UNCHANGED <<kind, hasPath, file, ended, cut, faults>>

RawWritten ==
  /\ stage = "raw"
  /\ raw' = [raw EXCEPT ![putting[1]] = "whole"]
  /\ Remember(putting) /\ stage' = "line"
  /\ UNCHANGED <<kind, hasPath, file, ended, putting, cut, puts, faults>>

\* The bytes of a line go behind what is there: into the last line if that has no end.
Extended(line, whole) ==
  /\ file' = IF ended THEN Append(file, line) ELSE Front(file) \o <<Garbage>>
  /\ ended' = whole

Marked(what) == memory' = [memory EXCEPT ![Len(memory)].line = what]

LineWritten ==
  /\ stage = "line"
  /\ IF hasPath THEN Extended(putting, TRUE) /\ Marked("written")
     ELSE UNCHANGED <<file, ended>> /\ Marked("no file")
  /\ stage' = "ready" /\ putting' = None
  /\ UNCHANGED <<kind, hasPath, raw, cut, puts, faults>>

-----------------------------------------------------------------------------
(* Faults.                                                                 *)

\* What a write that does not end well leaves of its line: nothing, a part of it, or
\* the line without its end.
LeavesOfLine ==
  \/ UNCHANGED <<file, ended>>
  \/ hasPath /\ Extended(Garbage, FALSE)
  \/ hasPath /\ Extended(putting, FALSE)

LeavesOfRaw ==
  \E left \in {None, "part"} :
    /\ raw' = [raw EXCEPT ![putting[1]] = left]
    /\ cut' = IF left = "part" THEN cut \cup {putting[1]} ELSE cut

\* The caller gets the exception; the process goes on with what is in memory.
WriteRaises ==
  /\ faults < MaxFaults /\ faults' = faults + 1
  /\ \/ stage = "raw" /\ LeavesOfRaw /\ UNCHANGED <<memory, file, ended>>
     \/ stage = "line" /\ hasPath /\ LeavesOfLine /\ UNCHANGED <<raw, cut>>
        /\ Marked(IF file' = file THEN "failed" ELSE "written")
  /\ stage' = "ready" /\ putting' = None
  /\ UNCHANGED <<kind, hasPath, puts>>

Dies ==
  /\ faults < MaxFaults /\ faults' = faults + 1
  /\ \/ stage = "raw" /\ LeavesOfRaw /\ UNCHANGED <<file, ended>>
     \/ stage = "line" /\ LeavesOfLine /\ UNCHANGED <<raw, cut>>
  /\ stage' = "down" /\ putting' = None /\ memory' = <<>>
  /\ UNCHANGED <<kind, hasPath, puts>>

\* The process ends between two puts.
Stops ==
  /\ stage = "ready" /\ stage' = "down" /\ memory' = <<>>
  /\ UNCHANGED <<kind, hasPath, file, ended, raw, putting, cut, puts, faults>>

\* Mutant: no store knows its file after a load.
LoadPathless ==
  /\ stage = "down" /\ Loads
  /\ memory' = [n \in 1..Len(file) |-> [item |-> file[n], line |-> "written"]]
  /\ hasPath' = FALSE /\ stage' = "ready"
  /\ UNCHANGED <<kind, file, ended, raw, putting, cut, puts, faults>>

\* A load raises at a line it cannot parse, now and ever after; the feature store
\* it returns has no path.
Load ==
  /\ stage = "down" /\ Loads
  /\ memory' = [n \in 1..Len(file) |-> [item |-> file[n], line |-> "written"]]
  /\ hasPath' = (kind # "features") /\ stage' = "ready"
  /\ UNCHANGED <<kind, file, ended, raw, putting, cut, puts, faults>>

StoresNext ==
  \/ \E x \in Items : Put(x)
  \/ RawWritten \/ LineWritten \/ WriteRaises \/ Dies \/ Stops \/ Load

StoresSpec == StoresInit /\ [][StoresNext]_store

-----------------------------------------------------------------------------
(* Properties.                                                             *)

\* document_store.py: a document the index names has its raw file, whatever raised
\* or died in between, and the whole of it unless the write of that file was cut.
IndexedHasRaw ==
  Documents =>
    \A k \in Keys :
      Known(k) \/ (\E n \in 1..Len(file) : file[n] # Garbage /\ file[n][1] = k) =>
      raw[k] # None /\ (k \notin cut => raw[k] = "whole")

\* While its file loads (a cut line, or one that splitlines cuts, and it never does
\* again), a load tells what the store that runs tells, but for the
\* items whose append raised before its first byte, and for what a feature store
\* got after it was itself loaded; no other put goes missing.
ReloadIsFaithful ==
  stage = "ready" /\ Loads =>
    /\ Told(file) = Told(Kept)
    /\ (\E n \in 1..Len(memory) : memory[n].line = "no file") => kind = "features"
===============================================================================
