------------------------------ MODULE DeskProofs ------------------------------
(***************************************************************************)
(* Theorems about the stores of JSON lines (JsonLines) and about the alert *)
(* engine (AlertEngine), for any items, alerts and hours, and any number   *)
(* of faults.                                                              *)
(***************************************************************************)
EXTENDS JsonLines, AlertEngine, FoldLemmas, TLAPS

-----------------------------------------------------------------------------
(* The document store.  What its dicts or its index name, and what it is   *)
(* about to enter in the index, has a raw file; a document whose raw file  *)
(* is about to be written has none yet, so that a cut write harms no other.*)

Lines == {"none", "written", "failed", "no file"}
Entries == [item : Items, line : Lines]
HasRaw(k) == raw[k] # None

StoreTyped ==
  /\ memory \in Seq(Entries)
  /\ file \in Seq(Items \cup {Garbage})
  /\ raw \in [Keys -> {None, "part", "whole"}]
  /\ stage \in {"raw", "line"} => putting \in Items

RawKept ==
  /\ \A k \in Keys : raw[k] = "part" => k \in cut
  /\ \A n \in 1..Len(memory) : HasRaw(memory[n].item[1])
  /\ \A n \in 1..Len(file) : file[n] # Garbage => HasRaw(file[n][1])
  /\ stage = "line" => HasRaw(putting[1])

StoreInv ==
  /\ StoreTyped
  /\ stage = "raw" => Documents /\ raw[putting[1]] = None
  /\ Documents => RawKept

LEMMA MarkedKeeps ==
  ASSUME memory \in Seq(Entries), NEW what \in Lines, Marked(what)
  PROVE  /\ memory' \in Seq(Entries) /\ Len(memory') = Len(memory)
         /\ \A n \in 1..Len(memory) : memory'[n].item = memory[n].item
<1>1. memory' = [memory EXCEPT ![Len(memory)].line = what]
  BY DEF Marked
<1>2. \A n \in 1..Len(memory) : memory[n] \in Entries
  OBVIOUS
<1>3. \A n \in 1..Len(memory) :
        memory'[n] = IF n = Len(memory) THEN [memory[n] EXCEPT !.line = what] ELSE memory[n]
  BY <1>1
<1>4. \A n \in 1..Len(memory) : memory'[n] \in Entries /\ memory'[n].item = memory[n].item
  BY <1>2, <1>3 DEF Entries
<1>5. Len(memory) \in Nat /\ DOMAIN memory = 1..Len(memory)
  OBVIOUS
<1>6. memory' \in [1..Len(memory) -> Entries]
  <2>1. memory' = [n \in DOMAIN memory |->
                     IF n = Len(memory) THEN [memory[n] EXCEPT !.line = what] ELSE memory[n]]
    BY <1>1, Zenon
  <2>2. memory' = [n \in 1..Len(memory) |->
                     IF n = Len(memory) THEN [memory[n] EXCEPT !.line = what] ELSE memory[n]]
    BY <2>1, <1>5, Zenon
  <2>3. \A n \in 1..Len(memory) :
          (IF n = Len(memory) THEN [memory[n] EXCEPT !.line = what] ELSE memory[n]) \in Entries
    BY <1>2 DEF Entries
  <2> QED
    BY <2>2, <2>3, Zenon
<1>7. memory' \in Seq(Entries) /\ Len(memory') = Len(memory)
  BY <1>5, <1>6
<1> QED
  BY <1>4, <1>7

LEMMA RememberKeeps ==
  ASSUME memory \in Seq(Entries), NEW x \in Items, Remember(x)
  PROVE  /\ memory' \in Seq(Entries) /\ Len(memory') = Len(memory) + 1
         /\ \A n \in 1..Len(memory) : memory'[n].item = memory[n].item
         /\ memory'[Len(memory) + 1].item = x
<1>1. PICK e : e = [item |-> x, line |-> "none"]
  OBVIOUS
<1>2. e \in Entries /\ e.item = x
  <2>1. "none" \in Lines
    BY DEF Lines
  <2> QED
    BY <1>1, <2>1 DEF Entries
<1>3. memory' = Append(memory, e)
  BY <1>1 DEF Remember
<1> QED
  BY <1>2, <1>3

LEMMA ExtendedKeeps ==
  ASSUME NEW S, file \in Seq(S), Garbage \in S, NEW line \in S, NEW whole, Extended(line, whole)
  PROVE  /\ file' \in Seq(S)
         /\ \A n \in 1..Len(file') :
              \/ file'[n] \in {Garbage, line}
              \/ \E m \in 1..Len(file) : file'[n] = file[m]
<1>1. CASE ended
  BY <1>1 DEF Extended
<1>2. CASE ~ended
  <2>1. PICK f : f = Front(file)
    OBVIOUS
  <2>2. /\ f \in Seq(S) /\ Len(f) <= Len(file)
        /\ \A n \in 1..Len(f) : f[n] = file[n]
    BY <2>1 DEF Front
  <2>3. file' = f \o <<Garbage>>
    BY <1>2, <2>1 DEF Extended
  <2>4. /\ file' \in Seq(S) /\ Len(file') = Len(f) + 1
        /\ \A n \in 1..Len(f) : file'[n] = f[n]
        /\ file'[Len(f) + 1] = Garbage
    BY <2>2, <2>3
  <2> QED
    BY <2>2, <2>4
<1> QED
  BY <1>1, <1>2

LEMMA RawStart == ASSUME StoresInit PROVE StoreInv
<1>1. /\ memory = <<>> /\ file = <<>> /\ stage = "ready" /\ raw = [k \in Keys |-> None]
  BY DEF StoresInit
<1>2. RawKept
  BY <1>1, StoresAssumption DEF RawKept
<1>3. StoreTyped
  BY <1>1 DEF StoreTyped
<1> QED
  BY <1>1, <1>2, <1>3 DEF StoreInv

\* A step that leaves the raw files alone, and adds nothing to memory or file but
\* what they had or what is being put.
LEMMA RawUntouched ==
  ASSUME StoreInv, StoreTyped', stage' # "raw", Documents /\ stage' = "line" => HasRaw(putting'[1]),
         UNCHANGED <<kind, raw, cut>>,
         Documents => \A n \in 1..Len(memory') : HasRaw(memory'[n].item[1]),
         Documents => \A n \in 1..Len(file') : file'[n] # Garbage => HasRaw(file'[n][1])
  PROVE  StoreInv'
<1>1. \A k : HasRaw(k)' = HasRaw(k)
  BY DEF HasRaw
<1>2. Documents' = Documents
  BY DEF Documents
<1>3. Documents => RawKept'
  BY <1>1 DEF RawKept, StoreInv, HasRaw
<1> QED
  BY <1>2, <1>3 DEF StoreInv

LEMMA PutKeeps ==
  ASSUME StoreInv, NEW x \in Items, Put(x)
  PROVE  StoreInv'
<1>1. /\ UNCHANGED <<kind, file, cut, raw>> /\ Begins(x) /\ putting' = x
      /\ x[1] \in Keys /\ stage = "ready"
  BY DEF Put, Begins, Items
<1>2. CASE Documents /\ raw[x[1]] = None
  <2>1. stage' = "raw" /\ UNCHANGED memory
    BY <1>1, <1>2 DEF Begins
  <2>2. StoreTyped'
    BY <1>1, <2>1 DEF StoreTyped, StoreInv
  <2>3. RawKept'
    BY <1>1, <1>2, <2>1 DEF RawKept, StoreInv, HasRaw
  <2> QED
    BY <1>1, <1>2, <2>1, <2>2, <2>3 DEF StoreInv, Documents
<1>3. CASE ~(Documents /\ raw[x[1]] = None)
  <2>1. stage' = "line" /\ Remember(x)
    BY <1>1, <1>3 DEF Begins
  <2>2. /\ memory' \in Seq(Entries) /\ Len(memory') = Len(memory) + 1
        /\ \A n \in 1..Len(memory) : memory'[n].item = memory[n].item
        /\ memory'[Len(memory) + 1].item = x /\ Len(memory) \in Nat
    BY <2>1, RememberKeeps DEF StoreInv, StoreTyped
  <2>3. StoreTyped'
    BY <1>1, <2>1, <2>2 DEF StoreTyped, StoreInv
  <2>4. Documents => \A n \in 1..Len(memory') : HasRaw(memory'[n].item[1])
    <3> SUFFICES ASSUME Documents, NEW n \in 1..Len(memory') PROVE HasRaw(memory'[n].item[1])
      OBVIOUS
    <3>1. n \in 1..Len(memory) \/ n = Len(memory) + 1
      BY <2>2
    <3>2. HasRaw(x[1])
      BY <1>3 DEF HasRaw
    <3> QED
      BY <2>2, <3>1, <3>2 DEF StoreInv, RawKept
  <2>5. Documents => \A n \in 1..Len(file') : file'[n] # Garbage => HasRaw(file'[n][1])
    BY <1>1 DEF StoreInv, RawKept
  <2>6. Documents /\ stage' = "line" => HasRaw(putting'[1])
    BY <1>1, <1>3 DEF HasRaw
  <2> QED
    BY <1>1, <2>1, <2>3, <2>4, <2>5, <2>6, RawUntouched
<1> QED
  BY <1>2, <1>3

LEMMA RawWrittenKeeps ==
  ASSUME StoreInv, RawWritten
  PROVE  StoreInv'
<1>1. /\ stage = "raw" /\ Documents /\ putting \in Items /\ putting[1] \in Keys
      /\ raw' = [raw EXCEPT ![putting[1]] = "whole"]
      /\ Remember(putting) /\ stage' = "line" /\ UNCHANGED <<kind, file, putting, cut>>
  BY DEF RawWritten, StoreInv, StoreTyped, Items
<1>2. /\ memory' \in Seq(Entries) /\ Len(memory') = Len(memory) + 1
      /\ \A n \in 1..Len(memory) : memory'[n].item = memory[n].item
      /\ memory'[Len(memory) + 1].item = putting /\ Len(memory) \in Nat
  BY <1>1, RememberKeeps DEF StoreInv, StoreTyped
<1>3. StoreTyped'
  BY <1>1, <1>2 DEF StoreTyped, StoreInv
<1>4. raw'[putting[1]] = "whole" /\ \A k : raw[k] # None => raw'[k] # None
  BY <1>1, StoresAssumption DEF StoreInv, StoreTyped
<1>5. raw'[putting[1]] # None
  BY <1>1, <1>4, StoresAssumption
<1>6. \A n \in 1..Len(memory') : raw'[memory'[n].item[1]] # None
  <2> SUFFICES ASSUME NEW n \in 1..Len(memory') PROVE raw'[memory'[n].item[1]] # None
    OBVIOUS
  <2>1. n \in 1..Len(memory) \/ n = Len(memory) + 1
    BY <1>2
  <2> QED
    BY <1>1, <1>2, <1>4, <1>5, <2>1 DEF StoreInv, RawKept, HasRaw
<1>7. \A k \in Keys : raw'[k] = "part" => k \in cut'
  BY <1>1 DEF StoreInv, StoreTyped, RawKept
<1>8. RawKept'
  BY <1>1, <1>4, <1>5, <1>6, <1>7 DEF RawKept, StoreInv, HasRaw
<1> QED
  BY <1>1, <1>3, <1>8 DEF StoreInv

\* What a line leaves in the file, whether the write of it ends well or not.
LEMMA LineKeeps ==
  ASSUME StoreInv, stage = "line", stage' = "ready" \/ stage' = "down",
         UNCHANGED <<kind, raw, cut>>,
         \/ UNCHANGED file
         \/ \E line \in {putting, Garbage}, whole \in BOOLEAN : Extended(line, whole),
         \/ memory' = <<>>
         \/ \E what \in Lines : Marked(what)
  PROVE  StoreInv'
<1>1. /\ putting \in Items /\ memory \in Seq(Entries) /\ file \in Seq(Items \cup {Garbage})
      /\ Len(file) \in Nat
  BY DEF StoreInv, StoreTyped
<1>2. /\ memory' \in Seq(Entries)
      /\ \A n \in 1..Len(memory') : n \in 1..Len(memory) /\ memory'[n].item = memory[n].item
  <2>1. CASE memory' = <<>>
    BY <2>1
  <2>2. ASSUME NEW what \in Lines, Marked(what) PROVE <1>2!1 /\ <1>2!2
    BY <1>1, <2>2, MarkedKeeps
  <2> QED
    BY <2>1, <2>2
<1>3. /\ file' \in Seq(Items \cup {Garbage})
      /\ \A n \in 1..Len(file') :
           \/ file'[n] \in {Garbage, putting}
           \/ \E m \in 1..Len(file) : file'[n] = file[m]
  <2>1. CASE UNCHANGED file
    BY <1>1, <2>1
  <2>2. ASSUME NEW line \in {putting, Garbage}, NEW whole \in BOOLEAN, Extended(line, whole)
        PROVE  <1>3!1 /\ <1>3!2
    BY <1>1, <2>2, ExtendedKeeps
  <2> QED
    BY <2>1, <2>2
<1>4. StoreTyped'
  BY <1>2, <1>3 DEF StoreTyped, StoreInv
<1>5. Documents => \A n \in 1..Len(memory') : HasRaw(memory'[n].item[1])
  BY <1>2 DEF StoreInv, RawKept
<1>6. Documents => \A n \in 1..Len(file') : file'[n] # Garbage => HasRaw(file'[n][1])
  BY <1>3 DEF StoreInv, RawKept
<1> QED
  BY <1>4, <1>5, <1>6, RawUntouched

\* A raw file that is not written, or in part, was there for nobody.
LEMMA RawCutKeeps ==
  ASSUME StoreInv, stage = "raw", stage' = "ready" \/ stage' = "down", LeavesOfRaw,
         UNCHANGED <<kind, file>>, memory' = memory \/ memory' = <<>>
  PROVE  StoreInv'
<1>1. /\ Documents /\ raw[putting[1]] = None /\ putting[1] \in Keys
      /\ raw \in [Keys -> {None, "part", "whole"}] /\ RawKept
  BY DEF StoreInv, StoreTyped, Items
<1>2. PICK left \in {None, "part"} :
        /\ raw' = [raw EXCEPT ![putting[1]] = left]
        /\ cut' = IF left = "part" THEN cut \cup {putting[1]} ELSE cut
  BY DEF LeavesOfRaw
<1>3. \A k : raw[k] # None => raw'[k] # None
  BY <1>1, <1>2
<1>4. \A k \in Keys : raw'[k] = "part" => k \in cut'
  BY <1>1, <1>2, StoresAssumption DEF RawKept
<1>5. raw' \in [Keys -> {None, "part", "whole"}]
  BY <1>1, <1>2
<1>6. StoreTyped'
  <2>1. memory' \in Seq(Entries) /\ file' \in Seq(Items \cup {Garbage})
    <3>1. memory \in Seq(Entries) /\ file \in Seq(Items \cup {Garbage})
      BY DEF StoreInv, StoreTyped
    <3>2. <<>> \in Seq(Entries)
      OBVIOUS
    <3>3. memory' \in Seq(Entries)
      BY <3>1, <3>2, Zenon
    <3> QED
      BY <3>1, <3>3, Zenon
  <2>2. stage' \notin {"raw", "line"}
    OBVIOUS
  <2> QED
    BY <1>5, <2>1, <2>2 DEF StoreTyped
<1>7. RawKept'
  BY <1>1, <1>3, <1>4 DEF RawKept, HasRaw
<1> QED
  BY <1>1, <1>6, <1>7 DEF StoreInv, Documents

LEMMA LoadKeeps ==
  ASSUME StoreInv, Load
  PROVE  StoreInv'
<1>1. /\ Loads /\ stage' = "ready" /\ UNCHANGED <<kind, file, raw, cut>>
      /\ memory' = [n \in 1..Len(file) |-> [item |-> file[n], line |-> "written"]]
  BY DEF Load
<1>2. file \in Seq(Items \cup {Garbage})
  BY DEF StoreInv, StoreTyped
<1>3. \A n \in 1..Len(file) : file[n] \in Items /\ file[n] # Garbage
  BY <1>1, <1>2 DEF Loads, Parses
<1>4. \A n \in 1..Len(file) : [item |-> file[n], line |-> "written"] \in Entries
  BY <1>3 DEF Entries, Lines
<1>5. /\ memory' \in Seq(Entries) /\ Len(memory') = Len(file)
      /\ \A n \in 1..Len(file) : memory'[n].item = file[n]
  BY <1>1, <1>2, <1>4
<1>6. StoreTyped'
  BY <1>1, <1>5 DEF StoreInv, StoreTyped
<1>7. Documents => \A n \in 1..Len(file) : HasRaw(file[n][1])
  BY <1>3 DEF StoreInv, RawKept
<1>8. Documents => \A n \in 1..Len(memory') : HasRaw(memory'[n].item[1])
  BY <1>5, <1>7
<1> QED
  BY <1>1, <1>6, <1>7, <1>8, RawUntouched

LEMMA StoreGoesOn ==
  ASSUME StoreInv, [StoresNext]_store
  PROVE  StoreInv'
<1>1. CASE \E x \in Items : Put(x)
  BY <1>1, PutKeeps
<1>2. CASE RawWritten
  BY <1>2, RawWrittenKeeps
<1>3. CASE LineWritten
  <2>1. /\ stage = "line" /\ stage' = "ready" /\ UNCHANGED <<kind, raw, cut>>
        /\ UNCHANGED file \/ Extended(putting, TRUE)
        /\ Marked("written") \/ Marked("no file")
    BY <1>3 DEF LineWritten
  <2> QED
    BY <2>1, LineKeeps DEF Lines
<1>4. CASE WriteRaises
  <2>1. CASE stage = "raw"
    BY <1>4, <2>1, RawCutKeeps DEF WriteRaises
  <2>2. CASE stage = "line"
    <3>1. /\ stage' = "ready" /\ UNCHANGED <<kind, raw, cut>> /\ LeavesOfLine
          /\ Marked("failed") \/ Marked("written")
      BY <1>4, <2>2 DEF WriteRaises
    <3> QED
      BY <3>1, <2>2, LineKeeps DEF LeavesOfLine, Lines
  <2> QED
    BY <1>4, <2>1, <2>2 DEF WriteRaises
<1>5. CASE Dies
  <2>1. CASE stage = "raw"
    BY <1>5, <2>1, RawCutKeeps DEF Dies
  <2>2. CASE stage = "line"
    BY <1>5, <2>2, LineKeeps DEF Dies, LeavesOfLine
  <2> QED
    BY <1>5, <2>1, <2>2 DEF Dies
<1>6. CASE Stops
  <2>1. stage' = "down" /\ memory' = <<>> /\ UNCHANGED <<kind, file, raw, cut>>
    BY <1>6 DEF Stops
  <2>2. StoreTyped'
    BY <2>1 DEF StoreInv, StoreTyped
  <2> QED
    BY <2>1, <2>2, RawUntouched DEF StoreInv, RawKept
<1>7. CASE Load
  BY <1>7, LoadKeeps
<1>8. CASE UNCHANGED store
  <2>1. UNCHANGED <<kind, memory, file, raw, putting, stage, cut>>
    BY <1>8 DEF store
  <2>2. StoreTyped'
    BY <2>1 DEF StoreInv, StoreTyped
  <2> QED
    BY <2>1, <2>2 DEF StoreInv, RawKept, HasRaw, Documents
<1> QED
  BY <1>1, <1>2, <1>3, <1>4, <1>5, <1>6, <1>7, <1>8 DEF StoresNext

\* RawDocumentStore: a document the dicts or the index name has its raw file, and the
\* whole of it unless that write was cut, whatever raised or died on the way and
\* however often the store was loaded again.
THEOREM IndexedDocumentsHaveRaw == StoresSpec => []IndexedHasRaw
<1>1. StoresInit => StoreInv
  BY RawStart
<1>2. StoreInv /\ [StoresNext]_store => StoreInv'
  BY StoreGoesOn
<1>3. StoreInv => IndexedHasRaw
  <2> SUFFICES ASSUME StoreInv, Documents, NEW k \in Keys,
                      Known(k) \/ (\E n \in 1..Len(file) : file[n] # Garbage /\ file[n][1] = k)
               PROVE  raw[k] # None /\ (k \notin cut => raw[k] = "whole")
    BY DEF IndexedHasRaw
  <2>1. HasRaw(k)
    BY DEF Known, StoreInv, RawKept
  <2> QED
    BY <2>1 DEF HasRaw, StoreInv, StoreTyped, RawKept
<1> QED
  BY <1>1, <1>2, <1>3, PTL DEF StoresSpec

-----------------------------------------------------------------------------
(* What a file holds.  The items of the lines written are those of all      *)
(* lines but the last, and the last if it was written.                     *)

\* kept is the loop of Written.
IsWritten(kept, lines) ==
  /\ kept \in [0..Len(lines) -> Seq(Items)]
  /\ kept[0] = <<>>
  /\ \A n \in 1..Len(lines) :
       kept[n] = IF lines[n].line = "written" THEN Append(kept[n - 1], lines[n].item)
                 ELSE kept[n - 1]

LEMMA WrittenLoop ==
  ASSUME NEW lines \in Seq(Entries)
  PROVE  \E kept : IsWritten(kept, lines) /\ Written(lines) = kept[Len(lines)]
<1> DEFINE Takes(out, n) ==
      IF lines[n].line = "written" THEN Append(out, lines[n].item) ELSE out
<1> DEFINE Body(f) == [n \in 0..Len(lines) |-> IF n = 0 THEN <<>> ELSE Takes(f[n - 1], n)]
<1> DEFINE h == [p \in Seq(Items) \X (1..Len(lines)) |-> Takes(p[1], p[2])]
<1>1. Len(lines) \in Nat /\ \A n \in 1..Len(lines) : lines[n].item \in Items
  <2>1. \A n \in 1..Len(lines) : lines[n] \in Entries
    OBVIOUS
  <2> QED BY <2>1 DEF Entries
<1>2. \A out \in Seq(Items) : \A n \in 1..Len(lines) : Takes(out, n) \in Seq(Items)
  BY <1>1
<1>3. h \in [Seq(Items) \X (1..Len(lines)) -> Seq(Items)]
  BY <1>2
<1>4. PICK f \in [0..Len(lines) -> Seq(Items)] : IsLoop(f, Len(lines), <<>>, h)
  <2>1. <<>> \in Seq(Items)
    OBVIOUS
  <2> HIDE DEF h
  <2> QED BY <1>1, <1>3, <2>1, LoopExists
<1>5. f = Body(f)
  <2>1. ASSUME NEW n \in 0..Len(lines) PROVE f[n] = Body(f)[n]
    <3>1. CASE n = 0
      BY <1>4, <3>1 DEF IsLoop
    <3>2. CASE n # 0
      <4>1. n \in 1..Len(lines) /\ n - 1 \in 0..Len(lines)
        BY <1>1, <3>2
      <4>2. f[n] = h[<<f[n - 1], n>>] /\ f[n - 1] \in Seq(Items)
        BY <1>4, <4>1 DEF IsLoop
      <4>3. h[<<f[n - 1], n>>] = Takes(f[n - 1], n)
        BY <4>1, <4>2
      <4> QED BY <3>2, <4>2, <4>3
    <3> QED BY <3>1, <3>2
  <2> QED BY <1>4, <2>1
<1> DEFINE kept == CHOOSE g : g = Body(g)
<1>6. kept = Body(kept)
  BY <1>5
<1>7. Written(lines) = kept[Len(lines)]
  BY DEF Written
<1>8. kept = f
  <2> HIDE DEF kept
  <2>1. DOMAIN kept = 0..Len(lines) /\ kept[0] = f[0]
    BY <1>1, <1>5, <1>6
  <2>2. ASSUME NEW n \in 1..Len(lines), kept[n - 1] = f[n - 1] PROVE kept[n] = f[n]
    <3>1. n \in 0..Len(lines) /\ n # 0
      BY <1>1
    <3>2. f[n] = Takes(f[n - 1], n) /\ kept[n] = Takes(kept[n - 1], n)
      <4> HIDE DEF Takes
      <4> QED BY <1>5, <1>6, <3>1
    <3> QED BY <2>2, <3>2
  <2>3. \A n \in 0..Len(lines) : kept[n] = f[n]
    <3>1. kept[0] = f[0] /\ \A n \in 1..Len(lines) : kept[n - 1] = f[n - 1] => kept[n] = f[n]
      BY <2>1, <2>2
    <3>2. Len(lines) \in Nat
      BY <1>1
    <3> QED BY <3>1, <3>2, LoopsAgree, ZenonT(60)
  <2> QED BY <1>4, <1>6, <2>1, <2>3
<1>9. IsWritten(f, lines)
  <2>1. f[0] = <<>>
    BY <1>4 DEF IsLoop
  <2>2. ASSUME NEW n \in 1..Len(lines) PROVE f[n] = Takes(f[n - 1], n)
    <3>1. n \in 0..Len(lines) /\ n # 0
      BY <1>1
    <3> HIDE DEF Takes
    <3> QED BY <1>5, <3>1
  <2> QED BY <1>4, <2>1, <2>2 DEF IsWritten
<1> QED BY <1>7, <1>8, <1>9

LEMMA WrittenNothing == Written(<<>>) = <<>>
<1>1. <<>> \in Seq(Entries) /\ Len(<<>>) = 0
  OBVIOUS
<1>2. PICK kept : IsWritten(kept, <<>>) /\ Written(<<>>) = kept[Len(<<>>)]
  BY <1>1, WrittenLoop, Zenon
<1> QED BY <1>1, <1>2 DEF IsWritten

LEMMA WrittenItems == ASSUME NEW lines \in Seq(Entries) PROVE Written(lines) \in Seq(Items)
<1>1. PICK kept : IsWritten(kept, lines) /\ Written(lines) = kept[Len(lines)]
  BY WrittenLoop
<1> QED BY <1>1 DEF IsWritten

LEMMA WrittenStep ==
  ASSUME NEW s \in Seq(Entries), NEW t \in Seq(Entries), Len(t) = Len(s) + 1,
         \A n \in 1..Len(s) : t[n] = s[n]
  PROVE  Written(t) = IF t[Len(t)].line = "written" THEN Append(Written(s), t[Len(t)].item)
                      ELSE Written(s)
<1>1. PICK f : IsWritten(f, s) /\ Written(s) = f[Len(s)]
  BY WrittenLoop
<1>2. PICK g : IsWritten(g, t) /\ Written(t) = g[Len(t)]
  BY WrittenLoop
<1>3. \A n \in 0..Len(s) : f[n] = g[n]
  <2>1. \A n \in 1..Len(s) : f[n - 1] = g[n - 1] => f[n] = g[n]
    <3> SUFFICES ASSUME NEW n \in 1..Len(s), f[n - 1] = g[n - 1] PROVE f[n] = g[n]
      OBVIOUS
    <3>1. n \in 1..Len(t) /\ t[n] = s[n]
      OBVIOUS
    <3>2. f[n] = IF s[n].line = "written" THEN Append(f[n - 1], s[n].item) ELSE f[n - 1]
      BY <1>1 DEF IsWritten
    <3>3. g[n] = IF t[n].line = "written" THEN Append(g[n - 1], t[n].item) ELSE g[n - 1]
      BY <1>2, <3>1 DEF IsWritten
    <3> QED BY <3>1, <3>2, <3>3
  <2>2. f[0] = g[0]
    BY <1>1, <1>2 DEF IsWritten
  <2>3. Len(s) \in Nat
    OBVIOUS
  <2> QED BY ONLY <2>1, <2>2, <2>3, LoopsAgree, ZenonT(60)
<1>4. Len(t) \in 1..Len(t) /\ Len(t) - 1 = Len(s) /\ Len(s) \in 0..Len(s)
  OBVIOUS
<1> QED BY <1>1, <1>2, <1>3, <1>4 DEF IsWritten

LEMMA WrittenAll ==
  ASSUME NEW lines \in Seq(Entries), \A n \in 1..Len(lines) : lines[n].line = "written"
  PROVE  Written(lines) = [n \in 1..Len(lines) |-> lines[n].item]
<1> DEFINE Items1(n) == [k \in 1..n |-> lines[k].item]
<1> DEFINE g == [n \in 0..Len(lines) |-> Items1(n)]
<1>1. PICK f : IsWritten(f, lines) /\ Written(lines) = f[Len(lines)]
  BY WrittenLoop
<1>2. Len(lines) \in Nat
  OBVIOUS
<1>3. f[0] = g[0]
  BY <1>1, <1>2 DEF IsWritten
<1>4. ASSUME NEW n \in 1..Len(lines), f[n - 1] = g[n - 1] PROVE f[n] = g[n]
  <2>1. f[n] = Append(Items1(n - 1), lines[n].item)
    <3>1. f[n] = Append(f[n - 1], lines[n].item)
      BY <1>1 DEF IsWritten
    <3>2. g[n - 1] = Items1(n - 1)
      BY <1>2
    <3> QED BY <1>4, <3>1, <3>2
  <2>2. Append(Items1(n - 1), lines[n].item) = Items1(n)
    OBVIOUS
  <2> QED BY <2>1, <2>2
<1>5. \A n \in 0..Len(lines) : f[n] = g[n]
  <2> HIDE DEF g
  <2> QED BY <1>2, <1>3, <1>4, LoopsAgree
<1> QED BY <1>1, <1>2, <1>5

-----------------------------------------------------------------------------
(* A reload.  As long as the file loads, it is what was written of memory; *)
(* the item that is being put is the last of memory, and not written yet.  *)
(* A file that does not load never does again.                             *)

FileInv ==
  /\ stage # "down" /\ Loads => Kept = file
  /\ stage = "line" => /\ memory # <<>> /\ memory[Len(memory)].line = "none"
                       /\ memory[Len(memory)].item = putting
  /\ hasPath \/ kind = "features"
  /\ \A n \in 1..Len(memory) : memory[n].line = "no file" => kind = "features"

\* Only the last line of memory is marked.
LEMMA MarkedWritten ==
  ASSUME memory \in Seq(Entries), memory # <<>>, memory[Len(memory)].line = "none",
         NEW what \in Lines \ {"none"}, Marked(what)
  PROVE  /\ what = "written" => Kept' = Append(Kept, memory[Len(memory)].item)
         /\ what # "written" => Kept' = Kept
         /\ \A n \in 1..Len(memory') : memory'[n].line = "no file" =>
              what = "no file" \/ (n \in 1..Len(memory) /\ memory[n].line = "no file")
<1> DEFINE N == Len(memory)
           before == [n \in 1..(N - 1) |-> memory[n]]
<1>1. N \in Nat \ {0} /\ \A n \in 1..N : memory[n] \in Entries
  OBVIOUS
<1>2. /\ before \in Seq(Entries) /\ Len(before) = N - 1
      /\ \A n \in 1..Len(before) : before[n] = memory[n]
  BY <1>1
<1>3. /\ memory' \in Seq(Entries) /\ Len(memory') = N
      /\ \A n \in 1..N : memory'[n].item = memory[n].item
  BY MarkedKeeps
<1>4. \A n \in 1..N :
        memory'[n] = IF n = N THEN [memory[n] EXCEPT !.line = what] ELSE memory[n]
  BY DEF Marked
<1>5. memory'[N].line = what /\ memory'[N].item = memory[N].item
  <2>1. N \in 1..N /\ memory[N] \in Entries
    BY <1>1
  <2>2. memory'[N] = [memory[N] EXCEPT !.line = what]
    BY <1>4, <2>1
  <2> HIDE DEF N
  <2> QED BY <2>1, <2>2 DEF Entries
<1>6. Kept = Written(before)
  <2> HIDE DEF before
  <2>1. Written(memory) = Written(before)
    BY <1>1, <1>2, WrittenStep
  <2> QED BY <2>1 DEF Kept
<1>7. Kept' = IF what = "written" THEN Append(Kept, memory[N].item) ELSE Kept
  <2>1. \A n \in 1..Len(before) : memory'[n] = before[n]
    <3>1. ASSUME NEW n \in 1..(N - 1) PROVE n \in 1..N /\ n # N
      BY <1>1
    <3> HIDE DEF N, before
    <3>2. \A n \in 1..(N - 1) : memory'[n] = memory[n]
      BY <1>4, <3>1
    <3> QED BY <1>2, <3>2
  <2> HIDE DEF before
  <2>2. Written(memory') = IF what = "written" THEN Append(Written(before), memory[N].item)
                           ELSE Written(before)
    BY <1>1, <1>2, <1>3, <1>5, <2>1, WrittenStep
  <2> QED BY <1>6, <2>2 DEF Kept
<1>8. \A n \in 1..N : memory'[n].line = IF n = N THEN what ELSE memory[n].line
  BY <1>1, <1>4, <1>5
<1> QED BY <1>3, <1>7, <1>8

\* A line appended to a file with its end is the next line; to one without, garbage.
LEMMA ExtendedLoads ==
  ASSUME file \in Seq(Items \cup {Garbage}), NEW line \in Items \cup {Garbage}, NEW whole,
         Extended(line, whole), UNCHANGED kind, Loads'
  PROVE  Loads /\ line # Garbage /\ file' = Append(file, line) /\ file' # file
<1>1. file' \in Seq(Items \cup {Garbage}) /\ \A n \in 1..Len(file') : file'[n] # Garbage
  <2>1. file' \in Seq(Items \cup {Garbage})
    BY ExtendedKeeps
  <2> QED BY <2>1 DEF Loads, Parses
<1>2. CASE ended
  <2>1. file' = Append(file, line)
    BY <1>2 DEF Extended
  <2>2. /\ Len(file') = Len(file) + 1 /\ Len(file) \in Nat /\ file'[Len(file) + 1] = line
        /\ \A n \in 1..Len(file) : file'[n] = file[n]
    BY <2>1
  <2>3. line # Garbage /\ \A n \in 1..Len(file) : file[n] # Garbage
    BY <1>1, <2>2
  <2>4. file' # file
    BY <2>2
  <2> QED BY <2>1, <2>3, <2>4 DEF Loads, Parses
<1>3. CASE ~ended
  <2>1. PICK f : f = Front(file)
    OBVIOUS
  <2>2. f \in Seq(Items \cup {Garbage})
    BY <2>1 DEF Front
  <2>3. file' = f \o <<Garbage>>
    BY <1>3, <2>1 DEF Extended
  <2>4. file'[Len(f) + 1] = Garbage /\ Len(f) + 1 \in 1..Len(file')
    BY <2>2, <2>3
  <2> QED BY <1>1, <2>4
<1> QED BY <1>2, <1>3

LEMMA FileStart == ASSUME StoresInit PROVE FileInv
<1>1. memory = <<>> /\ file = <<>> /\ stage = "ready" /\ hasPath
  BY DEF StoresInit
<1>2. Kept = file
  BY <1>1, WrittenNothing DEF Kept
<1> QED BY <1>1, <1>2 DEF FileInv

\* A step that adds an item to memory and begins its line.
LEMMA RememberedIsNotKept ==
  ASSUME StoreInv, FileInv, NEW x \in Items, Remember(x), stage # "down",
         UNCHANGED <<kind, hasPath, file>>, stage' = "line", putting' = x
  PROVE  FileInv'
<1> DEFINE e == [item |-> x, line |-> "none"]
<1>1. /\ memory' = Append(memory, e) /\ e \in Entries /\ e.line = "none" /\ e.item = x
      /\ Len(memory) \in Nat /\ memory \in Seq(Entries)
  <2>1. memory' = Append(memory, e)
    BY DEF Remember
  <2>2. e \in Entries
    BY DEF Entries, Lines
  <2>3. memory \in Seq(Entries)
    BY DEF StoreInv, StoreTyped
  <2> QED BY <2>1, <2>2, <2>3
<1>2. /\ memory' \in Seq(Entries) /\ Len(memory') = Len(memory) + 1 /\ memory' # <<>>
      /\ \A n \in 1..Len(memory) : memory'[n] = memory[n]
      /\ memory'[Len(memory')] = e
  <2> HIDE DEF e
  <2> QED BY <1>1
<1> HIDE DEF e
<1>3. Kept' = Kept
  <2>1. Written(memory') = Written(memory)
    BY <1>1, <1>2, WrittenStep
  <2> QED BY <2>1 DEF Kept
<1>4. Loads' = Loads
  BY DEF Loads, Parses
<1>5. \A n \in 1..Len(memory') : memory'[n].line = "no file" => kind' = "features"
  <2> SUFFICES ASSUME NEW n \in 1..Len(memory'), memory'[n].line = "no file"
               PROVE  kind' = "features"
    OBVIOUS
  <2>1. n # Len(memory')
    BY <1>1, <1>2
  <2>2. n \in 1..Len(memory)
    <3>1. Len(memory') = Len(memory) + 1 /\ Len(memory) \in Nat
      BY <1>1, <1>2
    <3>2. n \in 1..(Len(memory) + 1) /\ n # Len(memory) + 1
      BY <2>1, <3>1, Zenon
    <3> QED BY ONLY <3>1, <3>2
  <2>3. memory[n].line = "no file"
    <3>1. memory'[n] = memory[n]
      BY <1>2, <2>2
    <3> QED BY <3>1
  <2> QED BY <2>2, <2>3 DEF FileInv
<1>6. memory'[Len(memory')].line = "none" /\ memory'[Len(memory')].item = putting'
  BY <1>1, <1>2
<1> QED BY <1>2, <1>3, <1>4, <1>5, <1>6 DEF FileInv

\* A step that ends a put with its line in the file, and marked so.
LEMMA LineEnds ==
  ASSUME StoreInv, FileInv, stage = "line", stage' = "ready", UNCHANGED <<kind, hasPath>>,
         Marked("written"), NEW line \in {putting, Garbage}, NEW whole, Extended(line, whole)
  PROVE  FileInv'
<1>1. /\ memory \in Seq(Entries) /\ file \in Seq(Items \cup {Garbage}) /\ putting \in Items
      /\ memory # <<>> /\ memory[Len(memory)].line = "none"
      /\ memory[Len(memory)].item = putting
  BY DEF StoreInv, StoreTyped, FileInv
<1>2. /\ Kept' = Append(Kept, putting)
      /\ \A n \in 1..Len(memory') : memory'[n].line = "no file" =>
           n \in 1..Len(memory) /\ memory[n].line = "no file"
  <2>1. "written" \in Lines \ {"none"} /\ "written" # "no file"
    BY DEF Lines
  <2>2. /\ Kept' = Append(Kept, memory[Len(memory)].item)
        /\ \A n \in 1..Len(memory') : memory'[n].line = "no file" =>
             n \in 1..Len(memory) /\ memory[n].line = "no file"
    BY <1>1, <2>1, MarkedWritten
  <2> QED BY <1>1, <2>2
<1>3. ASSUME Loads' PROVE Kept' = file'
  <2>1. Loads /\ line # Garbage /\ file' = Append(file, line)
    BY <1>1, <1>3, ExtendedLoads
  <2> QED BY <1>2, <2>1 DEF FileInv
<1> QED BY <1>2, <1>3 DEF FileInv

\* A step that ends a put without a line in the file.
LEMMA NoLineEnds ==
  ASSUME StoreInv, FileInv, stage = "line", stage' = "ready", UNCHANGED <<kind, hasPath, file>>,
         NEW what \in {"failed", "no file"}, Marked(what), what = "no file" => ~hasPath
  PROVE  FileInv'
<1>1. /\ memory \in Seq(Entries)
      /\ memory # <<>> /\ memory[Len(memory)].line = "none"
  BY DEF StoreInv, StoreTyped, FileInv
<1>2. /\ Kept' = Kept
      /\ \A n \in 1..Len(memory') : memory'[n].line = "no file" =>
           what = "no file" \/ (n \in 1..Len(memory) /\ memory[n].line = "no file")
  BY <1>1, MarkedWritten DEF Lines
<1>3. Loads' = Loads
  BY DEF Loads, Parses
<1> QED BY <1>2, <1>3 DEF FileInv

\* What was loaded is what the file holds, all of it written.
LEMMA LoadIsKept ==
  ASSUME StoreInv, FileInv, Load
  PROVE  FileInv'
<1>1. /\ Loads /\ stage' = "ready" /\ UNCHANGED <<kind, file>> /\ hasPath' = (kind # "features")
      /\ memory' = [n \in 1..Len(file) |-> [item |-> file[n], line |-> "written"]]
      /\ file \in Seq(Items \cup {Garbage})
  BY DEF Load, StoreInv, StoreTyped
<1>2. \A n \in 1..Len(file) : file[n] \in Items
  BY <1>1 DEF Loads, Parses
<1>3. \A n \in 1..Len(file) : [item |-> file[n], line |-> "written"] \in Entries
  BY <1>2 DEF Entries, Lines
<1>4. /\ memory' \in Seq(Entries) /\ Len(memory') = Len(file)
      /\ \A n \in 1..Len(file) : memory'[n].item = file[n] /\ memory'[n].line = "written"
  BY <1>1, <1>3
<1>5. Written(memory') = [n \in 1..Len(memory') |-> memory'[n].item]
  BY <1>4, WrittenAll
<1>6. Kept' = file
  <2>1. [n \in 1..Len(memory') |-> memory'[n].item] = file
    BY <1>1, <1>4
  <2> QED BY <1>5, <2>1 DEF Kept
<1> QED BY <1>1, <1>4, <1>6 DEF FileInv

LEMMA FileGoesOn ==
  ASSUME StoreInv, FileInv, [StoresNext]_store
  PROVE  FileInv'
<1>1. ASSUME NEW x \in Items, Put(x) PROVE FileInv'
  <2>1. stage = "ready" /\ UNCHANGED <<kind, hasPath, file>> /\ Begins(x) /\ putting' = x
    BY <1>1 DEF Put, Begins
  <2>2. CASE stage' = "raw"
    <3>1. UNCHANGED memory
      BY <2>1, <2>2 DEF Begins
    <3> QED BY <2>1, <2>2, <3>1 DEF FileInv, Kept, Loads, Parses
  <2>3. CASE stage' = "line" /\ Remember(x)
    BY <2>1, <2>3, RememberedIsNotKept
  <2> QED BY <2>1, <2>2, <2>3 DEF Begins
<1>2. CASE RawWritten
  <2>1. /\ stage = "raw" /\ stage' = "line" /\ Remember(putting) /\ putting \in Items
        /\ UNCHANGED <<kind, hasPath, file, putting>>
    BY <1>2 DEF RawWritten, StoreInv, StoreTyped
  <2> QED BY <2>1, RememberedIsNotKept
<1>3. CASE LineWritten
  <2>1. stage = "line" /\ stage' = "ready" /\ UNCHANGED <<kind, hasPath>>
    BY <1>3 DEF LineWritten
  <2>2. CASE hasPath
    <3>1. Extended(putting, TRUE) /\ Marked("written")
      BY <1>3, <2>2 DEF LineWritten
    <3> QED BY <2>1, <3>1, LineEnds
  <2>3. CASE ~hasPath
    <3>1. UNCHANGED file /\ Marked("no file")
      BY <1>3, <2>3 DEF LineWritten
    <3> QED BY <2>1, <2>3, <3>1, NoLineEnds
  <2> QED BY <2>2, <2>3
<1>4. CASE WriteRaises
  <2>1. stage' = "ready" /\ UNCHANGED <<kind, hasPath>>
    BY <1>4 DEF WriteRaises
  <2>2. CASE stage = "raw"
    <3>1. UNCHANGED <<memory, file>>
      BY <1>4, <2>2 DEF WriteRaises
    <3> QED BY <2>1, <2>2, <3>1 DEF FileInv, Kept, Loads, Parses
  <2>3. CASE stage = "line" /\ file' = file
    <3>1. Marked("failed")
      BY <1>4, <2>3 DEF WriteRaises
    <3> QED BY <2>1, <2>3, <3>1, NoLineEnds
  <2>4. CASE stage = "line" /\ file' # file
    <3>1. Marked("written") /\ LeavesOfLine
      BY <1>4, <2>4 DEF WriteRaises
    <3>2. \E line \in {putting, Garbage} : Extended(line, FALSE)
      BY <2>4, <3>1 DEF LeavesOfLine
    <3> QED BY <2>1, <2>4, <3>1, <3>2, LineEnds
  <2> QED BY <1>4, <2>2, <2>3, <2>4 DEF WriteRaises
<1>5. CASE Dies \/ Stops
  <2>1. stage' = "down" /\ memory' = <<>> /\ UNCHANGED <<kind, hasPath>>
    BY <1>5 DEF Dies, Stops
  <2>2. \A n \in 1..Len(memory') : FALSE
    BY <2>1
  <2> QED BY <2>1, <2>2 DEF FileInv
<1>6. CASE Load
  BY <1>6, LoadIsKept
<1>7. CASE UNCHANGED store
  BY <1>7 DEF store, FileInv, Kept, Loads, Parses
<1> QED BY <1>1, <1>2, <1>3, <1>4, <1>5, <1>6, <1>7 DEF StoresNext

\* The JSON-lines stores: while the file of a store loads, a load tells what the
\* store that runs tells, whatever writes raised or were cut short before, but for
\* the appends that raised before their first byte and for what a feature store got
\* after it was itself loaded (feature_store.py load keeps no path).
THEOREM ReloadsAreFaithful == StoresSpec => []ReloadIsFaithful
<1>1. StoresInit => StoreInv /\ FileInv
  BY RawStart, FileStart
<1>2. StoreInv /\ FileInv /\ [StoresNext]_store => (StoreInv /\ FileInv)'
  BY StoreGoesOn, FileGoesOn
<1>3. FileInv => ReloadIsFaithful
  BY DEF FileInv, ReloadIsFaithful
<1> QED BY <1>1, <1>2, <1>3, PTL DEF StoresSpec

-----------------------------------------------------------------------------
(* The alert engine.  e is an engine: its keys are those of what its audit *)
(* says was delivered.                                                     *)

DeliveredBefore(audit, n, key) ==
  \E k \in 1..n : audit[k].action = "delivered" /\ audit[k].alert.key = key

EngineTyped(e) ==
  /\ \E T : e.audit \in Seq(T)
  /\ \E T : e.delivered \in Seq(T)
  /\ \A key : key \in e.keys <=> DeliveredBefore(e.audit, Len(e.audit), key)

Entry(e, n) ==
  LET x == e.audit[n]
  IN /\ (x.action = "deduped") <=> DeliveredBefore(e.audit, n - 1, x.alert.key)
     /\ x.action = "quiet" => x.alert.severity # "CRITICAL" /\ IsQuiet(Quiet, x.at)
     /\ x.action = "delivered" => x.alert \in Range(e.delivered)

AllAudited(e) ==
  \A k \in 1..Len(e.delivered) : \E n \in 1..Len(e.audit) :
    e.audit[n].action = "delivered" /\ e.audit[n].alert = e.delivered[k]

EngineInv(e) == EngineTyped(e) /\ (\A n \in 1..Len(e.audit) : Entry(e, n)) /\ AllAudited(e)

LEMMA EmittedKeeps ==
  ASSUME NEW e, EngineInv(e), NEW a, NEW h
  PROVE  EngineInv(Emitted(e, a, Quiet, h))
<1>1. PICK action : action = ActionOn(e, a, Quiet, h)
  OBVIOUS
<1>2. PICK x : x = [alert |-> a, action |-> action, at |-> h]
  OBVIOUS
<1>3. PICK d : d = IF action = "delivered" THEN Append(e.delivered, a) ELSE e.delivered
  OBVIOUS
<1>4. PICK keys : keys = IF action = "delivered" THEN e.keys \cup {a.key} ELSE e.keys
  OBVIOUS
<1>5. PICK f : f = Emitted(e, a, Quiet, h)
  OBVIOUS
<1>6. f.keys = keys /\ f.delivered = d /\ f.audit = Append(e.audit, x)
  BY <1>1, <1>2, <1>3, <1>4, <1>5 DEF Emitted
<1>7. x.alert = a /\ x.action = action /\ x.at = h
  BY <1>2
<1>8. PICK T, U : e.audit \in Seq(T) /\ e.delivered \in Seq(U)
  BY DEF EngineInv, EngineTyped
<1>9. PICK s : s = f.audit
  OBVIOUS
<1>10. /\ Len(e.audit) \in Nat /\ Len(s) = Len(e.audit) + 1
       /\ \A n \in 1..Len(e.audit) : s[n] = e.audit[n]
       /\ s[Len(s)] = x /\ s \in Seq(T \cup {x})
  BY <1>6, <1>8, <1>9
<1>11. /\ Len(e.delivered) \in Nat /\ d \in Seq(U \cup {a})
       /\ \A k \in 1..Len(e.delivered) : k \in 1..Len(d) /\ d[k] = e.delivered[k]
       /\ \A k \in 1..Len(d) : k \in 1..Len(e.delivered) \/ (action = "delivered" /\ d[k] = a)
       /\ action = "delivered" => Len(d) \in 1..Len(d) /\ d[Len(d)] = a
  <2>1. CASE action = "delivered"
    BY <2>1, <1>3, <1>8
  <2>2. CASE action # "delivered"
    BY <2>2, <1>3, <1>8
  <2> QED
    BY <2>1, <2>2
<1>12. \A n \in 0..Len(e.audit) : \A key :
         DeliveredBefore(s, n, key) <=> DeliveredBefore(e.audit, n, key)
  BY <1>10 DEF DeliveredBefore
<1>13. \A key : DeliveredBefore(s, Len(s), key)
                 <=> DeliveredBefore(e.audit, Len(e.audit), key)
                     \/ (action = "delivered" /\ a.key = key)
  <2>1. \A k \in 1..Len(s) : k \in 1..Len(e.audit) \/ k = Len(s)
    BY <1>10
  <2>2. Len(s) \in 1..Len(s) /\ \A k \in 1..Len(e.audit) : k \in 1..Len(s)
    BY <1>10
  <2> QED
    BY <2>1, <2>2, <1>7, <1>10 DEF DeliveredBefore
<1>14. \A key : key \in keys <=> DeliveredBefore(s, Len(s), key)
  BY <1>4, <1>13 DEF EngineInv, EngineTyped
<1>15. EngineTyped(f)
  <2>1. (\E V : f.audit \in Seq(V)) /\ (\E V : f.delivered \in Seq(V))
    BY <1>6, <1>9, <1>10, <1>11
  <2> QED
    BY <2>1, <1>6, <1>9, <1>14 DEF EngineTyped
<1>16. Range(e.delivered) \subseteq Range(d) /\ (action = "delivered" => a \in Range(d))
  <2>1. DOMAIN e.delivered = 1..Len(e.delivered) /\ DOMAIN d = 1..Len(d)
    BY <1>8, <1>11
  <2> QED
    BY <2>1, <1>11 DEF Range
<1>17. ASSUME NEW n \in 1..Len(e.audit) PROVE Entry(f, n)
  <2>1. Entry(e, n) /\ n - 1 \in 0..Len(e.audit)
    BY <1>10 DEF EngineInv
  <2>2. f.audit[n] = e.audit[n]
    BY <1>9, <1>10
  <2> QED
    BY <2>1, <2>2, <1>6, <1>9, <1>12, <1>16 DEF Entry
<1>18. Entry(f, Len(s))
  <2>1. DeliveredBefore(s, Len(s) - 1, a.key) <=> a.key \in e.keys
    BY <1>10, <1>12 DEF EngineInv, EngineTyped
  <2>2. (action = "deduped") <=> a.key \in e.keys
    BY <1>1 DEF ActionOn
  <2>3. action = "quiet" => a.severity # "CRITICAL" /\ IsQuiet(Quiet, h)
    BY <1>1 DEF ActionOn
  <2>4. f.audit[Len(s)] = x
    BY <1>9, <1>10
  <2> QED
    BY <2>1, <2>2, <2>3, <2>4, <1>6, <1>7, <1>9, <1>16 DEF Entry
<1>19. AllAudited(f)
  <2> SUFFICES ASSUME NEW k \in 1..Len(d)
               PROVE  \E n \in 1..Len(s) : s[n].action = "delivered" /\ s[n].alert = d[k]
    BY <1>6, <1>9 DEF AllAudited
  <2>1. CASE k \in 1..Len(e.delivered)
    <3>1. PICK n \in 1..Len(e.audit) :
            e.audit[n].action = "delivered" /\ e.audit[n].alert = e.delivered[k]
      BY <2>1 DEF EngineInv, AllAudited
    <3>2. n \in 1..Len(s)
      BY <1>10
    <3> QED
      BY <3>1, <3>2, <2>1, <1>10, <1>11
  <2>2. CASE action = "delivered" /\ d[k] = a
    <3>1. Len(s) \in 1..Len(s)
      BY <1>10
    <3> QED
      BY <3>1, <2>2, <1>7, <1>10
  <2> QED
    BY <2>1, <2>2, <1>11
<1>20. \A n \in 1..Len(f.audit) : n \in 1..Len(e.audit) \/ n = Len(s)
  BY <1>9, <1>10
<1> QED
  BY <1>5, <1>15, <1>17, <1>18, <1>19, <1>20 DEF EngineInv

LEMMA NewEngineKeeps == EngineInv(NewEngine)
<1>1. NewEngine.keys = {} /\ NewEngine.delivered = <<>> /\ NewEngine.audit = <<>>
  BY DEF NewEngine
<1>2. (\E T : NewEngine.audit \in Seq(T)) /\ (\E T : NewEngine.delivered \in Seq(T))
  <2>1. <<>> \in Seq({})
    OBVIOUS
  <2> QED
    BY <1>1, <2>1
<1> QED
  BY <1>1, <1>2 DEF EngineInv, EngineTyped, AllAudited, DeliveredBefore

\* AlertEngine.emit: whatever alerts come at whatever hours, and however often the
\* engine starts again, an alert is deduped exactly when the same was delivered
\* before, is held back only in quiet hours and never if it is critical, and what was
\* delivered is what the audit says was.
THEOREM DedupingFollowsDelivery == AlertSpec => []DedupeFollowsDelivery
<1>1. AlertInit => EngineInv(engine)
  BY NewEngineKeeps DEF AlertInit
<1>2. EngineInv(engine) /\ [AlertNext]_alerting => EngineInv(engine)'
  <2> SUFFICES ASSUME EngineInv(engine), [AlertNext]_alerting PROVE EngineInv(engine')
    BY DEF EngineInv, EngineTyped, Entry, AllAudited
  <2>1. CASE \E a \in Alerts : Emit(a)
    <3>1. PICK a \in Alerts : engine' = Emitted(engine, a, Quiet, hour)
      BY <2>1 DEF Emit
    <3> QED
      BY <3>1, EmittedKeeps
  <2>2. CASE EngineRestarts
    BY <2>2, NewEngineKeeps DEF EngineRestarts
  <2>3. CASE HourPasses
    BY <2>3 DEF HourPasses
  <2>4. CASE UNCHANGED alerting
    BY <2>4 DEF alerting
  <2> QED
    BY <2>1, <2>2, <2>3, <2>4 DEF AlertNext
<1>3. EngineInv(engine) => DedupeFollowsDelivery
  BY DEF EngineInv, Entry, AllAudited, DeliveredBefore, DedupeFollowsDelivery
<1> QED
  BY <1>1, <1>2, <1>3, PTL DEF AlertSpec
=============================================================================
