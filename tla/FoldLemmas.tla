------------------------------ MODULE FoldLemmas ------------------------------
(***************************************************************************)
(* What the folds of the model compute.  A fold is a recursive function on *)
(* the subsets of a finite set (Folds.tla MapThenFoldSet): here it is      *)
(* shown that this function exists, for a step given as a function h on    *)
(* <<value so far, element>> and a choice m of the next element.  The      *)
(* proof modules apply this to the folds the modules use: the cash of the  *)
(* ledger, the equity curve, the items of a journal, adjustment factors.   *)
(*                                                                         *)
(* Induction is over sets: W stands for what the induction shows.          *)
(***************************************************************************)
EXTENDS Integers, Sequences, FiniteSets, FiniteSetsExt, FiniteSetTheorems, SequenceTheorems,
        WellFoundedInduction, TLAPS

LEMMA LeastOfNumbers ==
  ASSUME NEW S, S \subseteq Nat, S # {}
  PROVE  \E x \in S : \A y \in S : x <= y
<1>1. \E x \in S : \A y \in S : ~ (<<y, x>> \in OpToRel(<, Nat))
  BY NatLessThanWellFounded, WFMin
<1>2. ASSUME NEW x \in S, NEW y \in S, y < x
      PROVE  <<y, x>> \in OpToRel(<, Nat)
  <2>1. <<y, x>> \in Nat \X Nat
    OBVIOUS
  <2> QED BY <2>1, <1>2, Zenon DEF OpToRel
<1>3. PICK x \in S : \A y \in S : ~ (y < x)
  BY <1>1, <1>2
<1> QED BY <1>3

LEMMA GreatestOfNumbers ==
  ASSUME NEW N \in Nat, NEW S, S \subseteq 0..N, S # {}
  PROVE  Max(S) \in S /\ \A y \in S : y <= Max(S)
<1> DEFINE T == {N - y : y \in S}
<1>1. T \subseteq Nat /\ T # {}
  <2>1. \A y \in S : N - y \in Nat
    OBVIOUS
  <2> QED BY <2>1
<1>2. PICK x \in T : \A y \in T : x <= y
  <2> HIDE DEF T
  <2> QED BY <1>1, LeastOfNumbers
<1>3. PICK z \in S : x = N - z
  OBVIOUS
<1>4. ASSUME NEW y \in S PROVE y <= z
  <2>1. N - z <= N - y
    BY <1>2, <1>3
  <2>2. y \in Nat /\ z \in Nat
    OBVIOUS
  <2> QED BY <2>1, <2>2
<1>5. \E w \in S : \A y \in S : w >= y
  BY <1>4
<1>6. Max(S) \in S /\ \A y \in S : Max(S) >= y
  BY <1>5 DEF Max
<1> QED BY <1>6

\* A set of numbers that holds 0, and with every number the next one, holds all.
LEMMA Numbers ==
  ASSUME NEW W, 0 \in W, \A n \in Nat : n \in W => n + 1 \in W
  PROVE  \A n \in Nat : n \in W
<1> SUFFICES ASSUME NEW k \in Nat, k \notin W PROVE FALSE
  OBVIOUS
<1> DEFINE S == {n \in Nat : n \notin W}
<1>1. PICK x \in S : \A y \in S : x <= y
  BY LeastOfNumbers
<1>2. x # 0 /\ x - 1 \in Nat
  BY <1>1
<1>3. x - 1 \in W
  BY <1>1, <1>2
<1> QED BY <1>2, <1>3

\* A set of subsets of a finite set that holds T whenever it holds T without any one
\* of its elements, holds all.
LEMMA Subsets ==
  ASSUME NEW D, IsFiniteSet(D), NEW W,
         \A T \in SUBSET D : (\A x \in T : T \ {x} \in W) => T \in W
  PROVE  \A T \in SUBSET D : T \in W
<1> DEFINE Sizes == {n \in Nat : \A T \in SUBSET D : Cardinality(T) = n => T \in W}
<1>1. ASSUME NEW T \in SUBSET D PROVE IsFiniteSet(T) /\ Cardinality(T) \in Nat
  BY FS_Subset, FS_CardinalityType
<1>2. 0 \in Sizes
  <2>1. ASSUME NEW T \in SUBSET D, Cardinality(T) = 0 PROVE T \in W
    BY <1>1, <2>1, FS_EmptySet
  <2> QED BY <2>1
<1>3. ASSUME NEW n \in Nat, n \in Sizes PROVE n + 1 \in Sizes
  <2>1. ASSUME NEW T \in SUBSET D, Cardinality(T) = n + 1 PROVE T \in W
    <3>1. ASSUME NEW x \in T PROVE T \ {x} \in W
      <4>1. Cardinality(T \ {x}) = n
        BY <1>1, <2>1, FS_RemoveElement
      <4>2. T \ {x} \in SUBSET D
        OBVIOUS
      <4> QED BY <1>3, <4>1, <4>2
    <3> QED BY <3>1
  <2> QED BY <2>1
<1>4. \A n \in Nat : n \in Sizes
  <2> HIDE DEF Sizes
  <2> QED BY <1>2, <1>3, Numbers
<1> QED BY <1>1, <1>4

-----------------------------------------------------------------------------
(* Folds.                                                                  *)

\* m chooses an element of every subset of D but the empty one.
Chooses(m, D) == \A T \in SUBSET D : T # {} => m[T] \in T

\* g[T] is the fold of T: base, or one step from the fold of T without its chosen element.
IsFold(g, V, base, h, m, D) ==
  /\ g \in [SUBSET D -> V]
  /\ g[{}] = base
  /\ \A T \in SUBSET D : T # {} => g[T] = h[<<g[T \ {m[T]}], m[T]>>]

\* The same up to subsets of n elements.
IsFoldTo(g, V, base, h, m, D, n) ==
  /\ g \in [SUBSET D -> V]
  /\ g[{}] = base
  /\ \A T \in SUBSET D :
       T # {} /\ Cardinality(T) <= n => g[T] = h[<<g[T \ {m[T]}], m[T]>>]

LEMMA FoldExists ==
  ASSUME NEW D, IsFiniteSet(D), NEW V, NEW base \in V, NEW h \in [V \X D -> V],
         NEW m, Chooses(m, D)
  PROVE  \E g : IsFold(g, V, base, h, m, D)
<1> DEFINE W == {n \in Nat : \E g : IsFoldTo(g, V, base, h, m, D, n)}
<1>1. ASSUME NEW T \in SUBSET D PROVE IsFiniteSet(T) /\ Cardinality(T) \in Nat
  BY FS_Subset, FS_CardinalityType
<1>2. 0 \in W
  <2> DEFINE g == [T \in SUBSET D |-> base]
  <2>1. ASSUME NEW T \in SUBSET D, T # {} PROVE ~ (Cardinality(T) <= 0)
    BY <1>1, <2>1, FS_EmptySet
  <2>2. IsFoldTo(g, V, base, h, m, D, 0)
    BY <2>1 DEF IsFoldTo
  <2> QED BY <2>2
<1>3. ASSUME NEW n \in Nat, n \in W PROVE n + 1 \in W
  <2>1. PICK f : IsFoldTo(f, V, base, h, m, D, n)
    BY <1>3
  <2> DEFINE g == [T \in SUBSET D |->
                     IF T # {} /\ Cardinality(T) = n + 1 THEN h[<<f[T \ {m[T]}], m[T]>>] ELSE f[T]]
  <2>2. ASSUME NEW T \in SUBSET D, T # {}
        PROVE  /\ T \ {m[T]} \in SUBSET D /\ m[T] \in D /\ m[T] \in T
               /\ Cardinality(T \ {m[T]}) = Cardinality(T) - 1
               /\ Cardinality(T \ {m[T]}) \in Nat
               /\ f[T \ {m[T]}] \in V
               /\ h[<<f[T \ {m[T]}], m[T]>>] \in V
    <3>1. T \ {m[T]} \in SUBSET D /\ m[T] \in D /\ m[T] \in T
      BY <2>2 DEF Chooses
    <3>2. Cardinality(T \ {m[T]}) = Cardinality(T) - 1
      BY <1>1, <3>1, FS_RemoveElement
    <3>3. f[T \ {m[T]}] \in V
      BY <2>1, <3>1 DEF IsFoldTo
    <3> QED BY <1>1, <3>1, <3>2, <3>3
  <2>3. g \in [SUBSET D -> V]
    BY <2>1, <2>2 DEF IsFoldTo
  <2>4. g[{}] = base
    BY <2>1 DEF IsFoldTo
  <2>5. ASSUME NEW T \in SUBSET D, T # {}, Cardinality(T) <= n + 1
        PROVE  g[T] = h[<<g[T \ {m[T]}], m[T]>>]
    <3>1. Cardinality(T) \in Nat /\ Cardinality(T \ {m[T]}) # n + 1
      <4>1. Cardinality(T) \in Nat
        BY <1>1
      <4>2. Cardinality(T \ {m[T]}) = Cardinality(T) - 1
        BY <2>2, <2>5
      <4> QED BY <2>5, <4>1, <4>2
    <3>2. g[T \ {m[T]}] = f[T \ {m[T]}]
      BY <2>2, <2>5, <3>1
    <3>3. CASE Cardinality(T) = n + 1
      BY <2>5, <3>2, <3>3
    <3>4. CASE Cardinality(T) <= n
      <4>1. g[T] = f[T]
        BY <3>1, <3>4
      <4> QED BY <2>1, <2>5, <3>2, <3>4, <4>1 DEF IsFoldTo
    <3> QED BY <2>5, <3>1, <3>3, <3>4
  <2>6. IsFoldTo(g, V, base, h, m, D, n + 1)
    <3> HIDE DEF g
    <3> QED BY <2>3, <2>4, <2>5 DEF IsFoldTo
  <2> QED BY <2>6
<1>4. Cardinality(D) \in W
  <2>1. \A n \in Nat : n \in W
    <3> HIDE DEF W
    <3> QED BY <1>2, <1>3, Numbers
  <2> QED BY <1>1, <2>1
<1>5. PICK g : IsFoldTo(g, V, base, h, m, D, Cardinality(D))
  BY <1>4
<1>6. \A T \in SUBSET D : Cardinality(T) <= Cardinality(D)
  BY FS_Subset
<1> QED BY <1>5, <1>6 DEF IsFold, IsFoldTo

\* Two functions that take the same steps from the same base are the same, and the
\* fold of a smaller set is that of a larger one.
StepAlike(f, g, m, C) ==
  /\ f[{}] = g[{}]
  /\ \A T \in SUBSET C : T # {} /\ f[T \ {m[T]}] = g[T \ {m[T]}] => f[T] = g[T]

LEMMA FoldsAgree ==
  ASSUME NEW C, IsFiniteSet(C), NEW m, Chooses(m, C), NEW f, NEW g, StepAlike(f, g, m, C)
  PROVE  \A T \in SUBSET C : f[T] = g[T]
<1> DEFINE W == {T \in SUBSET C : f[T] = g[T]}
<1>1. ASSUME NEW T \in SUBSET C, \A x \in T : T \ {x} \in W PROVE T \in W
  <2>1. CASE T = {}
    BY <2>1 DEF StepAlike
  <2>2. CASE T # {}
    <3>1. m[T] \in T
      BY <2>2 DEF Chooses
    <3> QED BY <1>1, <2>2, <3>1 DEF StepAlike
  <2> QED BY <2>1, <2>2
<1>2. \A T \in SUBSET C : T \in W
  <2> HIDE DEF W
  <2> QED BY <1>1, Subsets
<1> QED BY <1>2

-----------------------------------------------------------------------------
(* Loops: recursive functions of how many elements of a sequence the loop   *)
(* has seen.                                                               *)

IsLoop(f, N, base, h) ==
  /\ f[0] = base
  /\ \A n \in 1..N : f[n] = h[<<f[n - 1], n>>]

LEMMA LoopExists ==
  ASSUME NEW N \in Nat, NEW V, NEW base \in V, NEW h \in [V \X (1..N) -> V]
  PROVE  \E f \in [0..N -> V] : IsLoop(f, N, base, h)
<1> DEFINE W == {k \in Nat : k <= N => \E f \in [0..k -> V] : IsLoop(f, k, base, h)}
<1>1. 0 \in W
  <2> DEFINE f == [n \in 0..0 |-> base]
  <2>1. f \in [0..0 -> V] /\ IsLoop(f, 0, base, h)
    BY DEF IsLoop
  <2> QED BY <2>1
<1>2. ASSUME NEW k \in Nat, k \in W PROVE k + 1 \in W
  <2> SUFFICES ASSUME k + 1 <= N
               PROVE  \E g \in [0..(k + 1) -> V] : IsLoop(g, k + 1, base, h)
    OBVIOUS
  <2>1. PICK f \in [0..k -> V] : IsLoop(f, k, base, h)
    BY <1>2
  <2> DEFINE g == [n \in 0..(k + 1) |-> IF n <= k THEN f[n] ELSE h[<<f[k], k + 1>>]]
  <2>2. h[<<f[k], k + 1>>] \in V
    BY <2>1
  <2>3. g \in [0..(k + 1) -> V]
    BY <2>1, <2>2
  <2>4. g[0] = base
    BY <2>1 DEF IsLoop
  <2>5. ASSUME NEW n \in 1..(k + 1) PROVE g[n] = h[<<g[n - 1], n>>]
    <3>1. CASE n <= k
      BY <2>1, <3>1 DEF IsLoop
    <3>2. CASE n = k + 1
      <4>1. g[n] = h[<<f[k], k + 1>>] /\ g[n - 1] = f[k]
        BY <3>2
      <4> QED BY <3>2, <4>1
    <3> QED BY <3>1, <3>2
  <2>6. IsLoop(g, k + 1, base, h)
    <3> HIDE DEF g
    <3> QED BY <2>4, <2>5 DEF IsLoop
  <2> QED BY <2>3, <2>6
<1>3. \A k \in Nat : k \in W
  <2> HIDE DEF W
  <2> QED BY <1>1, <1>2, Numbers
<1> QED BY <1>3

\* Two loops that begin alike and take the same steps agree as far as both go.
LEMMA LoopsAgree ==
  ASSUME NEW N \in Nat, NEW f, NEW g, f[0] = g[0],
         \A n \in 1..N : f[n - 1] = g[n - 1] => f[n] = g[n]
  PROVE  \A n \in 0..N : f[n] = g[n]
<1> DEFINE W == {n \in Nat : n <= N => f[n] = g[n]}
<1>1. 0 \in W
  OBVIOUS
<1>2. ASSUME NEW n \in Nat, n \in W PROVE n + 1 \in W
  <2>1. CASE n + 1 <= N
    <3>1. f[n] = g[n] /\ n + 1 \in 1..N
      BY <1>2, <2>1
    <3>2. f[(n + 1) - 1] = g[(n + 1) - 1] => f[n + 1] = g[n + 1]
      BY <3>1
    <3> QED BY <3>1, <3>2
  <2> QED BY <2>1
<1>3. \A n \in Nat : n \in W
  <2> HIDE DEF W
  <2> QED BY <1>1, <1>2, Numbers
<1> QED BY <1>3
===============================================================================
