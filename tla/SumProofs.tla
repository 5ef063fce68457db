----------------------------- MODULE SumProofs ------------------------------
(***************************************************************************)
(* What KnownBytes, a fold over a list of tasks, computes: the number of   *)
(* bytes of the tasks that have a length, whatever their order.  A fold is *)
(* a recursive function, so this is an induction, over the sets of tasks   *)
(* that are still to be added; it is done with a least counterexample, by  *)
(* the well-foundedness of the strict subset order on finite sets.         *)
(***************************************************************************)
EXTENDS Preparation, FiniteSetTheorems, TLAPS

-----------------------------------------------------------------------------
(* The recursion of the fold.                                              *)

Weight(t) == IF t.length > 0 THEN t.length ELSE 0

\* One element of S, as the fold takes it, and the value for S from that for
\* the others.
Taken(S) == CHOOSE x \in S : TRUE

Folded(s, f, S) == IF S = {} THEN 0
                   ELSE LET t == s[Taken(S)]
                            r == f[S \ {Taken(S)}]
                        IN  IF t.length > 0 THEN r + t.length ELSE r

Recursion(s, f) == f = [S \in SUBSET DOMAIN s |-> Folded(s, f, S)]

\* KnownBytes is the value of this recursion for all tasks.
LEMMA KnownBytesIsFold ==
    ASSUME NEW s
    PROVE  KnownBytes(s) = (CHOOSE f : Recursion(s, f))[DOMAIN s]
  BY DEF KnownBytes, FoldSeq, FoldFunction, FoldFunctionOnSet, MapThenFoldSet, Folded,
         Taken, Recursion

\* The recursion has one solution at most.
LEMMA FoldIsUnique ==
    ASSUME NEW s, IsFiniteSet(DOMAIN s), NEW f, NEW g, Recursion(s, f), Recursion(s, g)
    PROVE  \A S \in SUBSET DOMAIN s : f[S] = g[S]
  <1> DEFINE D == DOMAIN s
             Differ == {S \in SUBSET D : f[S] # g[S]}
             R == StrictSubsetOrdering(D)
  <1> SUFFICES ASSUME Differ # {} PROVE FALSE
    OBVIOUS
  <1>1. IsWellFoundedOn(R, SUBSET D)
    BY FS_StrictSubsetOrderingWellFounded, FS_FiniteSubsetsOfFinite
  <1>2. \A S, T \in SUBSET D : S \subseteq T /\ S # T => <<S, T>> \in R
    BY DEF StrictSubsetOrdering
  <1> HIDE DEF R
  <1>3. PICK S \in Differ : \A T \in Differ : ~(<<T, S>> \in R)
    BY <1>1, WFMin
  <1>4. S \in SUBSET D /\ f[S] = Folded(s, f, S) /\ g[S] = Folded(s, g, S)
    BY DEF Recursion
  <1>5. S # {}
    BY <1>4 DEF Folded
  <1> DEFINE rest == S \ {Taken(S)}
  <1>6. Taken(S) \in S
    BY <1>5 DEF Taken
  <1>7. f[rest] = g[rest]
    <2>1. rest \in SUBSET D /\ rest \subseteq S /\ rest # S
      BY <1>4, <1>6
    <2>2. <<rest, S>> \in R
      BY <1>2, <1>4, <2>1
    <2> QED BY <1>3, <2>1, <2>2
  <1>8. Folded(s, f, S) = Folded(s, g, S)
    BY <1>7 DEF Folded
  <1> QED BY <1>4, <1>8

-----------------------------------------------------------------------------
(* The solution: the number of bytes of the tasks.                         *)

\* A list of tasks, of which it matters only that their lengths are numbers.
Tasklike(T) == \A t \in T : t.length \in Int

\* A byte is a task's place in the list and a number from 1 to its length.
BytesOf(s, i)  == {i} \X (1 .. Weight(s[i]))
BytesIn(s, S)  == {b \in S \X Nat : b \in BytesOf(s, b[1])}

LEMMA BytesOfFacts ==
    ASSUME NEW T, Tasklike(T), NEW s \in Seq(T), NEW i \in DOMAIN s
    PROVE  /\ IsFiniteSet(BytesOf(s, i))
           /\ Cardinality(BytesOf(s, i)) = Weight(s[i])
           /\ Weight(s[i]) \in Nat
  <1>1. Weight(s[i]) \in Nat
    <2>1. s[i] \in T
      OBVIOUS
    <2> QED BY <2>1 DEF Weight, Tasklike
  <1>2. IsFiniteSet(1 .. Weight(s[i])) /\ Cardinality(1 .. Weight(s[i])) = Weight(s[i])
    BY <1>1, FS_Interval
  <1>3. IsFiniteSet({i}) /\ Cardinality({i}) = 1
    BY FS_Singleton
  <1> QED BY <1>1, <1>2, <1>3, FS_Product DEF BytesOf

\* The bytes of a set of tasks are finitely many.
LEMMA BytesFinite ==
    ASSUME NEW T, Tasklike(T), NEW s \in Seq(T), NEW S \in SUBSET DOMAIN s
    PROVE  IsFiniteSet(BytesIn(s, S)) /\ IsFiniteSet(DOMAIN s)
  <1>1. IsFiniteSet(DOMAIN s)
    BY FS_Interval
  <1> DEFINE parts == {BytesOf(s, i) : i \in S}
             part == [i \in S |-> BytesOf(s, i)]
  <1>2. IsFiniteSet(parts)
    <2>1. part \in Surjection(S, parts)
      BY DEF Surjection
    <2>2. IsFiniteSet(S)
      BY <1>1, FS_Subset
    <2> HIDE DEF parts, part
    <2> QED BY <2>1, <2>2, FS_Surjection
  <1>3. \A P \in parts : IsFiniteSet(P)
    BY BytesOfFacts
  <1>4. BytesIn(s, S) \subseteq UNION parts
    BY DEF BytesIn
  <1> HIDE DEF parts
  <1> QED BY <1>1, <1>2, <1>3, <1>4, FS_UNION, FS_Subset

\* Two finite sets that share no element.
LEMMA DisjointUnion ==
    ASSUME NEW A, NEW B, IsFiniteSet(A), IsFiniteSet(B), A \cap B = {}
    PROVE  Cardinality(A \cup B) = Cardinality(A) + Cardinality(B)
  <1>1. Cardinality(A \cup B) = Cardinality(A) + Cardinality(B) - Cardinality(A \cap B)
    BY FS_Union
  <1>2. Cardinality(A \cap B) = 0 /\ Cardinality(A) \in Nat /\ Cardinality(B) \in Nat
    BY FS_EmptySet, FS_CardinalityType
  <1> QED BY <1>1, <1>2

\* One task more.
LEMMA BytesAdd ==
    ASSUME NEW T, Tasklike(T), NEW s \in Seq(T), NEW S \in SUBSET DOMAIN s, NEW i \in S
    PROVE  Cardinality(BytesIn(s, S)) = Cardinality(BytesIn(s, S \ {i})) + Weight(s[i])
  <1>1. BytesIn(s, S) = BytesIn(s, S \ {i}) \cup BytesOf(s, i)
    BY BytesOfFacts DEF BytesIn, BytesOf
  <1>2. BytesIn(s, S \ {i}) \cap BytesOf(s, i) = {}
    BY DEF BytesIn, BytesOf
  <1>3. IsFiniteSet(BytesIn(s, S \ {i})) /\ Cardinality(BytesIn(s, S \ {i})) \in Nat
    BY BytesFinite, FS_CardinalityType
  <1>4. /\ IsFiniteSet(BytesOf(s, i)) /\ Cardinality(BytesOf(s, i)) = Weight(s[i])
        /\ Weight(s[i]) \in Nat
    BY BytesOfFacts
  <1> QED BY <1>1, <1>2, <1>3, <1>4, DisjointUnion

\* KnownBytes counts the bytes.
LEMMA KnownBytesCounts ==
    ASSUME NEW T, Tasklike(T), NEW s \in Seq(T)
    PROVE  KnownBytes(s) = Cardinality(BytesIn(s, DOMAIN s))
  <1> DEFINE count == [S \in SUBSET DOMAIN s |-> Cardinality(BytesIn(s, S))]
  <1>1. ASSUME NEW S \in SUBSET DOMAIN s PROVE count[S] = Folded(s, count, S)
    <2>1. CASE S = {}
      <3>1. BytesIn(s, S) = {}
        BY <2>1 DEF BytesIn
      <3> QED BY <2>1, <3>1, FS_EmptySet DEF Folded
    <2>2. CASE S # {}
      <3> DEFINE x == Taken(S)
      <3>1. x \in S
        BY <2>2 DEF Taken
      <3> HIDE DEF x
      <3>2. Cardinality(BytesIn(s, S)) = Cardinality(BytesIn(s, S \ {x})) + Weight(s[x])
        BY <3>1, BytesAdd
      <3>3. Cardinality(BytesIn(s, S \ {x})) \in Nat
        BY BytesFinite, FS_CardinalityType
      <3>4. count[S] = Cardinality(BytesIn(s, S))
            /\ count[S \ {x}] = Cardinality(BytesIn(s, S \ {x}))
        OBVIOUS
      <3> HIDE DEF count
      <3> QED BY <2>2, <3>2, <3>3, <3>4 DEF Folded, Weight, x
    <2> QED BY <2>1, <2>2
  <1>2. Recursion(s, count)
    BY <1>1 DEF Recursion
  <1> DEFINE f == CHOOSE g : Recursion(s, g)
  <1> HIDE DEF count
  <1>3. Recursion(s, f)
    BY <1>2
  <1>4. KnownBytes(s) = f[DOMAIN s]
    BY KnownBytesIsFold
  <1> HIDE DEF f
  <1>5. f[DOMAIN s] = count[DOMAIN s]
    <2>1. IsFiniteSet(DOMAIN s) /\ DOMAIN s \in SUBSET DOMAIN s
      BY BytesFinite
    <2> QED BY <1>2, <1>3, <2>1, FoldIsUnique
  <1> QED BY <1>4, <1>5 DEF count

\* No task, no byte.
LEMMA KnownBytesNone == KnownBytes(<<>>) = 0
  <1>1. Tasklike({}) /\ <<>> \in Seq({}) /\ DOMAIN <<>> = {}
    BY DEF Tasklike
  <1>2. BytesIn(<<>>, DOMAIN <<>>) = {}
    BY <1>1 DEF BytesIn
  <1> QED BY <1>1, <1>2, KnownBytesCounts, FS_EmptySet

\* The bytes of two lists, one behind the other, add up.
LEMMA KnownBytesAdd ==
    ASSUME NEW T, Tasklike(T), NEW r \in Seq(T), NEW s \in Seq(T)
    PROVE  KnownBytes(r \o s) = KnownBytes(r) + KnownBytes(s)
  <1> DEFINE n == Len(r)
             both == r \o s
             Low == BytesIn(both, DOMAIN r)
             High == BytesIn(both, DOMAIN both \ DOMAIN r)
             behind == [b \in BytesIn(s, DOMAIN s) |-> <<n + b[1], b[2]>>]
  <1>1. /\ n \in Nat /\ Len(s) \in Nat /\ both \in Seq(T)
        /\ DOMAIN r = 1 .. n /\ DOMAIN s = 1 .. Len(s) /\ DOMAIN both = 1 .. n + Len(s)
        /\ \A i \in DOMAIN r : both[i] = r[i]
        /\ \A i \in DOMAIN s : both[n + i] = s[i]
    OBVIOUS
  <1> HIDE DEF both, n
  <1>2. BytesIn(both, DOMAIN both) = Low \cup High /\ Low \cap High = {}
    BY <1>1 DEF BytesIn
  <1>3. Low = BytesIn(r, DOMAIN r)
    BY <1>1 DEF BytesIn, BytesOf
  <1>4. behind \in Bijection(BytesIn(s, DOMAIN s), High)
    <2>1. ASSUME NEW b \in BytesIn(s, DOMAIN s) PROVE behind[b] \in High
      BY <1>1 DEF BytesIn, BytesOf
    <2>2. ASSUME NEW c \in High PROVE \E b \in BytesIn(s, DOMAIN s) : behind[b] = c
      <3>1. c[1] - n \in DOMAIN s /\ n + (c[1] - n) = c[1]
        BY <1>1 DEF BytesIn
      <3>2. <<c[1] - n, c[2]>> \in BytesIn(s, DOMAIN s)
        BY <1>1, <3>1 DEF BytesIn, BytesOf
      <3> QED BY <3>1, <3>2 DEF BytesIn
    <2>3. ASSUME NEW b \in BytesIn(s, DOMAIN s), NEW c \in BytesIn(s, DOMAIN s),
                 behind[b] = behind[c]
          PROVE  b = c
      BY <1>1, <2>3 DEF BytesIn
    <2> QED BY <2>1, <2>2, <2>3 DEF Bijection, Injection, Surjection, IsInjective
  <1>5. /\ IsFiniteSet(Low) /\ IsFiniteSet(High) /\ IsFiniteSet(BytesIn(s, DOMAIN s))
        /\ Cardinality(Low) \in Nat /\ Cardinality(High) \in Nat
    BY <1>1, BytesFinite, FS_CardinalityType
  <1>6. Cardinality(High) = Cardinality(BytesIn(s, DOMAIN s))
    BY <1>4, <1>5, FS_Bijection DEF ExistsBijection
  <1>7. Cardinality(BytesIn(both, DOMAIN both)) = Cardinality(Low) + Cardinality(High)
    <2> HIDE DEF Low, High
    <2> QED BY <1>2, <1>5, DisjointUnion
  <1> QED BY <1>1, <1>3, <1>6, <1>7, KnownBytesCounts DEF both
=============================================================================
