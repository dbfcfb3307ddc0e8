---------------------------- MODULE KernelProofs ----------------------------
(***************************************************************************)
(* Proofs about the kernel of module Kernel, for any fleet, any days of    *)
(* demand and any timing constants.  The inductive invariant is KInv, and  *)
(* most of the work is to show that each operation on the passengers'      *)
(* tables keeps its conjuncts, first a bus or a cohort at a time, then for *)
(* the buses in turn, then for the tick.                                   *)
(*                                                                         *)
(* The first sections hold what these proofs need of sums over finite      *)
(* sets, and the induction that gives it.  The property an induction is    *)
(* about is a set (of numbers, or of sets) here, so that it is first-order *)
(* for the provers; Folds defines a sum by a recursive function, which has *)
(* to be shown to exist before anything can be said of it.                 *)
(***************************************************************************)
EXTENDS Kernel, FleetProofs

-----------------------------------------------------------------------------
(* Induction *)

\* What holds of the empty set, and of a set when it holds of all sets that have
\* an element less, holds of a finite set.
LEMMA SetInductionOn ==
  ASSUME NEW S, IsFiniteSet(S), NEW P, {} \in P,
         \A T \in SUBSET S : T # {} /\ (\A x \in T : T \ {x} \in P) => T \in P
  PROVE  S \in P
<1> DEFINE Q == {n \in Nat : \A T \in SUBSET S : Cardinality(T) = n => T \in P}
<1>1. 0 \in Q
  BY FS_EmptySet, FS_Subset
<1>2. ASSUME NEW n \in Nat, n \in Q PROVE n + 1 \in Q
  <2> SUFFICES ASSUME NEW T \in SUBSET S, Cardinality(T) = n + 1 PROVE T \in P
    OBVIOUS
  <2>1. IsFiniteSet(T)
    BY FS_Subset
  <2>2. T # {}
    <3>1. Cardinality(T) # 0
      OBVIOUS
    <3> QED
      BY <3>1, FS_EmptySet
  <2>3. ASSUME NEW x \in T PROVE T \ {x} \in P
    <3>1. Cardinality(T \ {x}) = Cardinality(T) - 1
      BY <2>1, FS_RemoveElement
    <3> QED
      BY <1>2, <3>1
  <2> QED
    BY <2>2, <2>3
<1>3. Cardinality(S) \in Nat
  BY FS_CardinalityType
<1> HIDE DEF Q
<1>4. Cardinality(S) \in Q
  BY <1>1, <1>2, <1>3, NatInductionOn
<1> QED
  BY <1>4 DEF Q

-----------------------------------------------------------------------------
(* The recursion of a sum *)

\* The element that the fold over the values of s takes first.
Pick(s) == CHOOSE x \in s : TRUE

\* g sums f over the subsets of S.
SumFunctionOf(g, f, S) ==
  g = [s \in SUBSET S |-> IF s = {} THEN 0 ELSE f[Pick(s)] + g[s \ {Pick(s)}]]

\* g adds f up over the subsets of S, as MapThenFoldSet does.
Sums(g, f, S) ==
  \A s \in SUBSET S : g[s] = IF s = {} THEN 0 ELSE f[Pick(s)] + g[s \ {Pick(s)}]

\* Picking picks an element of the set.
LEMMA PickIn == ASSUME NEW s, s # {} PROVE Pick(s) \in s
BY DEF Pick

\* There is one such function ...
LEMMA SumsExist ==
  ASSUME NEW f, NEW S, IsFiniteSet(S)
  PROVE  \E g : SumFunctionOf(g, f, S)
<1> DEFINE Upto(g, n) ==
             \A s \in SUBSET S : Cardinality(s) <= n =>
               g[s] = IF s = {} THEN 0 ELSE f[Pick(s)] + g[s \ {Pick(s)}]
           Q == {n \in Nat : \E g : Upto(g, n)}
<1>1. 0 \in Q
  <2>1. \A s \in SUBSET S : Cardinality(s) <= 0 => s = {}
    BY FS_EmptySet, FS_Subset, FS_CardinalityType
  <2>2. Upto([s \in SUBSET S |-> 0], 0)
    BY <2>1
  <2> QED
    BY <2>2
<1>2. ASSUME NEW n \in Nat, n \in Q PROVE n + 1 \in Q
  <2>1. PICK g : Upto(g, n)
    BY <1>2
  <2> DEFINE h == [s \in SUBSET S |->
                     IF Cardinality(s) <= n THEN g[s]
                     ELSE f[Pick(s)] + g[s \ {Pick(s)}]]
  <2> SUFFICES Upto(h, n + 1)
    <3> HIDE DEF Upto, h
    <3> QED
      OBVIOUS
  <2> SUFFICES ASSUME NEW s \in SUBSET S, Cardinality(s) <= n + 1
               PROVE  h[s] = IF s = {} THEN 0 ELSE f[Pick(s)] + h[s \ {Pick(s)}]
    OBVIOUS
  <2>2. IsFiniteSet(s) /\ Cardinality(s) \in Nat
    BY FS_Subset, FS_CardinalityType
  <2>3. CASE s = {}
    <3>1. Cardinality(s) = 0
      BY <2>3, FS_EmptySet
    <3> QED
      BY <2>1, <2>3, <3>1
  <2>4. CASE s # {}
    <3> DEFINE t == s \ {Pick(s)}
    <3>1. Pick(s) \in s
      BY <2>4, PickIn
    <3>2. t \in SUBSET S /\ Cardinality(t) = Cardinality(s) - 1
      BY <2>2, <3>1, FS_RemoveElement
    <3>3. Cardinality(t) <= n
      BY <2>2, <3>2
    <3>4. h[t] = g[t]
      BY <3>2, <3>3
    <3> HIDE DEF t
    <3>5. CASE Cardinality(s) <= n
      <4>1. g[s] = f[Pick(s)] + g[t]
        BY <2>1, <2>4, <3>5 DEF t
      <4> QED
        BY <2>4, <3>4, <3>5, <4>1 DEF t
    <3>6. CASE ~(Cardinality(s) <= n)
      BY <2>4, <3>4, <3>6 DEF t
    <3> QED
      BY <3>5, <3>6
  <2> QED
    BY <2>3, <2>4
<1> HIDE DEF Q
<1>3. Cardinality(S) \in Nat
  BY FS_CardinalityType
<1>4. Cardinality(S) \in Q
  BY <1>1, <1>2, <1>3, NatInductionOn
<1>5. PICK g : Upto(g, Cardinality(S))
  BY <1>4 DEF Q
<1>6. \A s \in SUBSET S : g[s] = IF s = {} THEN 0 ELSE f[Pick(s)] + g[s \ {Pick(s)}]
  BY <1>5, FS_Subset
<1> DEFINE h == [s \in SUBSET S |-> g[s]]
<1>7. SumFunctionOf(h, f, S)
  BY <1>6 DEF SumFunctionOf
<1> QED
  BY <1>7

\* The sum over a finite set is the value of a function that adds up over its
\* subsets: the recursive definition of the fold has a solution.
LEMMA SumIsOne ==
  ASSUME NEW f, NEW S, IsFiniteSet(S)
  PROVE  \E g : Sums(g, f, S) /\ SumFunctionOnSet(f, S) = g[S]
<1> DEFINE G == CHOOSE g : SumFunctionOf(g, f, S)
<1>1. SumFunctionOnSet(f, S) = G[S]
  BY DEF SumFunctionOnSet, FoldFunctionOnSet, MapThenFoldSet, SumFunctionOf, Pick
<1>2. \E g : SumFunctionOf(g, f, S)
  BY SumsExist
<1>3. SumFunctionOf(G, f, S)
  BY <1>2
<1> HIDE DEF G
<1>4. Sums(G, f, S)
  BY <1>3 DEF Sums, SumFunctionOf
<1> QED
  BY <1>1, <1>4

\* ... and only one: sums over a part of S agree.
LEMMA SumsAgree ==
  ASSUME NEW f, NEW S, IsFiniteSet(S), NEW g, NEW T \in SUBSET S, NEW h,
         Sums(g, f, S), Sums(h, f, T)
  PROVE  g[T] = h[T]
<1> DEFINE P == {s \in SUBSET T : g[s] = h[s]}
           Q == {n \in Nat : \A s \in SUBSET T : Cardinality(s) = n => s \in P}
<1>0. \A s \in SUBSET T : IsFiniteSet(s)
  BY FS_Subset
<1>1. 0 \in Q
  <2> SUFFICES ASSUME NEW s \in SUBSET T, Cardinality(s) = 0 PROVE g[s] = h[s]
    OBVIOUS
  <2>1. s = {}
    BY <1>0, FS_EmptySet
  <2> QED
    BY <2>1 DEF Sums
<1>2. ASSUME NEW n \in Nat, n \in Q PROVE n + 1 \in Q
  <2> SUFFICES ASSUME NEW s \in SUBSET T, Cardinality(s) = n + 1
               PROVE  g[s] = h[s]
    OBVIOUS
  <2>1. s # {}
    BY FS_EmptySet
  <2>2. Pick(s) \in s
    BY <2>1, PickIn
  <2>3. Cardinality(s \ {Pick(s)}) = Cardinality(s) - 1
    BY <1>0, <2>2, FS_RemoveElement
  <2>4. g[s \ {Pick(s)}] = h[s \ {Pick(s)}]
    BY <1>2, <2>3
  <2> QED
    BY <2>1, <2>4 DEF Sums
<1> HIDE DEF Q
<1>3. Cardinality(T) \in Nat
  BY <1>0, FS_CardinalityType
<1>4. Cardinality(T) \in Q
  BY <1>1, <1>2, <1>3, NatInductionOn
<1> QED
  BY <1>4 DEF Q

\* An empty sum is 0.
LEMMA SumEmpty == ASSUME NEW f PROVE SumFunctionOnSet(f, {}) = 0
<1>1. PICK g : Sums(g, f, {}) /\ SumFunctionOnSet(f, {}) = g[{}]
  BY SumIsOne, FS_EmptySet
<1> QED
  BY <1>1 DEF Sums

\* A sum is the picked term and the sum of the others.
LEMMA SumRecursion ==
  ASSUME NEW f, NEW S, IsFiniteSet(S), S # {}
  PROVE  SumFunctionOnSet(f, S) = f[Pick(S)] + SumFunctionOnSet(f, S \ {Pick(S)})
<1> DEFINE T == S \ {Pick(S)}
<1>1. IsFiniteSet(T) /\ T \in SUBSET S
  BY FS_Subset
<1>2. PICK g : Sums(g, f, S) /\ SumFunctionOnSet(f, S) = g[S]
  BY SumIsOne
<1>3. PICK h : Sums(h, f, T) /\ SumFunctionOnSet(f, T) = h[T]
  BY <1>1, SumIsOne
<1>4. g[T] = h[T]
  BY <1>1, <1>2, <1>3, SumsAgree
<1>5. g[S] = f[Pick(S)] + g[T]
  BY <1>2 DEF Sums
<1> QED
  BY <1>2, <1>3, <1>4, <1>5

-----------------------------------------------------------------------------
(* Sums of numbers *)

\* A finite sum of integers is an integer.
LEMMA SumInt ==
  ASSUME NEW f, NEW S, IsFiniteSet(S), \A x \in S : f[x] \in Int
  PROVE  SumFunctionOnSet(f, S) \in Int
<1> DEFINE P == {T \in SUBSET S : SumFunctionOnSet(f, T) \in Int}
<1>1. {} \in P
  BY SumEmpty
<1>2. ASSUME NEW T \in SUBSET S, T # {}, \A x \in T : T \ {x} \in P
      PROVE  T \in P
  <2>1. IsFiniteSet(T) /\ Pick(T) \in T
    BY <1>2, FS_Subset, PickIn
  <2>2. SumFunctionOnSet(f, T) = f[Pick(T)] + SumFunctionOnSet(f, T \ {Pick(T)})
    BY <1>2, <2>1, SumRecursion
  <2>3. SumFunctionOnSet(f, T \ {Pick(T)}) \in Int /\ f[Pick(T)] \in Int
    BY <1>2, <2>1
  <2> QED
    BY <2>2, <2>3
<1> HIDE DEF P
<1>3. S \in P
  BY <1>1, <1>2, SetInductionOn
<1> QED
  BY <1>3 DEF P

\* A sum is an element and the sum of the others.
LEMMA SumSplit ==
  ASSUME NEW f, NEW S, IsFiniteSet(S), \A x \in S : f[x] \in Int, NEW y \in S
  PROVE  SumFunctionOnSet(f, S) = f[y] + SumFunctionOnSet(f, S \ {y})
<1> DEFINE P == {T \in SUBSET S : \A x \in T :
                   SumFunctionOnSet(f, T) = f[x] + SumFunctionOnSet(f, T \ {x})}
<1>1. {} \in P
  OBVIOUS
<1>2. ASSUME NEW T \in SUBSET S, T # {}, \A x \in T : T \ {x} \in P
      PROVE  T \in P
  <2> SUFFICES ASSUME NEW x \in T
               PROVE  SumFunctionOnSet(f, T) = f[x] + SumFunctionOnSet(f, T \ {x})
    OBVIOUS
  <2> DEFINE p == Pick(T)
             U == (T \ {x}) \ {p}
  <2>1. IsFiniteSet(T) /\ p \in T
    BY <1>2, FS_Subset, PickIn
  <2>2. SumFunctionOnSet(f, T) = f[p] + SumFunctionOnSet(f, T \ {p})
    BY <1>2, <2>1, SumRecursion
  <2>3. CASE x = p
    BY <2>2, <2>3
  <2>4. CASE x # p
    <3>1. (T \ {p}) \ {x} = U
      OBVIOUS
    <3>2. SumFunctionOnSet(f, T \ {p}) = f[x] + SumFunctionOnSet(f, U)
      BY <1>2, <2>1, <2>4, <3>1
    <3>3. SumFunctionOnSet(f, T \ {x}) = f[p] + SumFunctionOnSet(f, U)
      BY <1>2, <2>1, <2>4
    <3>4. IsFiniteSet(U) /\ U \in SUBSET S
      BY <2>1, FS_Subset
    <3>5. SumFunctionOnSet(f, U) \in Int
      BY <3>4, SumInt
    <3>6. f[x] \in Int /\ f[p] \in Int
      BY <2>1
    <3> HIDE DEF U, p
    <3> QED
      BY <2>2, <3>2, <3>3, <3>5, <3>6
  <2> QED
    BY <2>3, <2>4
<1> HIDE DEF P
<1>3. S \in P
  BY <1>1, <1>2, SetInductionOn
<1> QED
  BY <1>3 DEF P

\* A finite sum of naturals is a natural.
LEMMA SumNat ==
  ASSUME NEW f, NEW S, IsFiniteSet(S), \A x \in S : f[x] \in Nat
  PROVE  SumFunctionOnSet(f, S) \in Nat
<1> DEFINE P == {T \in SUBSET S : SumFunctionOnSet(f, T) \in Nat}
<1>1. {} \in P
  BY SumEmpty
<1>2. ASSUME NEW T \in SUBSET S, T # {}, \A x \in T : T \ {x} \in P
      PROVE  T \in P
  <2>1. IsFiniteSet(T) /\ Pick(T) \in T
    BY <1>2, FS_Subset, PickIn
  <2>2. SumFunctionOnSet(f, T) = f[Pick(T)] + SumFunctionOnSet(f, T \ {Pick(T)})
    BY <1>2, <2>1, SumRecursion
  <2>3. SumFunctionOnSet(f, T \ {Pick(T)}) \in Nat /\ f[Pick(T)] \in Nat
    BY <1>2, <2>1
  <2> QED
    BY <2>2, <2>3
<1> HIDE DEF P
<1>3. S \in P
  BY <1>1, <1>2, SetInductionOn
<1> QED
  BY <1>3 DEF P

\* Two functions that agree on a set have the same sum there.
LEMMA SumEqual ==
  ASSUME NEW f, NEW g, NEW S, IsFiniteSet(S), \A x \in S : f[x] = g[x]
  PROVE  SumFunctionOnSet(f, S) = SumFunctionOnSet(g, S)
<1> DEFINE P == {T \in SUBSET S : SumFunctionOnSet(f, T) = SumFunctionOnSet(g, T)}
<1>1. {} \in P
  BY SumEmpty
<1>2. ASSUME NEW T \in SUBSET S, T # {}, \A x \in T : T \ {x} \in P
      PROVE  T \in P
  <2>1. IsFiniteSet(T) /\ Pick(T) \in T
    BY <1>2, FS_Subset, PickIn
  <2>2. SumFunctionOnSet(f, T) = f[Pick(T)] + SumFunctionOnSet(f, T \ {Pick(T)})
    BY <1>2, <2>1, SumRecursion
  <2>3. SumFunctionOnSet(g, T) = g[Pick(T)] + SumFunctionOnSet(g, T \ {Pick(T)})
    BY <1>2, <2>1, SumRecursion
  <2>4. SumFunctionOnSet(f, T \ {Pick(T)}) = SumFunctionOnSet(g, T \ {Pick(T)})
    BY <1>2, <2>1
  <2>5. f[Pick(T)] = g[Pick(T)]
    BY <2>1
  <2> QED
    BY <2>2, <2>3, <2>4, <2>5
<1> HIDE DEF P
<1>3. S \in P
  BY <1>1, <1>2, SetInductionOn
<1> QED
  BY <1>3 DEF P

\* Sums are added element by element.
LEMMA SumAdd ==
  ASSUME NEW f, NEW g, NEW h, NEW S, IsFiniteSet(S),
         \A x \in S : f[x] \in Int /\ g[x] \in Int /\ h[x] = f[x] + g[x]
  PROVE  SumFunctionOnSet(h, S) = SumFunctionOnSet(f, S) + SumFunctionOnSet(g, S)
<1> DEFINE P == {T \in SUBSET S : SumFunctionOnSet(h, T)
                   = SumFunctionOnSet(f, T) + SumFunctionOnSet(g, T)}
<1>1. {} \in P
  BY SumEmpty
<1>2. ASSUME NEW T \in SUBSET S, T # {}, \A x \in T : T \ {x} \in P
      PROVE  T \in P
  <2> DEFINE p == Pick(T)
             U == T \ {p}
  <2>1. IsFiniteSet(T) /\ p \in T
    BY <1>2, FS_Subset, PickIn
  <2>2. /\ SumFunctionOnSet(f, T) = f[p] + SumFunctionOnSet(f, U)
        /\ SumFunctionOnSet(g, T) = g[p] + SumFunctionOnSet(g, U)
        /\ SumFunctionOnSet(h, T) = h[p] + SumFunctionOnSet(h, U)
    BY <1>2, <2>1, SumRecursion
  <2>3. SumFunctionOnSet(h, U) = SumFunctionOnSet(f, U) + SumFunctionOnSet(g, U)
    BY <1>2, <2>1
  <2>4. IsFiniteSet(U) /\ U \in SUBSET S
    BY <2>1, FS_Subset
  <2>5. SumFunctionOnSet(f, U) \in Int /\ SumFunctionOnSet(g, U) \in Int
    BY <2>4, SumInt
  <2>6. f[p] \in Int /\ g[p] \in Int /\ h[p] = f[p] + g[p]
    BY <2>1
  <2> HIDE DEF U, p
  <2> QED
    BY <2>2, <2>3, <2>5, <2>6
<1> HIDE DEF P
<1>3. S \in P
  BY <1>1, <1>2, SetInductionOn
<1> QED
  BY <1>3 DEF P

\* A finite sum of zeros is 0.
LEMMA SumZero ==
  ASSUME NEW f, NEW S, IsFiniteSet(S), \A x \in S : f[x] = 0
  PROVE  SumFunctionOnSet(f, S) = 0
<1>1. SumFunctionOnSet(f, S) = SumFunctionOnSet(f, S) + SumFunctionOnSet(f, S)
  BY SumAdd
<1>2. SumFunctionOnSet(f, S) \in Int
  BY SumInt
<1> DEFINE s == SumFunctionOnSet(f, S)
<1> HIDE DEF s
<1>3. s = s + s /\ s \in Int
  BY <1>1, <1>2 DEF s
<1>4. s = 0
  BY <1>3
<1> QED
  BY <1>4 DEF s

\* f and g differ in y at most.
LEMMA SumChange ==
  ASSUME NEW f, NEW g, NEW S, IsFiniteSet(S), NEW y \in S,
         \A x \in S : f[x] \in Int /\ g[x] \in Int,
         \A x \in S \ {y} : g[x] = f[x]
  PROVE  SumFunctionOnSet(g, S) = SumFunctionOnSet(f, S) - f[y] + g[y]
<1>1. IsFiniteSet(S \ {y}) /\ S \ {y} \in SUBSET S
  BY FS_Subset
<1>2. SumFunctionOnSet(g, S \ {y}) = SumFunctionOnSet(f, S \ {y})
  BY <1>1, SumEqual
<1>3. SumFunctionOnSet(f, S \ {y}) \in Int
  BY <1>1, SumInt
<1>4. /\ SumFunctionOnSet(f, S) = f[y] + SumFunctionOnSet(f, S \ {y})
      /\ SumFunctionOnSet(g, S) = g[y] + SumFunctionOnSet(g, S \ {y})
  BY SumSplit
<1>5. f[y] \in Int /\ g[y] \in Int
  OBVIOUS
<1> QED
  BY <1>2, <1>3, <1>4, <1>5

\* A sum of numbers that are not negative is at least each of them.
LEMMA SumBounds ==
  ASSUME NEW f, NEW S, IsFiniteSet(S), \A x \in S : f[x] \in Nat, NEW y \in S
  PROVE  f[y] <= SumFunctionOnSet(f, S)
<1>1. IsFiniteSet(S \ {y})
  BY FS_Subset
<1>2. SumFunctionOnSet(f, S \ {y}) \in Nat
  BY <1>1, SumNat
<1>3. SumFunctionOnSet(f, S) = f[y] + SumFunctionOnSet(f, S \ {y})
  BY SumSplit
<1>4. f[y] \in Nat
  OBVIOUS
<1> QED
  BY <1>2, <1>3, <1>4

\* A sum over a part: the function may be taken to be zero elsewhere.
LEMMA SumPart ==
  ASSUME NEW f, NEW g, NEW S, IsFiniteSet(S), NEW T,
         \A x \in S \cap T : f[x] \in Int /\ g[x] = f[x],
         \A x \in S \ T : g[x] = 0
  PROVE  SumFunctionOnSet(g, S) = SumFunctionOnSet(f, S \cap T)
<1> DEFINE P == {U \in SUBSET S :
                   SumFunctionOnSet(g, U) = SumFunctionOnSet(f, U \cap T)}
<1>1. {} \in P
  <2>1. {} \cap T = {}
    OBVIOUS
  <2> QED
    BY <2>1, SumEmpty
<1>2. ASSUME NEW U \in SUBSET S, U # {}, \A x \in U : U \ {x} \in P
      PROVE  U \in P
  <2> DEFINE p == Pick(U)
             V == U \ {p}
  <2>1. IsFiniteSet(U) /\ p \in U /\ IsFiniteSet(V) /\ V \in SUBSET S
    BY <1>2, FS_Subset, PickIn
  <2>2. SumFunctionOnSet(g, U) = g[p] + SumFunctionOnSet(g, V)
    BY <1>2, <2>1, SumRecursion
  <2>3. SumFunctionOnSet(g, V) = SumFunctionOnSet(f, V \cap T)
    BY <1>2, <2>1
  <2>4. SumFunctionOnSet(g, V) \in Int
    <3>1. \A x \in V : g[x] \in Int
      OBVIOUS
    <3> QED
      BY <2>1, <3>1, SumInt
  <2>5. CASE p \in T
    <3>1. /\ IsFiniteSet(U \cap T) /\ p \in U \cap T
          /\ (U \cap T) \ {p} = V \cap T
      BY <2>1, <2>5, FS_Subset
    <3>2. SumFunctionOnSet(f, U \cap T) = f[p] + SumFunctionOnSet(f, (U \cap T) \ {p})
      BY <3>1, SumSplit
    <3>3. g[p] = f[p]
      BY <2>1, <2>5
    <3> HIDE DEF V, p
    <3>4. SumFunctionOnSet(g, U) = SumFunctionOnSet(f, U \cap T)
      BY <2>2, <2>3, <3>1, <3>2, <3>3
    <3> QED
      BY <3>4
  <2>6. CASE p \notin T
    <3>1. V \cap T = U \cap T
      BY <2>6
    <3>2. g[p] = 0
      BY <2>1, <2>6
    <3> HIDE DEF V, p
    <3>3. SumFunctionOnSet(g, U) = SumFunctionOnSet(g, V)
      BY <2>2, <2>4, <3>2
    <3>4. SumFunctionOnSet(g, U) = SumFunctionOnSet(f, U \cap T)
      BY <2>3, <3>1, <3>3
    <3> QED
      BY <3>4
  <2> QED
    BY <2>5, <2>6
<1> HIDE DEF P
<1>3. S \in P
  BY <1>1, <1>2, SetInductionOn
<1> QED
  BY <1>3 DEF P

\* A sum over a set is the sum over a part and the sum over the rest.
LEMMA SumDivide ==
  ASSUME NEW f, NEW S, IsFiniteSet(S), NEW T \in SUBSET S,
         \A x \in S : f[x] \in Int
  PROVE  SumFunctionOnSet(f, S)
           = SumFunctionOnSet(f, T) + SumFunctionOnSet(f, S \ T)
<1> DEFINE in == [x \in S |-> IF x \in T THEN f[x] ELSE 0]
           out == [x \in S |-> IF x \in T THEN 0 ELSE f[x]]
<1>1. S \cap T = T /\ S \cap (S \ T) = S \ T
  OBVIOUS
<1>2. SumFunctionOnSet(in, S) = SumFunctionOnSet(f, S \cap T)
  BY SumPart
<1>3. SumFunctionOnSet(out, S) = SumFunctionOnSet(f, S \cap (S \ T))
  BY SumPart
<1>4. \A x \in S : in[x] \in Int /\ out[x] \in Int /\ f[x] = in[x] + out[x]
  OBVIOUS
<1> HIDE DEF in, out
<1>5. SumFunctionOnSet(f, S) = SumFunctionOnSet(in, S) + SumFunctionOnSet(out, S)
  BY <1>4, SumAdd
<1> QED
  BY <1>1, <1>2, <1>3, <1>5

\* A sum grows with its terms.
LEMMA SumMonotone ==
  ASSUME NEW f, NEW g, NEW S, IsFiniteSet(S),
         \A x \in S : f[x] \in Int /\ g[x] \in Int /\ f[x] <= g[x]
  PROVE  SumFunctionOnSet(f, S) <= SumFunctionOnSet(g, S)
<1> DEFINE h == [x \in S |-> g[x] - f[x]]
<1>1. \A x \in S : h[x] \in Nat /\ g[x] = f[x] + h[x]
  OBVIOUS
<1> HIDE DEF h
<1>2. SumFunctionOnSet(g, S) = SumFunctionOnSet(f, S) + SumFunctionOnSet(h, S)
  BY <1>1, SumAdd
<1>3. SumFunctionOnSet(h, S) \in Nat
  BY <1>1, SumNat
<1>4. SumFunctionOnSet(f, S) \in Int
  BY SumInt
<1> QED
  BY <1>2, <1>3, <1>4

\* The sum of the differences is the difference of the sums.
LEMMA SumSubtract ==
  ASSUME NEW f, NEW g, NEW h, NEW S, IsFiniteSet(S),
         \A x \in S : f[x] \in Int /\ g[x] \in Int /\ h[x] = f[x] - g[x]
  PROVE  SumFunctionOnSet(h, S) = SumFunctionOnSet(f, S) - SumFunctionOnSet(g, S)
<1>1. \A x \in S : h[x] \in Int /\ g[x] \in Int /\ f[x] = h[x] + g[x]
  OBVIOUS
<1>2. SumFunctionOnSet(f, S) = SumFunctionOnSet(h, S) + SumFunctionOnSet(g, S)
  BY <1>1, SumAdd
<1>3. SumFunctionOnSet(h, S) \in Int /\ SumFunctionOnSet(g, S) \in Int
  BY <1>1, SumInt
<1> QED
  BY <1>2, <1>3

-----------------------------------------------------------------------------
(* Sums over parts *)

\* The sets part[k] divide S, and g[k] is the sum of f over part[k].
Parted(S, K, part, f, g) ==
  /\ IsFiniteSet(S) /\ IsFiniteSet(K)
  /\ part \in [K -> SUBSET S]
  /\ \A k, l \in K : k # l => part[k] \cap part[l] = {}
  /\ \A x \in S : \E k \in K : x \in part[k]
  /\ \A x \in S : f[x] \in Int
  /\ \A k \in K : g[k] = SumFunctionOnSet(f, part[k])

\* A sum over a set is the sum of the sums over its parts.
LEMMA SumParts ==
  ASSUME NEW S, NEW K, NEW part, NEW f, NEW g, Parted(S, K, part, f, g)
  PROVE  SumFunctionOnSet(g, K) = SumFunctionOnSet(f, S)
<1>0. /\ IsFiniteSet(S) /\ IsFiniteSet(K)
      /\ part \in [K -> SUBSET S]
      /\ \A k, l \in K : k # l => part[k] \cap part[l] = {}
      /\ \A x \in S : \E k \in K : x \in part[k]
      /\ \A x \in S : f[x] \in Int
      /\ \A k \in K : g[k] = SumFunctionOnSet(f, part[k])
  BY DEF Parted
<1> DEFINE Of(T) == {x \in S : \E k \in T : x \in part[k]}
           P == {T \in SUBSET K : SumFunctionOnSet(g, T) = SumFunctionOnSet(f, Of(T))}
<1>1. {} \in P
  <2>1. Of({}) = {}
    OBVIOUS
  <2> QED
    BY <2>1, SumEmpty
<1>2. ASSUME NEW T \in SUBSET K, T # {}, \A x \in T : T \ {x} \in P
      PROVE  T \in P
  <2>1. PICK k \in T : SumFunctionOnSet(g, T \ {k}) = SumFunctionOnSet(f, Of(T \ {k}))
    BY <1>2
  <2>2. /\ IsFiniteSet(T) /\ IsFiniteSet(Of(T)) /\ IsFiniteSet(Of(T \ {k}))
        /\ \A l \in K : IsFiniteSet(part[l])
    BY <1>0, <1>2, FS_Subset
  <2>3. part[k] \in SUBSET Of(T) /\ Of(T) \ part[k] = Of(T \ {k})
    BY <1>0, <1>2, <2>1
  <2>4. \A x \in Of(T) : f[x] \in Int
    BY <1>0
  <2>5. \A l \in T : g[l] \in Int
    <3> TAKE l \in T
    <3>1. l \in K /\ \A x \in part[l] : f[x] \in Int
      BY <1>0, <1>2
    <3> QED
      BY <1>0, <2>2, <3>1, SumInt
  <2> HIDE DEF Of
  <2>6. SumFunctionOnSet(f, Of(T)) = SumFunctionOnSet(f, part[k]) + SumFunctionOnSet(f, Of(T \ {k}))
    <3>1. SumFunctionOnSet(f, Of(T))
            = SumFunctionOnSet(f, part[k]) + SumFunctionOnSet(f, Of(T) \ part[k])
      BY <2>2, <2>3, <2>4, SumDivide
    <3> QED
      BY <2>3, <3>1
  <2>7. SumFunctionOnSet(g, T) = g[k] + SumFunctionOnSet(g, T \ {k})
    BY <2>2, <2>5, SumSplit
  <2>8. g[k] = SumFunctionOnSet(f, part[k])
    BY <1>0, <1>2, <2>1
  <2> QED
    BY <2>1, <2>6, <2>7, <2>8
<1> HIDE DEF P
<1>3. K \in P
  BY <1>0, <1>1, <1>2, SetInductionOn
<1>4. Of(K) = S
  BY <1>0
<1> QED
  BY <1>3, <1>4 DEF P

-----------------------------------------------------------------------------
(* Lists in order *)

\* The elements of a finite set that a strict total order puts before each of them,
\* before[p] of p, are counted from 0: no two have as many, and no number is skipped.
LEMMA Ranks ==
  ASSUME NEW K, IsFiniteSet(K), NEW before \in [K -> SUBSET K],
         \A p \in K : p \notin before[p],
         \A p, q \in K : p \in before[q] => before[p] \subseteq before[q],
         \A p, q \in K : p # q => p \in before[q] \/ q \in before[p]
  PROVE  /\ Cardinality(K) \in Nat
         /\ \A p \in K : Cardinality(before[p]) + 1 \in 1 .. Cardinality(K)
         /\ \A p, q \in K : Cardinality(before[p]) = Cardinality(before[q]) => p = q
         /\ \A i \in 1 .. Cardinality(K) : \E p \in K : Cardinality(before[p]) + 1 = i
<1> DEFINE n == Cardinality(K)
           place == [p \in K |-> Cardinality(before[p]) + 1]
<1>1. n \in Nat
  BY FS_CardinalityType
<1>2. ASSUME NEW S \in SUBSET K, NEW T \in SUBSET K, S \subseteq T, S # T
      PROVE  Cardinality(S) \in Nat /\ Cardinality(T) \in Nat
             /\ Cardinality(S) < Cardinality(T)
  <2>1. IsFiniteSet(T) /\ IsFiniteSet(S)
    BY FS_Subset
  <2>2. Cardinality(S) \in Nat /\ Cardinality(T) \in Nat
    BY <2>1, FS_CardinalityType
  <2>3. S \in SUBSET T
    BY <1>2
  <2>4. Cardinality(S) <= Cardinality(T) /\ Cardinality(S) # Cardinality(T)
    BY <1>2, <2>1, <2>3, FS_Subset
  <2> QED
    BY <2>2, <2>4
<1> HIDE DEF n
<1>3. ASSUME NEW p \in K PROVE place[p] \in 1 .. n
  <2>1. before[p] \in SUBSET K /\ before[p] # K
    OBVIOUS
  <2>2. Cardinality(before[p]) \in Nat /\ Cardinality(before[p]) < n
    BY <1>2, <2>1 DEF n
  <2> QED
    BY <1>1, <2>2
<1>4. ASSUME NEW p \in K, NEW q \in K, p # q
      PROVE  Cardinality(before[p]) # Cardinality(before[q])
  <2>1. CASE p \in before[q]
    <3>1. before[p] \subseteq before[q] /\ before[p] # before[q]
      BY <2>1
    <3> QED
      BY <1>2, <3>1
  <2>2. CASE q \in before[p]
    <3>1. before[q] \subseteq before[p] /\ before[p] # before[q]
      BY <2>2
    <3> QED
      BY <1>2, <3>1
  <2> QED
    BY <1>4, <2>1, <2>2
<1>5. \A p \in K : Cardinality(before[p]) \in Nat
  BY <1>2, FS_Subset, FS_CardinalityType
<1>6. place \in Injection(K, 1 .. n)
  <2>1. place \in [K -> 1 .. n]
    BY <1>3
  <2>2. \A p, q \in K : place[p] = place[q] => p = q
    BY <1>4, <1>5
  <2> QED
    BY <2>1, <2>2 DEF Injection, IsInjective
<1>7. IsFiniteSet(1 .. n) /\ Cardinality(1 .. n) = n
  BY <1>1, FS_Interval
<1>8. place \in Surjection(K, 1 .. n)
  BY <1>6, <1>7, FS_Injection DEF n
<1>9. \A i \in 1 .. n : \E p \in K : place[p] = i
  BY <1>8 DEF Surjection
<1> QED
  BY <1>1, <1>3, <1>4, <1>9 DEF n

\* A function of the numbers from 1 is a sequence.
LEMMA FunctionIsSeq ==
  ASSUME NEW S, NEW n \in Nat, NEW f \in [1 .. n -> S]
  PROVE  f \in Seq(S) /\ Len(f) = n /\ DOMAIN f = 1 .. n
OBVIOUS

\* A sequence of some values is one of more values.
LEMMA SeqGrows ==
  ASSUME NEW S, NEW T, S \subseteq T, NEW s \in Seq(S)
  PROVE  s \in Seq(T)
OBVIOUS

\* The pairs of a key and a number that come before p, and the list in that order,
\* as OrderedBy makes it with < for the keys.
Ahead(K, p) ==
  {q \in K : \/ q[1] < p[1]
             \/ q[2] < p[2] /\ ~(p[1] < q[1])}

\* The second components of n pairs, in that order.
ListOf(K, n) ==
  [i \in 1 .. n |-> (CHOOSE p \in K : Cardinality(Ahead(K, p)) + 1 = i)[2]]

\* list holds the elements of S, each of them once.
Lists(list, S) ==
  /\ list \in Seq(S) /\ Len(list) = Cardinality(S)
  /\ DOMAIN list = 1 .. Cardinality(S)
  /\ \A x \in S : \E i \in DOMAIN list : list[i] = x
  /\ \A i, j \in DOMAIN list : list[i] = list[j] => i = j

\* list is S in a strict total order of the pairs of a key and an element: before[p]
\* are the pairs that come before p, and at[i] is a pair with i - 1 before it.
Ranked(list, S, key, K, before, at) ==
  /\ IsFiniteSet(S)
  /\ K = {<<key[x], x>> : x \in S}
  /\ before \in [K -> SUBSET K]
  /\ \A p \in K : p \notin before[p]
  /\ \A p, q \in K : p \in before[q] => before[p] \subseteq before[q]
  /\ \A p, q \in K : p # q => p \in before[q] \/ q \in before[p]
  /\ \A i \in 1 .. Cardinality(S) :
       (\E p \in K : Cardinality(before[p]) + 1 = i)
         => at[i] \in K /\ Cardinality(before[at[i]]) + 1 = i
  /\ list = [i \in 1 .. Cardinality(S) |-> at[i][2]]

\* It holds every element, each once, and nothing comes before the first.
LEMMA RankedListed ==
  ASSUME NEW S, NEW key, NEW K, NEW before, NEW at, NEW list,
         Ranked(list, S, key, K, before, at)
  PROVE  /\ Lists(list, S)
         /\ S # {} => /\ 1 \in DOMAIN list
                      /\ \A x \in S : <<key[x], x>> \notin before[<<key[list[1]], list[1]>>]
<1> DEFINE n == Cardinality(S)
<1>0. /\ IsFiniteSet(S) /\ K = {<<key[x], x>> : x \in S}
      /\ before \in [K -> SUBSET K]
      /\ \A p \in K : p \notin before[p]
      /\ \A p, q \in K : p \in before[q] => before[p] \subseteq before[q]
      /\ \A p, q \in K : p # q => p \in before[q] \/ q \in before[p]
  BY DEF Ranked
<1>1. \A p \in K : p[2] \in S /\ p = <<key[p[2]], p[2]>>
  BY <1>0
<1>2. \A x \in S : <<key[x], x>> \in K
  BY <1>0
<1>3. IsFiniteSet(K) /\ Cardinality(K) = n
  <2> DEFINE f == [x \in S |-> <<key[x], x>>]
  <2>1. f \in Bijection(S, K)
    BY <1>0 DEF Bijection, Injection, Surjection, IsInjective
  <2>2. ExistsBijection(S, K)
    BY <2>1 DEF ExistsBijection
  <2> QED
    BY <1>0, <2>2, FS_Bijection
<1> HIDE DEF n
<1>4. /\ n \in Nat
      /\ \A p \in K : Cardinality(before[p]) + 1 \in 1 .. n
      /\ \A p, q \in K : Cardinality(before[p]) = Cardinality(before[q]) => p = q
      /\ \A i \in 1 .. n : \E p \in K : Cardinality(before[p]) + 1 = i
  BY <1>0, <1>3, Ranks
<1>5. \A i \in 1 .. n : at[i] \in K /\ Cardinality(before[at[i]]) + 1 = i
  BY <1>4 DEF n, Ranked
<1>6. \A p \in K : IsFiniteSet(before[p]) /\ Cardinality(before[p]) \in Nat
  BY <1>0, <1>3, FS_Subset, FS_CardinalityType
<1>7. list = [i \in 1 .. n |-> at[i][2]]
  BY DEF n, Ranked
<1>8. list \in Seq(S) /\ Len(list) = n /\ DOMAIN list = 1 .. n
  <2>1. list \in [1 .. n -> S]
    <3>1. \A i \in 1 .. n : at[i][2] \in S
      BY <1>1, <1>5
    <3> QED
      BY <1>7, <3>1
  <2> QED
    BY <1>4, <2>1, FunctionIsSeq
<1>9. ASSUME NEW x \in S PROVE \E i \in 1 .. n : list[i] = x
  <2> DEFINE p == <<key[x], x>>
  <2>1. p \in K /\ p[2] = x
    BY <1>2
  <2> HIDE DEF p
  <2>2. PICK i \in 1 .. n : i = Cardinality(before[p]) + 1
    BY <1>4, <2>1
  <2>3. at[i] = p
    <3>1. at[i] \in K /\ Cardinality(before[at[i]]) = Cardinality(before[p])
      BY <1>5, <1>6, <2>1, <2>2
    <3> QED
      BY <1>4, <2>1, <3>1
  <2> QED
    BY <1>7, <2>1, <2>2, <2>3
<1>10. ASSUME NEW i \in 1 .. n, NEW j \in 1 .. n, list[i] = list[j] PROVE i = j
  <2>1. at[i][2] = at[j][2] /\ at[i] \in K /\ at[j] \in K
    BY <1>5, <1>7, <1>10
  <2>2. at[i] = at[j]
    BY <1>1, <2>1
  <2> QED
    BY <1>5, <2>2
<1>11. ASSUME S # {}
       PROVE  /\ 1 \in DOMAIN list
              /\ \A x \in S : <<key[x], x>> \notin before[<<key[list[1]], list[1]>>]
  <2>1. 1 \in 1 .. n
    BY <1>4, <1>9, <1>11
  <2>2. at[1] \in K /\ Cardinality(before[at[1]]) = 0
    BY <1>5, <1>6, <2>1
  <2>3. before[at[1]] = {}
    BY <1>6, <2>2, FS_EmptySet
  <2>4. at[1] = <<key[list[1]], list[1]>>
    BY <1>1, <1>7, <2>1, <2>2
  <2> QED
    BY <1>8, <2>1, <2>3, <2>4
<1> QED
  BY <1>8, <1>9, <1>10, <1>11 DEF n, Lists

\* The list of a finite set of numbers by an integer key holds each of them once.
LEMMA KeyedListed ==
  ASSUME NEW S \in SUBSET Nat, IsFiniteSet(S), NEW key \in [S -> Int],
         NEW K, K = {<<key[x], x>> : x \in S},
         NEW list, list = ListOf(K, Cardinality(S))
  PROVE  Lists(list, S)
<1> DEFINE before == [p \in K |-> Ahead(K, p)]
           n == Cardinality(S)
           at == [i \in 1 .. n |-> CHOOSE p \in K : Cardinality(Ahead(K, p)) + 1 = i]
<1>1. \A p \in K : p[2] \in Nat /\ p[1] = key[p[2]] /\ p[1] \in Int
  OBVIOUS
<1>2. list = [i \in 1 .. n |-> at[i][2]]
  BY DEF ListOf
<1>3. \A p, q \in K : q \in before[p] <=> q[1] < p[1] \/ (q[2] < p[2] /\ ~(p[1] < q[1]))
  BY DEF Ahead
<1>4. before \in [K -> SUBSET K] /\ \A p \in K : Ahead(K, p) = before[p]
  BY DEF Ahead
<1>5. \A i \in 1 .. n : (\E p \in K : Cardinality(before[p]) + 1 = i)
         => at[i] \in K /\ Cardinality(before[at[i]]) + 1 = i
  <2> SUFFICES ASSUME NEW i \in 1 .. n, \E p \in K : Cardinality(before[p]) + 1 = i
               PROVE  at[i] \in K /\ Cardinality(before[at[i]]) + 1 = i
    OBVIOUS
  <2>1. at[i] = CHOOSE p \in K : Cardinality(Ahead(K, p)) + 1 = i
    OBVIOUS
  <2> HIDE DEF before, at
  <2>2. \E p \in K : Cardinality(Ahead(K, p)) + 1 = i
    BY <1>4
  <2>3. at[i] \in K /\ Cardinality(Ahead(K, at[i])) + 1 = i
    BY <2>1, <2>2, Zenon
  <2> QED
    BY <1>4, <2>3
<1> HIDE DEF before, at
<1>6. \A p \in K : p \notin before[p]
  BY <1>1, <1>3
<1>7. ASSUME NEW p \in K, NEW q \in K, p \in before[q] PROVE before[p] \subseteq before[q]
  <2> SUFFICES ASSUME NEW x \in before[p] PROVE x \in before[q]
    OBVIOUS
  <2>1. x \in K
    BY <1>4
  <2>2. /\ p[1] \in Int /\ q[1] \in Int /\ x[1] \in Int
        /\ p[2] \in Nat /\ q[2] \in Nat /\ x[2] \in Nat
    BY <1>1, <2>1
  <2>3. p[1] < q[1] \/ (p[2] < q[2] /\ ~(q[1] < p[1]))
    BY <1>3, <1>7
  <2>4. x[1] < p[1] \/ (x[2] < p[2] /\ ~(p[1] < x[1]))
    BY <1>3, <2>1
  <2>5. x[1] < q[1] \/ (x[2] < q[2] /\ ~(q[1] < x[1]))
    BY <2>2, <2>3, <2>4
  <2> QED
    BY <1>3, <2>1, <2>5
<1>8. ASSUME NEW p \in K, NEW q \in K, p # q PROVE p \in before[q] \/ q \in before[p]
  <2>1. p[1] \in Int /\ q[1] \in Int /\ p[2] \in Nat /\ q[2] \in Nat
    BY <1>1
  <2>2. p[2] # q[2]
    BY <1>1, <1>8
  <2> QED
    BY <1>3, <2>1, <2>2
<1> QED
  <2>1. Ranked(list, S, key, K, before, at)
    BY <1>2, <1>4, <1>5, <1>6, <1>7, <1>8 DEF Ranked
  <2> QED
    BY <2>1, RankedListed

\* So does the list of numbers the controllers go by.
LEMMA Numbers ==
  ASSUME NEW S \in SUBSET Nat, IsFiniteSet(S)
  PROVE  Lists(ByNumber(S), S)
<1> DEFINE key == [x \in S |-> x]
           K == {<<x, x>> : x \in S}
<1>1. key \in [S -> Int] /\ K = {<<key[x], x>> : x \in S}
  OBVIOUS
<1>2. ByNumber(S) = ListOf(K, Cardinality(S))
  BY DEF ByNumber, OrderedBy, ListOf, Ahead
<1> HIDE DEF key, K
<1> QED
  BY <1>1, <1>2, KeyedListed

-----------------------------------------------------------------------------
(* The ring of the cohorts that are done *)

\* An entry of the ring.
Entry ==
  [cohort : Nat, count : Nat, status : {"COMPLETED", "ABANDONED"}, tick : Nat]

\* Every entry of the ring was done by this time.
DoneBy(q, t) == \A k \in DOMAIN q : q[k].tick <= t

\* The places of the entries that Tally adds up.
Places(q, c, status, since) ==
  {k \in DOMAIN q : q[k].cohort = c /\ q[k].status = status /\ q[k].tick >= since}

\* The tally of a ring is the sum over these places of a finite sequence.
LEMMA TallyIs ==
  ASSUME NEW q \in Seq(Entry), NEW c, NEW status, NEW since
  PROVE  /\ Tally(q, c, status, since)
             = SumFunctionOnSet([k \in DOMAIN q |-> q[k].count], Places(q, c, status, since))
         /\ IsFiniteSet(Places(q, c, status, since))
         /\ \A k \in DOMAIN q : [i \in DOMAIN q |-> q[i].count][k] \in Nat
<1>1. IsFiniteSet(DOMAIN q)
  <2>1. DOMAIN q = 1 .. Len(q) /\ Len(q) \in Nat
    OBVIOUS
  <2> QED
    BY <2>1, FS_Interval
<1>2. IsFiniteSet(Places(q, c, status, since))
  BY <1>1, FS_Subset DEF Places
<1>3. \A k \in DOMAIN q : q[k] \in Entry
  OBVIOUS
<1>4. \A k \in DOMAIN q : q[k].count \in Nat
  BY <1>3 DEF Entry
<1> QED
  BY <1>2, <1>4 DEF Tally, Places

\* A tally is a number of passengers.
LEMMA TallyNat ==
  ASSUME NEW q \in Seq(Entry), NEW c, NEW status, NEW since
  PROVE  Tally(q, c, status, since) \in Nat
<1> DEFINE f == [k \in DOMAIN q |-> q[k].count]
           S == Places(q, c, status, since)
<1>1. /\ Tally(q, c, status, since) = SumFunctionOnSet(f, S)
      /\ IsFiniteSet(S) /\ \A k \in DOMAIN q : f[k] \in Nat
  BY TallyIs
<1>2. S \subseteq DOMAIN q
  BY DEF Places
<1> HIDE DEF f, S
<1> QED
  BY <1>1, <1>2, SumNat

\* p is q with an entry for each element of list, who are done now in this way.
Pushed(p, q, list, n, st) ==
  /\ p \in Seq(Entry) /\ q \in Seq(Entry)
  /\ Len(q) \in Nat /\ Len(p) = Len(q) + Len(list) /\ Len(list) \in Nat
  /\ DOMAIN p = 1 .. Len(p) /\ DOMAIN q = 1 .. Len(q) /\ DOMAIN list = 1 .. Len(list)
  /\ \A k \in 1 .. Len(q) : p[k] = q[k]
  /\ \A i \in 1 .. Len(list) :
        p[Len(q) + i] = [cohort |-> list[i], count |-> n[list[i]], status |-> st, tick |-> now]

\* p is q and then e.
IsJoin(p, q, e) ==
  /\ Len(p) = Len(q) + Len(e) /\ Len(q) \in Nat /\ Len(e) \in Nat
  /\ DOMAIN p = 1 .. Len(p) /\ DOMAIN q = 1 .. Len(q)
  /\ \A k \in 1 .. Len(q) : p[k] = q[k]
  /\ \A i \in 1 .. Len(e) : p[Len(q) + i] = e[i]

\* So it is with \o.
LEMMA JoinIs ==
  ASSUME NEW T, NEW q \in Seq(T), NEW e \in Seq(T)
  PROVE  q \o e \in Seq(T) /\ IsJoin(q \o e, q, e)
<1> DEFINE p == q \o e
<1>1. p \in Seq(T) /\ Len(p) = Len(q) + Len(e) /\ Len(q) \in Nat /\ Len(e) \in Nat
  OBVIOUS
<1>2. DOMAIN p = 1 .. Len(p) /\ DOMAIN q = 1 .. Len(q)
  BY <1>1
<1>3. \A k \in 1 .. Len(q) : p[k] = q[k]
  OBVIOUS
<1>4. \A i \in 1 .. Len(e) : p[Len(q) + i] = e[i]
  OBVIOUS
<1> HIDE DEF p
<1>5. IsJoin(p, q, e)
  BY <1>1, <1>2, <1>3, <1>4 DEF IsJoin
<1> QED
  BY <1>1, <1>5 DEF p

\* push_recent_finished is a push.
LEMMA PushIs ==
  ASSUME NEW q \in Seq(Entry), NEW S \in SUBSET Nat, NEW list, Lists(list, S),
         NEW n, \A c \in S : n[c] \in Nat, now \in Nat,
         NEW st \in {"COMPLETED", "ABANDONED"}, NEW p, p = q \o Finished(list, n, st)
  PROVE  Pushed(p, q, list, n, st)
<1> DEFINE e == Finished(list, n, st)
<1>1. list \in Seq(S) /\ DOMAIN list = 1 .. Len(list) /\ Len(list) \in Nat
  BY DEF Lists
<1>2. e = [i \in 1 .. Len(list) |->
             [cohort |-> list[i], count |-> n[list[i]], status |-> st, tick |-> now]]
  BY <1>1 DEF Finished, Each
<1> HIDE DEF e
<1>3. \A i \in 1 .. Len(list) :
        [cohort |-> list[i], count |-> n[list[i]], status |-> st, tick |-> now] \in Entry
  <2> TAKE i \in 1 .. Len(list)
  <2>1. list[i] \in S
    BY <1>1
  <2>2. list[i] \in Nat /\ n[list[i]] \in Nat
    BY <2>1
  <2> QED
    BY <2>2 DEF Entry
<1>4. e \in [1 .. Len(list) -> Entry]
  BY <1>2, <1>3
<1>5. e \in Seq(Entry) /\ Len(e) = Len(list)
  BY <1>1, <1>4, FunctionIsSeq
<1>6. p = q \o e
  BY DEF e
<1>7. p \in Seq(Entry) /\ IsJoin(p, q, e)
  BY <1>5, <1>6, JoinIs
<1> QED
  BY <1>1, <1>2, <1>5, <1>7 DEF Pushed, IsJoin

\* A push adds to the tally of a cohort those of it who were pushed.
LEMMA Pushing ==
  ASSUME NEW p, NEW q, NEW list, NEW S \in SUBSET Nat, Lists(list, S), NEW n,
         NEW st, Pushed(p, q, list, n, st), now \in Nat,
         NEW c, NEW since \in Int, since <= now
  PROVE  /\ c \in S => Tally(p, c, st, since) = Tally(q, c, st, since) + n[c]
         /\ c \notin S => Tally(p, c, st, since) = Tally(q, c, st, since)
         /\ \A s : s # st => Tally(p, c, s, since) = Tally(q, c, s, since)
<1> DEFINE m == Len(q)
           f == [k \in DOMAIN p |-> p[k].count]
           g == [k \in DOMAIN q |-> q[k].count]
           A(s) == Places(p, c, s, since)
           B(s) == Places(q, c, s, since)
<1>0. /\ p \in Seq(Entry) /\ q \in Seq(Entry) /\ m \in Nat
      /\ DOMAIN p = 1 .. m + Len(list) /\ DOMAIN q = 1 .. m /\ Len(list) \in Nat
      /\ \A k \in 1 .. m : p[k] = q[k]
      /\ \A i \in 1 .. Len(list) :
            p[m + i] = [cohort |-> list[i], count |-> n[list[i]], status |-> st, tick |-> now]
  BY DEF Pushed
<1>a. ASSUME NEW i \in 1 .. Len(list)
      PROVE  /\ m + i \in DOMAIN p /\ p[m + i].cohort = list[i]
             /\ p[m + i].count = n[list[i]]
             /\ p[m + i].status = st /\ p[m + i].tick = now
  <2>1. p[m + i] = [cohort |-> list[i], count |-> n[list[i]], status |-> st, tick |-> now]
    BY <1>0, Zenon
  <2>2. m + i \in DOMAIN p
    <3> HIDE DEF m
    <3> QED
      BY <1>0
  <2> QED
    BY <2>1, <2>2
<1>1. ASSUME NEW s
      PROVE  /\ Tally(p, c, s, since) = SumFunctionOnSet(f, A(s))
             /\ Tally(q, c, s, since) = SumFunctionOnSet(g, B(s))
             /\ IsFiniteSet(A(s)) /\ IsFiniteSet(B(s))
             /\ (\A k \in DOMAIN p : f[k] \in Nat) /\ (\A k \in DOMAIN q : g[k] \in Nat)
  BY <1>0, TallyIs
<1>2. ASSUME NEW s PROVE SumFunctionOnSet(f, B(s)) = SumFunctionOnSet(g, B(s))
  <2>1. \A k \in B(s) : f[k] = g[k]
    BY <1>0 DEF Places
  <2>2. IsFiniteSet(B(s))
    BY <1>1
  <2> HIDE DEF f, g, B
  <2> QED
    BY <2>1, <2>2, SumEqual
<1>3. ASSUME NEW s
      PROVE  A(s) = B(s) \cup {m + i : i \in {j \in 1 .. Len(list) : list[j] = c /\ s = st}}
  <2>1. \A k \in 1 .. m + Len(list) : k \in 1 .. m \/ \E i \in 1 .. Len(list) : k = m + i
    <3> TAKE k \in 1 .. m + Len(list)
    <3>1. CASE k <= m
      BY <1>0, <3>1
    <3>2. CASE ~(k <= m)
      <4>1. k - m \in 1 .. Len(list) /\ k = m + (k - m)
        BY <1>0, <3>2
      <4> QED
        BY <4>1
    <3> QED
      BY <3>1, <3>2
  <2>2. ASSUME NEW k \in 1 .. m PROVE k \in DOMAIN p /\ (k \in A(s) <=> k \in B(s))
    <3>1. k \in DOMAIN p /\ k \in DOMAIN q /\ p[k] = q[k]
      BY <1>0
    <3> QED
      BY <3>1 DEF Places
  <2>3. ASSUME NEW i \in 1 .. Len(list)
        PROVE  m + i \in A(s) <=> list[i] = c /\ s = st
    <3>1. /\ m + i \in DOMAIN p /\ p[m + i].cohort = list[i]
          /\ p[m + i].status = st /\ p[m + i].tick = now
      BY <1>a, Zenon
    <3> QED
      BY <3>1 DEF Places
  <2>4. A(s) \subseteq 1 .. m + Len(list) /\ B(s) \subseteq 1 .. m
    BY <1>0 DEF Places
  <2> HIDE DEF A, B, m
  <2> QED
    BY <2>1, <2>2, <2>3, <2>4
<1>4. ASSUME NEW s, s # st \/ c \notin S PROVE A(s) = B(s)
  <2>1. \A j \in 1 .. Len(list) : list[j] \in S
    BY DEF Lists
  <2>2. {j \in 1 .. Len(list) : list[j] = c /\ s = st} = {}
    BY <1>4, <2>1
  <2> HIDE DEF A, B, m
  <2> QED
    BY <1>3, <2>2
<1>5. ASSUME c \in S PROVE Tally(p, c, st, since) = Tally(q, c, st, since) + n[c]
  <2>1. PICK i \in 1 .. Len(list) : list[i] = c
    BY <1>5 DEF Lists
  <2>2. \A j \in 1 .. Len(list) : list[j] = c <=> j = i
    BY <2>1 DEF Lists
  <2>3. {j \in 1 .. Len(list) : list[j] = c /\ st = st} = {i}
    BY <2>1, <2>2
  <2>4. A(st) = B(st) \cup {m + i} /\ m + i \notin B(st)
    <3>1. A(st) = B(st) \cup {m + j : j \in {i}}
      BY <1>3, <2>3
    <3>2. m + i \notin B(st)
      BY <1>0 DEF Places
    <3> HIDE DEF A, B, m
    <3> QED
      BY <3>1, <3>2
  <2>5. m + i \in DOMAIN p /\ f[m + i] = n[c] /\ A(st) \subseteq DOMAIN p
    <3>1. m + i \in DOMAIN p /\ p[m + i].count = n[c]
      BY <1>a, <2>1, Zenon
    <3> HIDE DEF m
    <3> QED
      BY <3>1 DEF Places
  <2>6. IsFiniteSet(A(st)) /\ (\A k \in DOMAIN p : f[k] \in Nat)
    BY <1>1
  <2>7. SumFunctionOnSet(f, A(st)) = f[m + i] + SumFunctionOnSet(f, A(st) \ {m + i})
    <3>1. \A k \in A(st) : f[k] \in Int
      BY <2>5, <2>6
    <3>2. m + i \in A(st)
      BY <2>4
    <3> HIDE DEF A, f, m
    <3> QED
      BY <2>6, <3>1, <3>2, SumSplit
  <2>8. A(st) \ {m + i} = B(st)
    BY <2>4
  <2>9. Tally(q, c, st, since) \in Nat
    BY <1>0, TallyNat
  <2>10. n[c] \in Nat
    BY <2>5, <2>6
  <2> HIDE DEF A, B, f, g, m
  <2> QED
    <3>1. /\ Tally(p, c, st, since) = SumFunctionOnSet(f, A(st))
          /\ Tally(q, c, st, since) = SumFunctionOnSet(g, B(st))
      BY <1>1, Zenon
    <3>2. SumFunctionOnSet(f, B(st)) = SumFunctionOnSet(g, B(st))
      BY <1>2, Zenon
    <3>3. SumFunctionOnSet(f, A(st)) = n[c] + SumFunctionOnSet(f, B(st))
      BY <2>5, <2>7, <2>8, Zenon
    <3> QED
      BY <2>5, <2>7, <2>8, <2>9, <2>10, <3>1, <3>2, <3>3
<1>6. ASSUME NEW s, s # st \/ c \notin S PROVE Tally(p, c, s, since) = Tally(q, c, s, since)
  <2>1. A(s) = B(s)
    BY <1>4, <1>6
  <2> HIDE DEF A, B, f, g, m
  <2> QED
    BY <1>1, <1>2, <2>1
<1> QED
  BY <1>5, <1>6

\* What was pushed is done now.
LEMMA PushedBy ==
  ASSUME NEW p, NEW q, NEW list, NEW n, NEW st, Pushed(p, q, list, n, st), now \in Nat,
         DoneBy(q, now)
  PROVE  DoneBy(p, now)
<1> SUFFICES ASSUME NEW k \in DOMAIN p PROVE p[k].tick <= now
  BY DEF DoneBy
<1>1. k \in 1 .. Len(q) + Len(list) /\ Len(q) \in Nat /\ Len(list) \in Nat
  BY DEF Pushed
<1>2. CASE k <= Len(q)
  <2>1. p[k] = q[k] /\ k \in DOMAIN q
    BY <1>1, <1>2 DEF Pushed
  <2> QED
    BY <2>1 DEF DoneBy
<1>3. CASE ~(k <= Len(q))
  <2>1. k - Len(q) \in 1 .. Len(list) /\ Len(q) + (k - Len(q)) = k
    BY <1>1, <1>3
  <2>2. \A i \in 1 .. Len(list) : p[Len(q) + i]
          = [cohort |-> list[i], count |-> n[list[i]], status |-> st, tick |-> now]
    BY Zenon DEF Pushed
  <2>3. PICK i \in 1 .. Len(list) : Len(q) + i = k
    BY <2>1
  <2>4. p[k] = [cohort |-> list[i], count |-> n[list[i]], status |-> st, tick |-> now]
    BY <2>2, <2>3, Zenon
  <2> QED
    BY <2>4
<1> QED
  BY <1>2, <1>3

-----------------------------------------------------------------------------
(* The tables of the passengers, and what each operation does to each of them *)

\* The cached counters of the engine.
Counters ==
  [generated : Int, waiting : Int, onboard : Int, completed : Int,
   abandoned : Int]

\* The passengers' tables: a row per cohort, a row per bus and cohort, and the load
\* of each bus within the capacity.
Riders ==
  [waiting : [Cohort -> Nat], aboard : [Bus -> [Cohort -> Nat]],
   completed : [Cohort -> Nat], abandoned : [Cohort -> Nat],
   denied : [Cohort -> BOOLEAN], boardedAt : [Bus -> [Cohort -> Nat]],
   waited : [Cohort -> [0 .. Horizon -> Nat]],
   rode : [Cohort -> [0 .. Horizon -> Nat]],
   branded : Nat, totals : Counters,
   billed : [denied : Nat, abandoned : Nat, unfinished : Nat],
   load : [Bus -> 0 .. Capacity], recent : Seq(Entry)]

\* The cohorts of a day are a finite set of valid ones.
LEMMA DayFacts ==
  ASSUME day \in Days
  PROVE  /\ Cohort = 1 .. Len(day.arrivals) /\ Len(day.arrivals) \in Nat
         /\ IsFiniteSet(Cohort)
         /\ \A c \in Cohort : Trip(c) \in CohortType
         /\ \A c \in Cohort : ValidCohort(Trip(c))
<1>1. ValidDay(day)
  BY DayAssumption
<1>2. day.arrivals \in Seq(CohortType)
  BY <1>1 DEF ValidDay
<1>3. Cohort = 1 .. Len(day.arrivals) /\ Len(day.arrivals) \in Nat
  BY <1>2 DEF Cohort
<1>4. IsFiniteSet(Cohort)
  BY <1>3, FS_Interval
<1> QED
  BY <1>1, <1>2, <1>3, <1>4 DEF ValidDay, Trip, Cohort

\* The sum over a function's domain.
LEMMA SumWhole == ASSUME NEW f, NEW S, DOMAIN f = S
                  PROVE SumFunction(f) = SumFunctionOnSet(f, S)
BY DEF SumFunction

\* Writing times down keeps a table of times a table of times.
LEMMA TickedType ==
  ASSUME NEW rec \in [Cohort -> [0 .. Horizon -> Nat]],
         NEW n \in [Cohort -> Nat], NEW w
  PROVE  Ticked(rec, n, w) \in [Cohort -> [0 .. Horizon -> Nat]]
<1> SUFFICES ASSUME NEW c \in Cohort
             PROVE [rec[c] EXCEPT ![w[c]] = @ + n[c]] \in [0 .. Horizon -> Nat]
  BY DEF Ticked
<1> DEFINE x == w[c]
           m == n[c]
           r == rec[c]
<1>1. r \in [0 .. Horizon -> Nat] /\ m \in Nat
  OBVIOUS
<1> HIDE DEF x, m, r
<1>2. CASE x \in 0 .. Horizon
  <2>1. r[x] + m \in Nat
    BY <1>1, <1>2
  <2>2. [r EXCEPT ![x] = @ + m] \in [0 .. Horizon -> Nat]
    BY <1>1, <2>1
  <2> QED
    BY <2>2 DEF r, m, x
<1>3. CASE x \notin 0 .. Horizon
  <2>1. [r EXCEPT ![x] = @ + m] = r
    BY <1>1, <1>3
  <2> QED
    BY <1>1, <2>1 DEF r, m, x
<1> QED
  BY <1>2, <1>3

\* Q is R after the riders off have got off bus b, a field at a time.
AlightStep(Q, R, b, off) ==
  /\ Q.waiting = R.waiting
  /\ Q.aboard = [R.aboard EXCEPT ![b] = [c \in Cohort |-> R.aboard[b][c] - off[c]]]
  /\ Q.completed = [c \in Cohort |-> R.completed[c] + off[c]]
  /\ Q.abandoned = R.abandoned
  /\ Q.denied = R.denied
  /\ Q.boardedAt = R.boardedAt
  /\ Q.waited = R.waited
  /\ Q.rode = Ticked(R.rode, off, [c \in Cohort |-> now - R.boardedAt[b][c]])
  /\ Q.branded = R.branded
  /\ Q.totals = [R.totals EXCEPT !.onboard = @ - SumFunction(off),
                                 !.completed = @ + SumFunction(off)]
  /\ Q.billed = R.billed
  /\ Q.load = [R.load EXCEPT ![b] = @ - SumFunction(off)]
  /\ Q.recent = R.recent \o Finished(Passengers(R, b, {c \in Cohort : off[c] > 0}),
                                     off, "COMPLETED")

\* alight does what AlightStep says.
LEMMA AlightFields ==
  ASSUME NEW R \in Riders, NEW b \in Bus, NEW stop,
         NEW Q, Q = Alight(R, b, stop),
         NEW off, off = GettingOff(R, b, stop)
  PROVE  AlightStep(Q, R, b, off)
<1>1. Q = [waiting |-> R.waiting,
           aboard |-> [R.aboard EXCEPT ![b] = [c \in Cohort |-> R.aboard[b][c] - off[c]]],
           completed |-> [c \in Cohort |-> R.completed[c] + off[c]],
           abandoned |-> R.abandoned,
           denied |-> R.denied,
           boardedAt |-> R.boardedAt,
           waited |-> R.waited,
           rode |-> Ticked(R.rode, off, [c \in Cohort |-> now - R.boardedAt[b][c]]),
           branded |-> R.branded,
           totals |-> [R.totals EXCEPT !.onboard = @ - SumFunction(off),
                                        !.completed = @ + SumFunction(off)],
           billed |-> R.billed,
           load |-> [R.load EXCEPT ![b] = @ - SumFunction(off)],
           recent |-> R.recent \o Finished(Passengers(R, b, {c \in Cohort : off[c] > 0}),
                                           off, "COMPLETED")]
  BY Zenon DEF Alight, Riders
<1> QED
  BY <1>1 DEF AlightStep

\* Q is R after the riders take have boarded bus b and the cohorts left have been
\* refused, a field at a time.
BoardStep(Q, R, b, take, left, refused) ==
  /\ Q.waiting = [c \in Cohort |-> R.waiting[c] - take[c]]
  /\ Q.aboard = [R.aboard EXCEPT ![b] = [c \in Cohort |-> R.aboard[b][c] + take[c]]]
  /\ Q.completed = R.completed
  /\ Q.abandoned = R.abandoned
  /\ Q.denied = [c \in Cohort |-> R.denied[c] \/ c \in left]
  /\ Q.boardedAt = [R.boardedAt EXCEPT ![b] = [c \in Cohort |->
                      IF take[c] > 0 THEN now ELSE R.boardedAt[b][c]]]
  /\ Q.waited = Ticked(R.waited, take, Ages)
  /\ Q.rode = R.rode
  /\ Q.branded = R.branded + Marked(R, take)
  /\ Q.totals = [R.totals EXCEPT !.waiting = @ - SumFunction(take),
                                 !.onboard = @ + SumFunction(take)]
  /\ Q.billed = [R.billed EXCEPT !.denied = @ + refused]
  /\ Q.load = [R.load EXCEPT ![b] = @ + SumFunction(take)]
  /\ Q.recent = R.recent

\* board does what BoardStep says.
LEMMA BoardFields ==
  ASSUME NEW R \in Riders, NEW b \in Bus, NEW v,
         NEW Q, Q = Board(R, b, v),
         NEW take, take = Taken(R, b, v),
         NEW left, left = {c \in Cohort : Eligible(R, v, c) /\ R.waiting[c] > take[c]},
         NEW refused,
         refused = SumFunctionOnSet([c \in Cohort |-> R.waiting[c] - take[c]],
                                    NewlyDenied(R, left))
  PROVE  BoardStep(Q, R, b, take, left, refused)
BY DEF Board, Riders, BoardStep

\* Q is R after the n passengers of the newcomers have come.
ArriveStep(Q, R, n) ==
  /\ Q.waiting = [c \in Cohort |->
         IF c \in Newcomers THEN Trip(c).count ELSE R.waiting[c]]
  /\ Q.aboard = R.aboard
  /\ Q.completed = R.completed
  /\ Q.abandoned = R.abandoned
  /\ Q.denied = R.denied
  /\ Q.boardedAt = R.boardedAt
  /\ Q.waited = R.waited
  /\ Q.rode = R.rode
  /\ Q.branded = R.branded
  /\ Q.totals = [R.totals EXCEPT !.generated = @ + n, !.waiting = @ + n]
  /\ Q.billed = R.billed
  /\ Q.load = R.load
  /\ Q.recent = R.recent

\* generate_arrivals does what ArriveStep says.
LEMMA ArriveFields ==
  ASSUME NEW R \in Riders, NEW Q, Q = Arrive(R),
         NEW n, n = SumFunctionOnSet([c \in Cohort |-> Trip(c).count], Newcomers)
  PROVE  ArriveStep(Q, R, n)
BY DEF Arrive, Riders, ArriveStep

\* Q is R after the passengers gone have given up.
AbandonStep(Q, R, gone) ==
  /\ Q.waiting = [c \in Cohort |-> R.waiting[c] - gone[c]]
  /\ Q.aboard = R.aboard
  /\ Q.completed = R.completed
  /\ Q.abandoned = [c \in Cohort |-> R.abandoned[c] + gone[c]]
  /\ Q.denied = R.denied
  /\ Q.boardedAt = R.boardedAt
  /\ Q.waited = Ticked(R.waited, gone, Ages)
  /\ Q.rode = R.rode
  /\ Q.branded = R.branded + Marked(R, gone)
  /\ Q.totals = [R.totals EXCEPT !.waiting = @ - SumFunction(gone),
                                 !.abandoned = @ + SumFunction(gone)]
  /\ Q.billed = [R.billed EXCEPT !.abandoned = @ + SumFunction(gone)]
  /\ Q.load = R.load
  /\ Q.recent = R.recent \o Finished(ByNumber({c \in Cohort : gone[c] > 0}), gone, "ABANDONED")

\* abandon does what AbandonStep says.
LEMMA AbandonFields ==
  ASSUME NEW R \in Riders, NEW Q, Q = Abandon(R),
         NEW gone, gone = GivingUp(R)
  PROVE  AbandonStep(Q, R, gone)
BY DEF Abandon, Riders, AbandonStep

-----------------------------------------------------------------------------
(* Who boards *)

\* The queue a bus with the fields v would take on.
Line(R, v) == {c \in Cohort : Eligible(R, v, c)}

\* How many wait before cohort c in that queue.
Before(R, v, c) == SumFunctionOnSet(R.waiting, AheadOf(Line(R, v), c))

\* That is a natural number.
LEMMA BeforeNat ==
  ASSUME day \in Days, NEW R \in Riders, NEW v, NEW c
  PROVE  Before(R, v, c) \in Nat
<1>1. IsFiniteSet(AheadOf(Line(R, v), c))
  BY DayFacts, FS_Subset DEF AheadOf, Line
<1>2. \A d \in AheadOf(Line(R, v), c) : R.waiting[d] \in Nat
  BY DEF AheadOf, Line, Riders
<1> QED
  BY <1>1, <1>2, SumNat DEF Before

\* Boarding takes from each cohort what room is left after those before it.
LEMMA TakenIs ==
  ASSUME NEW R, NEW b, NEW v
  PROVE  Taken(R, b, v) = [c \in Cohort |->
           IF c \in Line(R, v) /\ Before(R, v, c) < Capacity - R.load[b]
           THEN Smaller(R.waiting[c], Capacity - R.load[b] - Before(R, v, c))
           ELSE 0]
BY DEF Taken, Line, Before

\* The load of a bus and its free room are natural numbers.
LEMMA RoomNat ==
  ASSUME NEW R \in Riders, NEW b \in Bus
  PROVE  R.load[b] \in 0 .. Capacity /\ Capacity - R.load[b] \in Nat
BY FleetAssumption DEF Riders

\* No more passengers board than wait, and only eligible ones.
LEMMA TakenType ==
  ASSUME day \in Days, NEW R \in Riders, NEW b \in Bus, NEW v,
         NEW take, take = Taken(R, b, v)
  PROVE  /\ take \in [Cohort -> Nat]
         /\ \A c \in Cohort : take[c] <= R.waiting[c]
         /\ \A c \in Cohort : take[c] > 0 => Eligible(R, v, c)
<1>1. \A c \in Cohort : R.waiting[c] \in Nat
  BY DEF Riders
<1>2. \A c \in Cohort : Before(R, v, c) \in Nat
  BY BeforeNat
<1>3. Capacity - R.load[b] \in Nat
  BY RoomNat
<1> DEFINE room == Capacity - R.load[b]
<1>4. take = [c \in Cohort |-> IF c \in Line(R, v) /\ Before(R, v, c) < room
           THEN Smaller(R.waiting[c], room - Before(R, v, c)) ELSE 0]
  BY TakenIs
<1>5. room \in Nat
  BY <1>3
<1> HIDE DEF room
<1>6. \A c \in Cohort : /\ take[c] \in Nat
                        /\ take[c] <= R.waiting[c]
                        /\ take[c] > 0 => c \in Line(R, v)
  BY <1>1, <1>2, <1>4, <1>5 DEF Smaller
<1> QED
  BY <1>4, <1>6 DEF Line

\* Those who board before c in the line, and c: they all board or fill the bus.
LEMMA TakenInOrder ==
  ASSUME day \in Days, NEW R \in Riders, NEW b \in Bus, NEW v,
         NEW c \in Cohort, NEW d \in Cohort, c < d,
         Eligible(R, v, c), Taken(R, b, v)[d] > 0
  PROVE  Taken(R, b, v)[c] = R.waiting[c]
<1> DEFINE room == Capacity - R.load[b]
<1>1. room \in Nat
  BY RoomNat
<1>2. c \in Int /\ d \in Int
  BY DayFacts
<1>3. c \in AheadOf(Line(R, v), d)
  BY DEF AheadOf, Line
<1>4. AheadOf(Line(R, v), c) \subseteq AheadOf(Line(R, v), d) \ {c}
  <2> SUFFICES ASSUME NEW e \in Cohort, e < c PROVE e < d /\ e # c
    BY DEF AheadOf, Line
  <2>1. e \in Int
    BY DayFacts
  <2> QED
    BY <1>2, <2>1
<1>5. IsFiniteSet(AheadOf(Line(R, v), d)) /\ IsFiniteSet(AheadOf(Line(R, v), d) \ {c})
  BY DayFacts, FS_Subset DEF AheadOf, Line
<1>6. \A e \in AheadOf(Line(R, v), d) : R.waiting[e] \in Nat
  BY DEF AheadOf, Line, Riders
<1>7. Before(R, v, d) = R.waiting[c]
        + SumFunctionOnSet(R.waiting, AheadOf(Line(R, v), d) \ {c})
  BY <1>3, <1>5, <1>6, SumSplit DEF Before
<1>8. Before(R, v, c)
        <= SumFunctionOnSet(R.waiting, AheadOf(Line(R, v), d) \ {c})
  <2> DEFINE S == AheadOf(Line(R, v), d) \ {c}
             T == AheadOf(Line(R, v), c)
  <2>1. T \in SUBSET S /\ IsFiniteSet(S) /\ IsFiniteSet(S \ T)
    BY <1>4, <1>5, FS_Subset
  <2>2. \A e \in S : R.waiting[e] \in Nat
    BY <1>6
  <2> HIDE DEF S, T
  <2>3. SumFunctionOnSet(R.waiting, S)
          = SumFunctionOnSet(R.waiting, T) + SumFunctionOnSet(R.waiting, S \ T)
    BY <2>1, <2>2, SumDivide
  <2>4. SumFunctionOnSet(R.waiting, S \ T) \in Nat
    BY <2>1, <2>2, SumNat
  <2>5. SumFunctionOnSet(R.waiting, T) \in Int
    <3>1. IsFiniteSet(T) /\ \A e \in T : R.waiting[e] \in Int
      BY <2>1, <2>2, FS_Subset
    <3> QED
      BY <3>1, SumInt
  <2>6. SumFunctionOnSet(R.waiting, T) <= SumFunctionOnSet(R.waiting, S)
    BY <2>3, <2>4, <2>5
  <2> QED
    BY <2>6 DEF S, T, Before
<1>9. /\ Before(R, v, c) \in Nat /\ Before(R, v, d) \in Nat
      /\ R.waiting[c] \in Nat /\ R.waiting[d] \in Nat
  BY BeforeNat DEF Riders
<1>10. /\ Taken(R, b, v)[c] = IF Before(R, v, c) < room
            THEN Smaller(R.waiting[c], room - Before(R, v, c)) ELSE 0
       /\ Before(R, v, d) < room
  <2>1. Taken(R, b, v) = [e \in Cohort |->
           IF e \in Line(R, v) /\ Before(R, v, e) < room
           THEN Smaller(R.waiting[e], room - Before(R, v, e)) ELSE 0]
    BY TakenIs
  <2>2. c \in Line(R, v)
    BY DEF Line
  <2> HIDE DEF room
  <2> QED
    BY <2>1, <2>2
<1>11. SumFunctionOnSet(R.waiting, AheadOf(Line(R, v), d) \ {c}) \in Int
  BY <1>5, <1>6, SumNat
<1> HIDE DEF room
<1> QED
  BY <1>1, <1>7, <1>8, <1>9, <1>10, <1>11 DEF Smaller

\* The bus never takes more than it has room for.
LEMMA TakenFits ==
  ASSUME day \in Days, NEW R \in Riders, NEW b \in Bus, NEW v,
         NEW take, take = Taken(R, b, v)
  PROVE  SumFunctionOnSet(take, Cohort) <= Capacity - R.load[b]
<1> DEFINE room == Capacity - R.load[b]
           Upto(n) == {c \in Cohort : c <= n}
           Ready0(n) == {c \in Line(R, v) : c <= n}
           P == {n \in Nat : SumFunctionOnSet(take, Upto(n))
                   = Smaller(SumFunctionOnSet(R.waiting, Ready0(n)), room)}
<1>1. room \in Nat
  BY RoomNat
<1>2. take \in [Cohort -> Nat] /\ \A c \in Cohort : R.waiting[c] \in Nat
  BY TakenType DEF Riders
<1>3. \A n \in Nat : IsFiniteSet(Upto(n)) /\ IsFiniteSet(Ready0(n))
  BY DayFacts, FS_Subset DEF Line
<1>4. \A n \in Nat : /\ SumFunctionOnSet(take, Upto(n)) \in Nat
                     /\ SumFunctionOnSet(R.waiting, Ready0(n)) \in Nat
  <2> TAKE n \in Nat
  <2>1. \A c \in Upto(n) : take[c] \in Nat
    BY <1>2
  <2>2. \A c \in Ready0(n) : R.waiting[c] \in Nat
    BY <1>2 DEF Line
  <2> QED
    BY <1>3, <2>1, <2>2, SumNat
<1>5. 0 \in P
  <2>1. Upto(0) = {} /\ Ready0(0) = {}
    BY DayFacts DEF Line
  <2>2. SumFunctionOnSet(take, {}) = 0 /\ SumFunctionOnSet(R.waiting, {}) = 0
    BY SumEmpty
  <2>3. SumFunctionOnSet(take, Upto(0)) = 0 /\ SumFunctionOnSet(R.waiting, Ready0(0)) = 0
    BY <2>1, <2>2
  <2> QED
    BY <1>1, <2>3 DEF Smaller
<1>6. ASSUME NEW n \in Nat, n \in P PROVE n + 1 \in P
  <2> DEFINE c == n + 1
             t == SumFunctionOnSet(take, Upto(n))
             w == SumFunctionOnSet(R.waiting, Ready0(n))
  <2>0. t \in Nat /\ w \in Nat /\ t = Smaller(w, room)
    BY <1>4, <1>6
  <2>1. CASE c \notin Cohort
    <3>1. Upto(c) = Upto(n) /\ Ready0(c) = Ready0(n)
      BY <2>1, DayFacts DEF Line
    <3> HIDE DEF Upto, Ready0
    <3> QED
      BY <1>6, <3>1
  <2>2. CASE c \in Cohort /\ c \notin Line(R, v)
    <3>1. /\ c \in Upto(c) /\ Upto(c) \ {c} = Upto(n)
          /\ Ready0(c) = Ready0(n)
      BY <2>2, DayFacts DEF Line
    <3> HIDE DEF Upto, Ready0
    <3>2. SumFunctionOnSet(take, Upto(c)) = take[c] + t
      <4>1. \A x \in Upto(c) : take[x] \in Int
        BY <1>2 DEF Upto
      <4>2. SumFunctionOnSet(take, Upto(c)) = take[c] + SumFunctionOnSet(take, Upto(c) \ {c})
        BY <1>3, <3>1, <4>1, SumSplit
      <4> QED
        BY <3>1, <4>2
    <3>3. take[c] = 0
      <4>1. ~Eligible(R, v, c)
        BY <2>2 DEF Line
      <4> QED
        BY <1>2, <2>2, <4>1, TakenType
    <3>4. SumFunctionOnSet(take, Upto(c)) = t
      BY <2>0, <3>2, <3>3
    <3> QED
      BY <2>0, <3>1, <3>4
  <2>3. CASE c \in Line(R, v)
    <3>0. c \in Cohort
      BY <2>3 DEF Line
    <3>1. /\ c \in Upto(c) /\ Upto(c) \ {c} = Upto(n)
          /\ c \in Ready0(c) /\ Ready0(c) \ {c} = Ready0(n)
      BY <2>3, <3>0, DayFacts DEF Line
    <3> HIDE DEF Upto, Ready0
    <3>2. SumFunctionOnSet(take, Upto(c)) = take[c] + t
      <4>1. \A x \in Upto(c) : take[x] \in Int
        BY <1>2 DEF Upto
      <4>2. SumFunctionOnSet(take, Upto(c)) = take[c] + SumFunctionOnSet(take, Upto(c) \ {c})
        BY <1>3, <3>1, <4>1, SumSplit
      <4> QED
        BY <3>1, <4>2
    <3>3. SumFunctionOnSet(R.waiting, Ready0(c)) = R.waiting[c] + w
      <4>1. \A x \in Ready0(c) : R.waiting[x] \in Int
        BY <1>2 DEF Line, Ready0
      <4>2. SumFunctionOnSet(R.waiting, Ready0(c))
              = R.waiting[c] + SumFunctionOnSet(R.waiting, Ready0(c) \ {c})
        BY <1>3, <3>1, <4>1, SumSplit
      <4> QED
        BY <3>1, <4>2
    <3>4. AheadOf(Line(R, v), c) = Ready0(n)
      BY DayFacts DEF AheadOf, Line, Ready0
    <3>5. take[c] = IF w < room THEN Smaller(R.waiting[c], room - w) ELSE 0
      <4>1. Before(R, v, c) = w
        BY <3>4 DEF Before
      <4> HIDE DEF w
      <4> QED
        BY <2>3, <3>0, <4>1, TakenIs
    <3>6. R.waiting[c] \in Nat
      BY <1>2, <3>0
    <3> DEFINE x == R.waiting[c]
               y == take[c]
               A == SumFunctionOnSet(take, Upto(c))
               B == SumFunctionOnSet(R.waiting, Ready0(c))
    <3>7. /\ A = y + t /\ B = x + w /\ x \in Nat
          /\ y = IF w < room THEN Smaller(x, room - w) ELSE 0
      BY <3>2, <3>3, <3>5, <3>6
    <3> HIDE DEF x, y, A, B, t, w, room
    <3>8. A = Smaller(B, room)
      BY <1>1, <2>0, <3>7 DEF Smaller
    <3> QED
      BY <3>8 DEF A, B, room
  <2> HIDE DEF P
  <2> QED
    BY <2>1, <2>2, <2>3 DEF Line
<1> HIDE DEF P
<1>7. PICK n \in Nat : Upto(n) = Cohort
  <2>1. Upto(Len(day.arrivals)) = Cohort /\ Len(day.arrivals) \in Nat
    BY DayFacts
  <2> QED
    BY <2>1
<1>8. n \in P
  BY <1>5, <1>6, NatInductionOn
<1>9. SumFunctionOnSet(take, Cohort) = Smaller(SumFunctionOnSet(R.waiting, Ready0(n)), room)
  BY <1>7, <1>8 DEF P
<1> HIDE DEF room, Upto, Ready0
<1>10. Smaller(SumFunctionOnSet(R.waiting, Ready0(n)), room) <= room
  BY <1>1, <1>4 DEF Smaller
<1> QED
  BY <1>9, <1>10 DEF room

-----------------------------------------------------------------------------
(* Counts: every passenger is in one place *)

\* Passengers of cohort c on all the buses.
Riding(A, c) == SumFunctionOnSet([b \in Bus |-> A[b][c]], Bus)

\* The loads L count the passengers aboard.
LoadsCount(A, L) == \A b \in Bus : L[b] = SumFunctionOnSet(A[b], Cohort)

\* The counters of R count its passengers, of whom K[c] belong to cohort c.
Counted(R, K) ==
  /\ \A c \in Cohort :
       R.waiting[c] + Riding(R.aboard, c) + R.completed[c] + R.abandoned[c] = K[c]
  /\ LoadsCount(R.aboard, R.load)
  /\ R.totals.generated = SumFunctionOnSet(K, Cohort)
  /\ R.totals.waiting = SumFunctionOnSet(R.waiting, Cohort)
  /\ R.totals.onboard = SumFunctionOnSet(R.load, Bus)
  /\ R.totals.completed = SumFunctionOnSet(R.completed, Cohort)
  /\ R.totals.abandoned = SumFunctionOnSet(R.abandoned, Cohort)

\* The fields of the passengers' tables.
Names == {"waiting", "aboard", "completed", "abandoned", "denied", "boardedAt",
          "waited", "rode", "branded", "totals", "billed", "load", "recent"}

\* R is a record with these fields, whatever their values.
HasFields(R) == R = [x \in Names |-> R[x]]

\* Tables of the right type have these fields.
LEMMA RidersHave == ASSUME NEW R \in Riders PROVE HasFields(R)
BY DEF Riders, Names, HasFields

\* Tables with these fields, each of its type, are of the right type.
LEMMA RidersType ==
  ASSUME NEW R, HasFields(R), R.waiting \in [Cohort -> Nat],
         R.aboard \in [Bus -> [Cohort -> Nat]],
         R.completed \in [Cohort -> Nat], R.abandoned \in [Cohort -> Nat],
         R.denied \in [Cohort -> BOOLEAN],
         R.boardedAt \in [Bus -> [Cohort -> Nat]],
         R.waited \in [Cohort -> [0 .. Horizon -> Nat]],
         R.rode \in [Cohort -> [0 .. Horizon -> Nat]],
         R.branded \in Nat, R.totals \in Counters,
         R.billed \in [denied : Nat, abandoned : Nat, unfinished : Nat],
         R.load \in [Bus -> 0 .. Capacity], R.recent \in Seq(Entry)
  PROVE  R \in Riders
BY DEF HasFields, Names, Riders

\* board keeps the fields.
LEMMA BoardHas ==
  ASSUME NEW R, HasFields(R), NEW b, NEW v
  PROVE  HasFields(Board(R, b, v))
<1> DEFINE take == Taken(R, b, v)
           left == {c \in Cohort : Eligible(R, v, c) /\ R.waiting[c] > take[c]}
           boarded == SumFunction(take)
           refused == SumFunctionOnSet([c \in Cohort |-> R.waiting[c] - take[c]],
                                       NewlyDenied(R, left))
           Q1 == [R EXCEPT !.waiting = [c \in Cohort |-> @[c] - take[c]],
                           !.aboard[b] = [c \in Cohort |-> @[c] + take[c]],
                           !.denied = [c \in Cohort |-> @[c] \/ c \in left]]
           Q2 == [Q1 EXCEPT !.boardedAt[b] = [c \in Cohort |->
                               IF take[c] > 0 THEN now ELSE @[c]],
                            !.waited = Ticked(@, take, Ages),
                            !.branded = @ + Marked(R, take)]
           Q3 == [Q2 EXCEPT !.load[b] = @ + boarded,
                            !.totals.waiting = @ - boarded,
                            !.totals.onboard = @ + boarded,
                            !.billed.denied = @ + refused]
<1>1. HasFields(Q1)
  <2> HIDE DEF take, left
  <2> QED
    BY DEF HasFields
<1>2. HasFields(Q2)
  <2> HIDE DEF take, left, Q1
  <2> QED
    BY <1>1 DEF HasFields
<1>3. HasFields(Q3)
  <2> HIDE DEF take, left, Q2, boarded, refused
  <2> QED
    BY <1>2 DEF HasFields
<1>4. Board(R, b, v) = Q3
  BY DEF Board
<1> HIDE DEF Q3
<1> QED
  BY <1>3, <1>4

\* alight keeps the fields.
LEMMA AlightHas ==
  ASSUME NEW R, HasFields(R), NEW b, NEW stop
  PROVE  HasFields(Alight(R, b, stop))
BY DEF HasFields, Alight

\* generate_arrivals keeps the fields.
LEMMA ArriveHas ==
  ASSUME NEW R, HasFields(R)
  PROVE  HasFields(Arrive(R))
BY DEF HasFields, Arrive

\* abandon keeps the fields.
LEMMA AbandonHas ==
  ASSUME NEW R, HasFields(R)
  PROVE  HasFields(Abandon(R))
BY DEF HasFields, Abandon

\* Replacing the row of one bus changes how many of a cohort ride by the change of
\* that row.
LEMMA RidingChange ==
  ASSUME NEW A \in [Bus -> [Cohort -> Nat]], NEW b \in Bus,
         NEW row \in [Cohort -> Nat], NEW c \in Cohort
  PROVE  /\ Riding([A EXCEPT ![b] = row], c) = Riding(A, c) - A[b][c] + row[c]
         /\ Riding(A, c) \in Nat
<1> DEFINE f == [x \in Bus |-> A[x][c]]
           g == [x \in Bus |-> [A EXCEPT ![b] = row][x][c]]
<1>1. \A x \in Bus : f[x] \in Int /\ g[x] \in Int
  OBVIOUS
<1>2. \A x \in Bus \ {b} : g[x] = f[x]
  OBVIOUS
<1>3. f[b] = A[b][c] /\ g[b] = row[c]
  OBVIOUS
<1>4. SumFunctionOnSet(g, Bus) = SumFunctionOnSet(f, Bus) - f[b] + g[b]
  <2> HIDE DEF f, g
  <2>1. IsFiniteSet(Bus)
    BY FleetAssumption
  <2> QED
    BY <1>1, <1>2, <2>1, SumChange
<1>5. SumFunctionOnSet(f, Bus) \in Nat
  <2>1. \A x \in Bus : f[x] \in Nat
    OBVIOUS
  <2> HIDE DEF f
  <2> QED
    BY <2>1, FleetAssumption, SumNat
<1> QED
  BY <1>3, <1>4, <1>5 DEF Riding

\* The number of marked passengers among n is a natural number.
LEMMA MarkedNat ==
  ASSUME day \in Days, NEW R, NEW n \in [Cohort -> Nat]
  PROVE  Marked(R, n) \in Nat
<1>1. IsFiniteSet({c \in Cohort : R.denied[c]})
  BY DayFacts, FS_Subset
<1> QED
  BY <1>1, SumNat DEF Marked

\* What sums over functions of natural numbers give.
LEMMA SumOf ==
  ASSUME NEW S, IsFiniteSet(S), NEW f \in [S -> Nat]
  PROVE  SumFunction(f) = SumFunctionOnSet(f, S) /\ SumFunctionOnSet(f, S) \in Nat
BY SumNat DEF SumFunction

\* board keeps the types; above all, nobody boards beyond the capacity.
LEMMA BoardType ==
  ASSUME day \in Days, now \in Nat, NEW R \in Riders, NEW b \in Bus, NEW v
  PROVE  Board(R, b, v) \in Riders
<1> DEFINE take == Taken(R, b, v)
           left == {c \in Cohort : Eligible(R, v, c) /\ R.waiting[c] > take[c]}
           refused == SumFunctionOnSet([c \in Cohort |-> R.waiting[c] - take[c]],
                                       NewlyDenied(R, left))
           Q == Board(R, b, v)
<1>1. take \in [Cohort -> Nat] /\ \A c \in Cohort : take[c] <= R.waiting[c]
  BY TakenType
<1>2. /\ SumFunction(take) = SumFunctionOnSet(take, Cohort)
      /\ SumFunctionOnSet(take, Cohort) \in Nat
  BY <1>1, SumOf, DayFacts
<1>3. SumFunctionOnSet(take, Cohort) <= Capacity - R.load[b]
  BY TakenFits
<1>4. refused \in Nat
  <2>1. IsFiniteSet(NewlyDenied(R, left)) /\ NewlyDenied(R, left) \subseteq Cohort
    BY DayFacts, FS_Subset DEF NewlyDenied
  <2>2. \A c \in Cohort : R.waiting[c] - take[c] \in Nat
    BY <1>1 DEF Riders
  <2> HIDE DEF left, take
  <2> QED
    BY <2>1, <2>2, SumNat
<1>5. Marked(R, take) \in Nat
  BY <1>1, MarkedNat
<1> HIDE DEF take, refused, left
<1>6. [c \in Cohort |-> R.waiting[c] - take[c]] \in [Cohort -> Nat]
  BY <1>1 DEF Riders
<1>7. [R.aboard EXCEPT ![b] = [c \in Cohort |-> R.aboard[b][c] + take[c]]]
        \in [Bus -> [Cohort -> Nat]]
  <2>1. [c \in Cohort |-> R.aboard[b][c] + take[c]] \in [Cohort -> Nat]
    BY <1>1 DEF Riders
  <2>2. R.aboard \in [Bus -> [Cohort -> Nat]]
    BY DEF Riders
  <2> QED
    BY <2>1, <2>2
<1>8. [c \in Cohort |-> R.denied[c] \/ c \in left] \in [Cohort -> BOOLEAN]
  BY Zenon
<1>9. [R.boardedAt EXCEPT ![b] = [c \in Cohort |->
          IF take[c] > 0 THEN now ELSE R.boardedAt[b][c]]]
        \in [Bus -> [Cohort -> Nat]]
  <2>1. R.boardedAt \in [Bus -> [Cohort -> Nat]]
    BY DEF Riders
  <2>2. [c \in Cohort |-> IF take[c] > 0 THEN now ELSE R.boardedAt[b][c]]
          \in [Cohort -> Nat]
    BY <2>1
  <2> QED
    BY <2>1, <2>2
<1>10. Ticked(R.waited, take, Ages) \in [Cohort -> [0 .. Horizon -> Nat]]
  <2>1. R.waited \in [Cohort -> [0 .. Horizon -> Nat]]
    BY DEF Riders
  <2> QED
    BY <1>1, <2>1, TickedType
<1>11. [R.totals EXCEPT !.waiting = @ - SumFunction(take),
                        !.onboard = @ + SumFunction(take)] \in Counters
  <2>1. R.totals \in Counters
    BY DEF Riders
  <2> DEFINE n == SumFunction(take)
             t == R.totals
  <2>2. n \in Nat /\ t \in Counters
    BY <1>2, <2>1
  <2> HIDE DEF n, t
  <2>3. t.waiting - n \in Int /\ t.onboard + n \in Int
    BY <2>2 DEF Counters
  <2>4. [t EXCEPT !.waiting = @ - n, !.onboard = @ + n] \in Counters
    BY <2>2, <2>3 DEF Counters
  <2> QED
    BY <2>4 DEF n, t
<1>12. [R.billed EXCEPT !.denied = @ + refused]
         \in [denied : Nat, abandoned : Nat, unfinished : Nat]
  <2>1. R.billed \in [denied : Nat, abandoned : Nat, unfinished : Nat]
    BY DEF Riders
  <2> QED
    BY <1>4, <2>1
<1>13. [R.load EXCEPT ![b] = @ + SumFunction(take)] \in [Bus -> 0 .. Capacity]
  <2>1. R.load \in [Bus -> 0 .. Capacity] /\ R.load[b] \in 0 .. Capacity
    BY DEF Riders
  <2>2. R.load[b] + SumFunction(take) \in 0 .. Capacity
    BY <1>2, <1>3, <2>1, FleetAssumption
  <2> QED
    BY <2>1, <2>2
<1>14. R.branded + Marked(R, take) \in Nat
  BY <1>5 DEF Riders
<1>15. HasFields(Q)
  BY RidersHave, BoardHas
<1>16. R.completed \in [Cohort -> Nat] /\ R.abandoned \in [Cohort -> Nat]
       /\ R.rode \in [Cohort -> [0 .. Horizon -> Nat]]
  BY DEF Riders
<1>17. BoardStep(Q, R, b, take, left, refused)
  <2>1. take = Taken(R, b, v)
    BY DEF take
  <2>2. left = {c \in Cohort : Eligible(R, v, c) /\ R.waiting[c] > take[c]}
    BY DEF left
  <2>3. refused = SumFunctionOnSet([c \in Cohort |-> R.waiting[c] - take[c]],
                                   NewlyDenied(R, left))
    BY DEF refused
  <2>4. Q = Board(R, b, v)
    OBVIOUS
  <2> HIDE DEF Q
  <2> QED
    BY <2>1, <2>2, <2>3, <2>4, BoardFields
<1> HIDE DEF Q
<1>18. /\ Q.waiting \in [Cohort -> Nat]
       /\ Q.aboard \in [Bus -> [Cohort -> Nat]]
       /\ Q.completed \in [Cohort -> Nat] /\ Q.abandoned \in [Cohort -> Nat]
       /\ Q.denied \in [Cohort -> BOOLEAN]
       /\ Q.boardedAt \in [Bus -> [Cohort -> Nat]]
  BY <1>6, <1>7, <1>8, <1>9, <1>16, <1>17, Zenon DEF BoardStep
<1>19. /\ Q.waited \in [Cohort -> [0 .. Horizon -> Nat]]
       /\ Q.rode \in [Cohort -> [0 .. Horizon -> Nat]]
       /\ Q.branded \in Nat /\ Q.totals \in Counters
       /\ Q.billed \in [denied : Nat, abandoned : Nat, unfinished : Nat]
       /\ Q.load \in [Bus -> 0 .. Capacity]
  BY <1>10, <1>11, <1>12, <1>13, <1>14, <1>16, <1>17, Zenon DEF BoardStep
<1>a. Q.recent \in Seq(Entry)
  BY <1>17 DEF BoardStep, Riders
<1>20. Q \in Riders
  BY <1>15, <1>18, <1>19, <1>a, RidersType
<1> QED
  BY <1>20 DEF Q

\* One bus, b, gets new rows and a new load.
RowChanged(A, B, b, row) ==
  B[b] = row /\ \A x \in Bus \ {b} : B[x] = A[x]

\* When one row of the table and the load of its bus change alike, the loads still
\* count the riders, and the sum of the loads changes by that of the bus.
LEMMA RowChange ==
  ASSUME NEW A, NEW B, NEW L \in [Bus -> Nat], NEW M \in [Bus -> Nat],
         NEW b \in Bus, NEW row, NEW n,
         RowChanged(A, B, b, row), RowChanged(L, M, b, n),
         LoadsCount(A, L), SumFunctionOnSet(row, Cohort) = n
  PROVE  /\ LoadsCount(B, M)
         /\ SumFunctionOnSet(M, Bus) = SumFunctionOnSet(L, Bus) - L[b] + n
         /\ SumFunctionOnSet(L, Bus) \in Nat
<1>1. ASSUME NEW x \in Bus
      PROVE  M[x] = SumFunctionOnSet(B[x], Cohort)
  <2>1. CASE x = b
    <3>1. M[x] = n /\ B[x] = row
      BY <2>1 DEF RowChanged
    <3> QED
      BY <3>1
  <2>2. CASE x # b
    <3>1. M[x] = L[x] /\ B[x] = A[x]
      BY <2>2 DEF RowChanged
    <3> QED
      BY <3>1 DEF LoadsCount
  <2> QED
    BY <2>1, <2>2
<1>2. \A x \in Bus : L[x] \in Int /\ M[x] \in Int
  OBVIOUS
<1>3. \A x \in Bus \ {b} : M[x] = L[x]
  BY DEF RowChanged
<1>4. IsFiniteSet(Bus)
  BY FleetAssumption
<1>5. SumFunctionOnSet(M, Bus) = SumFunctionOnSet(L, Bus) - L[b] + M[b]
  BY <1>2, <1>3, <1>4, SumChange
<1>6. M[b] = n
  BY DEF RowChanged
<1>7. SumFunctionOnSet(L, Bus) \in Nat
  BY <1>4, SumNat
<1> QED
  BY <1>1, <1>5, <1>6, <1>7 DEF LoadsCount

\* board keeps the counts.
LEMMA BoardCounts ==
  ASSUME day \in Days, now \in Nat, NEW R \in Riders, NEW K, Counted(R, K),
         NEW b \in Bus, NEW v
  PROVE  Counted(Board(R, b, v), K)
<1> DEFINE take == Taken(R, b, v)
           left == {c \in Cohort : Eligible(R, v, c) /\ R.waiting[c] > take[c]}
           refused == SumFunctionOnSet([c \in Cohort |-> R.waiting[c] - take[c]],
                                       NewlyDenied(R, left))
           Q == Board(R, b, v)
           row == [c \in Cohort |-> R.aboard[b][c] + take[c]]
           n == SumFunctionOnSet(take, Cohort)
<1>1. take \in [Cohort -> Nat] /\ \A c \in Cohort : take[c] <= R.waiting[c]
  BY TakenType
<1>2. SumFunction(take) = n /\ n \in Nat
  BY <1>1, SumOf, DayFacts
<1>3. BoardStep(Q, R, b, take, left, refused)
  <2>1. take = Taken(R, b, v)
    BY DEF take
  <2>2. left = {c \in Cohort : Eligible(R, v, c) /\ R.waiting[c] > take[c]}
    BY DEF left
  <2>3. refused = SumFunctionOnSet([c \in Cohort |-> R.waiting[c] - take[c]],
                                   NewlyDenied(R, left))
    BY DEF refused
  <2>4. Q = Board(R, b, v)
    OBVIOUS
  <2> HIDE DEF Q, take, left, refused
  <2> QED
    BY <2>1, <2>2, <2>3, <2>4, BoardFields
<1> HIDE DEF take, left, refused, Q, n
<1>4. /\ R.waiting \in [Cohort -> Nat] /\ R.aboard \in [Bus -> [Cohort -> Nat]]
      /\ R.completed \in [Cohort -> Nat] /\ R.abandoned \in [Cohort -> Nat]
      /\ R.load \in [Bus -> Nat] /\ R.totals \in Counters
      /\ IsFiniteSet(Cohort)
  BY DayFacts, FleetAssumption DEF Riders
<1>5. row \in [Cohort -> Nat]
  BY <1>1, <1>4
<1>6. SumFunctionOnSet(row, Cohort) = R.load[b] + n
  <2>1. \A c \in Cohort : /\ R.aboard[b][c] \in Int /\ take[c] \in Int
                          /\ row[c] = R.aboard[b][c] + take[c]
    BY <1>1, <1>4
  <2>2. SumFunctionOnSet(row, Cohort) = SumFunctionOnSet(R.aboard[b], Cohort)
                                          + SumFunctionOnSet(take, Cohort)
    <3> HIDE DEF row
    <3> QED
      BY <1>4, <2>1, SumAdd
  <2> QED
    BY <2>2 DEF Counted, LoadsCount, n
<1>7. Q.load = [R.load EXCEPT ![b] = R.load[b] + n]
  BY <1>2, <1>3 DEF BoardStep
<1>8. Q.aboard = [R.aboard EXCEPT ![b] = row]
  BY <1>3 DEF BoardStep
<1>9. R.load[b] + n \in Nat
  BY <1>2, <1>4
<1> HIDE DEF row
<1>10. /\ LoadsCount(Q.aboard, Q.load)
       /\ SumFunctionOnSet(Q.load, Bus) = SumFunctionOnSet(R.load, Bus) + n
  <2>1. LoadsCount(R.aboard, R.load)
    BY DEF Counted
  <2>2. /\ RowChanged(R.aboard, Q.aboard, b, row)
        /\ RowChanged(R.load, Q.load, b, R.load[b] + n)
        /\ Q.load \in [Bus -> Nat]
    BY <1>4, <1>7, <1>8, <1>9 DEF RowChanged
  <2>4. /\ LoadsCount(Q.aboard, Q.load)
        /\ SumFunctionOnSet(Q.load, Bus)
             = SumFunctionOnSet(R.load, Bus) - R.load[b] + (R.load[b] + n)
        /\ SumFunctionOnSet(R.load, Bus) \in Nat
    BY <1>4, <1>6, <2>1, <2>2, RowChange
  <2>3. R.load[b] \in Nat
    BY <1>4
  <2> QED
    BY <1>2, <2>3, <2>4
<1>11. SumFunctionOnSet(Q.waiting, Cohort) = SumFunctionOnSet(R.waiting, Cohort) - n
  <2>1. \A c \in Cohort : /\ R.waiting[c] \in Int /\ take[c] \in Int
                          /\ Q.waiting[c] = R.waiting[c] - take[c]
    BY <1>1, <1>3, <1>4 DEF BoardStep
  <2> QED
    BY <1>4, <2>1, SumSubtract DEF n
<1>12. /\ Q.totals.generated = R.totals.generated
       /\ Q.totals.waiting = R.totals.waiting - n
       /\ Q.totals.onboard = R.totals.onboard + n
       /\ Q.totals.completed = R.totals.completed
       /\ Q.totals.abandoned = R.totals.abandoned
  BY <1>2, <1>3, <1>4 DEF BoardStep, Counters
<1>13. ASSUME NEW c \in Cohort
       PROVE  Q.waiting[c] + Riding(Q.aboard, c) + Q.completed[c] + Q.abandoned[c] = K[c]
  <2>1. /\ Riding([R.aboard EXCEPT ![b] = row], c) = Riding(R.aboard, c) - R.aboard[b][c] + row[c]
        /\ Riding(R.aboard, c) \in Nat
    BY <1>4, <1>5, RidingChange
  <2>2. /\ row[c] = R.aboard[b][c] + take[c]
        /\ R.aboard[b][c] \in Nat /\ take[c] \in Nat
        /\ R.waiting[c] \in Nat /\ R.completed[c] \in Nat /\ R.abandoned[c] \in Nat
    BY <1>1, <1>4 DEF row
  <2>3. /\ Q.waiting[c] = R.waiting[c] - take[c]
        /\ Q.completed[c] = R.completed[c] /\ Q.abandoned[c] = R.abandoned[c]
    BY <1>3 DEF BoardStep
  <2>4. R.waiting[c] + Riding(R.aboard, c) + R.completed[c] + R.abandoned[c] = K[c]
    BY DEF Counted
  <2> QED
    BY <1>8, <2>1, <2>2, <2>3, <2>4
<1>14. Q.completed = R.completed /\ Q.abandoned = R.abandoned
  BY <1>3 DEF BoardStep
<1>15. Counted(Q, K)
  BY <1>10, <1>11, <1>12, <1>13, <1>14 DEF Counted
<1> QED
  BY <1>15 DEF Q

-----------------------------------------------------------------------------
(* Alighting and giving up *)

\* Who gets off at a stop is aboard and goes there.
LEMMA GettingOffType ==
  ASSUME NEW R \in Riders, NEW b \in Bus, NEW stop,
         NEW off, off = GettingOff(R, b, stop)
  PROVE  /\ off \in [Cohort -> Nat]
         /\ \A c \in Cohort : off[c] <= R.aboard[b][c]
         /\ \A c \in Cohort :
              off[c] = IF Trip(c).destination = stop THEN R.aboard[b][c] ELSE 0
<1>1. R.aboard[b] \in [Cohort -> Nat]
  BY DEF Riders
<1> QED
  BY <1>1 DEF GettingOff

\* The passengers of a bus are listed in order, each once.
LEMMA PassengersListed ==
  ASSUME day \in Days, NEW R \in Riders, NEW b \in Bus, NEW S \in SUBSET Cohort
  PROVE  S \in SUBSET Nat /\ IsFiniteSet(S) /\ Lists(Passengers(R, b, S), S)
<1> DEFINE key == [c \in S |-> R.boardedAt[b][c]]
           K == {<<R.boardedAt[b][c], c>> : c \in S}
<1>1. S \in SUBSET Nat /\ IsFiniteSet(S)
  BY DayFacts, FS_Subset
<1>2. \A c \in S : R.boardedAt[b][c] \in Int
  BY DEF Riders
<1>3. key \in [S -> Int] /\ K = {<<key[x], x>> : x \in S}
  BY <1>2
<1>4. Passengers(R, b, S) = ListOf(K, Cardinality(S))
  BY DEF Passengers, OrderedBy, ListOf, Ahead
<1> HIDE DEF key, K
<1> QED
  BY <1>1, <1>3, <1>4, KeyedListed

\* Whoever gets off is pushed.
LEMMA AlightPushes ==
  ASSUME day \in Days, now \in Nat, NEW R \in Riders, NEW b \in Bus,
         NEW off \in [Cohort -> Nat], NEW Q, AlightStep(Q, R, b, off)
  PROVE  \E list : /\ Lists(list, {c \in Cohort : off[c] > 0})
                   /\ Pushed(Q.recent, R.recent, list, off, "COMPLETED")
<1> DEFINE S == {c \in Cohort : off[c] > 0}
           list == Passengers(R, b, S)
<1>1. S \in SUBSET Cohort /\ \A c \in S : off[c] \in Nat
  OBVIOUS
<1>2. Q.recent = R.recent \o Finished(list, off, "COMPLETED")
  BY DEF AlightStep
<1>3. R.recent \in Seq(Entry)
  BY DEF Riders
<1> HIDE DEF S
<1>4. S \in SUBSET Nat /\ Lists(list, S)
  BY <1>1, PassengersListed
<1> HIDE DEF list
<1>5. Pushed(Q.recent, R.recent, list, off, "COMPLETED")
  BY <1>1, <1>2, <1>3, <1>4, PushIs
<1> QED
  BY <1>4, <1>5 DEF S

\* Alighting keeps the record well-formed and its counters true.
LEMMA AlightKeeps ==
  ASSUME day \in Days, now \in Nat, NEW R \in Riders, NEW K, Counted(R, K),
         NEW b \in Bus, NEW stop
  PROVE  Alight(R, b, stop) \in Riders /\ Counted(Alight(R, b, stop), K)
<1> DEFINE off == GettingOff(R, b, stop)
           Q == Alight(R, b, stop)
           row == [c \in Cohort |-> R.aboard[b][c] - off[c]]
           done == [c \in Cohort |-> R.completed[c] + off[c]]
           n == SumFunctionOnSet(off, Cohort)
<1>1. off \in [Cohort -> Nat] /\ \A c \in Cohort : off[c] <= R.aboard[b][c]
  BY GettingOffType
<1>2. SumFunction(off) = n /\ n \in Nat
  BY <1>1, SumOf, DayFacts
<1>3. AlightStep(Q, R, b, off)
  <2>1. off = GettingOff(R, b, stop) /\ Q = Alight(R, b, stop)
    OBVIOUS
  <2> HIDE DEF Q, off
  <2> QED
    BY <2>1, AlightFields
<1>0. HasFields(Q)
  BY RidersHave, AlightHas
<1> HIDE DEF off, Q, n
<1>4. /\ R.waiting \in [Cohort -> Nat] /\ R.aboard \in [Bus -> [Cohort -> Nat]]
      /\ R.completed \in [Cohort -> Nat] /\ R.abandoned \in [Cohort -> Nat]
      /\ R.load \in [Bus -> Nat] /\ R.load \in [Bus -> 0 .. Capacity]
      /\ R.totals \in Counters /\ IsFiniteSet(Cohort)
  BY DayFacts, FleetAssumption DEF Riders
<1>5. row \in [Cohort -> Nat] /\ done \in [Cohort -> Nat]
  <2>1. R.aboard[b] \in [Cohort -> Nat]
    BY <1>4
  <2> QED
    BY <1>1, <1>4, <2>1
<1>6. SumFunctionOnSet(row, Cohort) = R.load[b] - n
  <2>1. \A c \in Cohort : /\ R.aboard[b][c] \in Int /\ off[c] \in Int
                          /\ row[c] = R.aboard[b][c] - off[c]
    BY <1>1, <1>4
  <2>2. SumFunctionOnSet(row, Cohort) = SumFunctionOnSet(R.aboard[b], Cohort)
                                          - SumFunctionOnSet(off, Cohort)
    <3> HIDE DEF row
    <3> QED
      BY <1>4, <2>1, SumSubtract
  <2> QED
    BY <2>2 DEF Counted, LoadsCount, n
<1>7. Q.load = [R.load EXCEPT ![b] = R.load[b] - n]
  BY <1>2, <1>3 DEF AlightStep
<1>8. Q.aboard = [R.aboard EXCEPT ![b] = row] /\ Q.completed = done
  BY <1>3 DEF AlightStep
<1>9. R.load[b] - n \in 0 .. Capacity
  <2>1. SumFunctionOnSet(row, Cohort) \in Nat
    BY <1>4, <1>5, SumNat
  <2>2. R.load[b] \in 0 .. Capacity
    BY <1>4
  <2> HIDE DEF row
  <2> QED
    BY <1>2, <1>6, <2>1, <2>2, FleetAssumption
<1>10. SumFunctionOnSet(Q.completed, Cohort) = SumFunctionOnSet(R.completed, Cohort) + n
  <2>1. \A c \in Cohort : /\ R.completed[c] \in Int /\ off[c] \in Int
                          /\ done[c] = R.completed[c] + off[c]
    BY <1>1, <1>4
  <2> HIDE DEF done
  <2> QED
    BY <1>4, <1>8, <2>1, SumAdd DEF n
<1>13. ASSUME NEW c \in Cohort
       PROVE  Q.waiting[c] + Riding(Q.aboard, c) + Q.completed[c] + Q.abandoned[c] = K[c]
  <2>1. /\ Riding([R.aboard EXCEPT ![b] = row], c) = Riding(R.aboard, c) - R.aboard[b][c] + row[c]
        /\ Riding(R.aboard, c) \in Nat
    BY <1>4, <1>5, RidingChange
  <2>2. /\ row[c] = R.aboard[b][c] - off[c] /\ done[c] = R.completed[c] + off[c]
        /\ R.aboard[b][c] \in Nat /\ off[c] \in Nat
        /\ R.waiting[c] \in Nat /\ R.completed[c] \in Nat /\ R.abandoned[c] \in Nat
    BY <1>1, <1>4
  <2>3. Q.waiting = R.waiting /\ Q.abandoned = R.abandoned
    BY <1>3 DEF AlightStep
  <2>4. R.waiting[c] + Riding(R.aboard, c) + R.completed[c] + R.abandoned[c] = K[c]
    BY DEF Counted
  <2> HIDE DEF row, done
  <2> QED
    BY <1>8, <2>1, <2>2, <2>3, <2>4
<1>14. Q.waiting = R.waiting /\ Q.abandoned = R.abandoned
  BY <1>3 DEF AlightStep
<1>15. Q.aboard \in [Bus -> [Cohort -> Nat]] /\ Q.load \in [Bus -> 0 .. Capacity]
       /\ Q.load \in [Bus -> Nat] /\ Q.completed \in [Cohort -> Nat]
  <2> HIDE DEF row, done
  <2>1. R.load[b] - n \in Nat
    BY <1>9, FleetAssumption
  <2> QED
    BY <1>4, <1>5, <1>7, <1>8, <1>9, <2>1
<1> HIDE DEF row, done
<1>16. /\ LoadsCount(Q.aboard, Q.load)
       /\ SumFunctionOnSet(Q.load, Bus) = SumFunctionOnSet(R.load, Bus) - n
  <2>1. LoadsCount(R.aboard, R.load)
    BY DEF Counted
  <2>2. /\ RowChanged(R.aboard, Q.aboard, b, row)
        /\ RowChanged(R.load, Q.load, b, R.load[b] - n)
    BY <1>4, <1>7, <1>8 DEF RowChanged
  <2>4. /\ LoadsCount(Q.aboard, Q.load)
        /\ SumFunctionOnSet(Q.load, Bus)
             = SumFunctionOnSet(R.load, Bus) - R.load[b] + (R.load[b] - n)
        /\ SumFunctionOnSet(R.load, Bus) \in Nat
    BY <1>4, <1>6, <1>15, <2>1, <2>2, RowChange
  <2>3. R.load[b] \in Nat
    BY <1>4
  <2> QED
    BY <1>2, <2>3, <2>4
<1>17. /\ Q.totals.generated = R.totals.generated
       /\ Q.totals.waiting = R.totals.waiting
       /\ Q.totals.onboard = R.totals.onboard - n
       /\ Q.totals.completed = R.totals.completed + n
       /\ Q.totals.abandoned = R.totals.abandoned
       /\ Q.totals \in Counters
  <2>1. Q.totals = [R.totals EXCEPT !.onboard = @ - n, !.completed = @ + n]
    BY <1>2, <1>3 DEF AlightStep
  <2>2. R.totals.onboard - n \in Int /\ R.totals.completed + n \in Int
    BY <1>2, <1>4 DEF Counters
  <2> QED
    BY <1>4, <2>1, <2>2 DEF Counters
<1>18. Counted(Q, K)
  BY <1>10, <1>13, <1>14, <1>16, <1>17 DEF Counted
<1>19. Q.rode \in [Cohort -> [0 .. Horizon -> Nat]]
  <2>1. R.rode \in [Cohort -> [0 .. Horizon -> Nat]]
    BY DEF Riders
  <2> DEFINE ride == [c \in Cohort |-> now - R.boardedAt[b][c]]
  <2>2. Q.rode = Ticked(R.rode, off, ride)
    BY <1>3 DEF AlightStep
  <2> HIDE DEF ride
  <2>3. Ticked(R.rode, off, ride) \in [Cohort -> [0 .. Horizon -> Nat]]
    BY <1>1, <2>1, TickedType
  <2> QED
    BY <2>2, <2>3
<1>20. /\ Q.waiting \in [Cohort -> Nat] /\ Q.abandoned \in [Cohort -> Nat]
       /\ Q.denied \in [Cohort -> BOOLEAN]
       /\ Q.boardedAt \in [Bus -> [Cohort -> Nat]]
       /\ Q.waited \in [Cohort -> [0 .. Horizon -> Nat]]
       /\ Q.branded \in Nat
       /\ Q.billed \in [denied : Nat, abandoned : Nat, unfinished : Nat]
  BY <1>3 DEF AlightStep, Riders
<1>a. Q.recent \in Seq(Entry)
  BY <1>1, <1>3, AlightPushes DEF Pushed
<1>21. Q \in Riders
  BY <1>0, <1>15, <1>17, <1>19, <1>20, <1>a, RidersType
<1> QED
  BY <1>18, <1>21 DEF Q

\* Who gives up was waiting.
LEMMA GivingUpType ==
  ASSUME NEW R \in Riders, NEW gone, gone = GivingUp(R)
  PROVE  /\ gone \in [Cohort -> Nat]
         /\ \A c \in Cohort : gone[c] <= R.waiting[c]
<1>1. R.waiting \in [Cohort -> Nat]
  BY DEF Riders
<1> QED
  BY <1>1 DEF GivingUp

\* Whoever gives up is pushed.
LEMMA AbandonPushes ==
  ASSUME day \in Days, now \in Nat, NEW R \in Riders,
         NEW gone \in [Cohort -> Nat], NEW Q, AbandonStep(Q, R, gone)
  PROVE  \E list : /\ Lists(list, {c \in Cohort : gone[c] > 0})
                   /\ Pushed(Q.recent, R.recent, list, gone, "ABANDONED")
<1> DEFINE S == {c \in Cohort : gone[c] > 0}
           list == ByNumber(S)
<1>1. S \in SUBSET Cohort /\ \A c \in S : gone[c] \in Nat
  OBVIOUS
<1>2. Q.recent = R.recent \o Finished(list, gone, "ABANDONED")
  BY DEF AbandonStep
<1>3. R.recent \in Seq(Entry)
  BY DEF Riders
<1> HIDE DEF S
<1>4. S \in SUBSET Nat /\ IsFiniteSet(S)
  BY <1>1, DayFacts, FS_Subset
<1>5. Lists(list, S)
  BY <1>4, Numbers
<1> HIDE DEF list
<1>6. Pushed(Q.recent, R.recent, list, gone, "ABANDONED")
  BY <1>1, <1>2, <1>3, <1>4, <1>5, PushIs
<1> QED
  BY <1>5, <1>6 DEF S

\* abandon keeps types and counts.
LEMMA AbandonKeeps ==
  ASSUME day \in Days, now \in Nat, NEW R \in Riders, NEW K, Counted(R, K)
  PROVE  Abandon(R) \in Riders /\ Counted(Abandon(R), K)
<1> DEFINE gone == GivingUp(R)
           Q == Abandon(R)
           n == SumFunctionOnSet(gone, Cohort)
<1>1. gone \in [Cohort -> Nat] /\ \A c \in Cohort : gone[c] <= R.waiting[c]
  BY GivingUpType
<1>2. SumFunction(gone) = n /\ n \in Nat
  BY <1>1, SumOf, DayFacts
<1>3. AbandonStep(Q, R, gone)
  <2>1. gone = GivingUp(R) /\ Q = Abandon(R)
    OBVIOUS
  <2> HIDE DEF Q, gone
  <2> QED
    BY <2>1, AbandonFields
<1>0. HasFields(Q)
  BY RidersHave, AbandonHas
<1>5. Marked(R, gone) \in Nat
  BY <1>1, MarkedNat
<1> HIDE DEF gone, Q, n
<1>4. /\ R.waiting \in [Cohort -> Nat] /\ R.abandoned \in [Cohort -> Nat]
      /\ R.totals \in Counters /\ IsFiniteSet(Cohort)
  BY DayFacts DEF Riders
<1>6. /\ Q.waiting = [c \in Cohort |-> R.waiting[c] - gone[c]]
      /\ Q.abandoned = [c \in Cohort |-> R.abandoned[c] + gone[c]]
      /\ Q.completed = R.completed /\ Q.aboard = R.aboard /\ Q.load = R.load
  BY <1>3 DEF AbandonStep
<1>7. Q.waiting \in [Cohort -> Nat] /\ Q.abandoned \in [Cohort -> Nat]
  BY <1>1, <1>4, <1>6
<1>8. /\ SumFunctionOnSet(Q.waiting, Cohort) = SumFunctionOnSet(R.waiting, Cohort) - n
      /\ SumFunctionOnSet(Q.abandoned, Cohort) = SumFunctionOnSet(R.abandoned, Cohort) + n
  <2>1. \A c \in Cohort : /\ R.waiting[c] \in Int /\ gone[c] \in Int
                          /\ Q.waiting[c] = R.waiting[c] - gone[c]
    BY <1>1, <1>4, <1>6
  <2>2. \A c \in Cohort : /\ R.abandoned[c] \in Int /\ gone[c] \in Int
                          /\ Q.abandoned[c] = R.abandoned[c] + gone[c]
    BY <1>1, <1>4, <1>6
  <2>3. SumFunctionOnSet(Q.waiting, Cohort) = SumFunctionOnSet(R.waiting, Cohort) - n
    BY <1>4, <2>1, SumSubtract DEF n
  <2>4. SumFunctionOnSet(Q.abandoned, Cohort) = SumFunctionOnSet(R.abandoned, Cohort) + n
    BY <1>4, <2>2, SumAdd DEF n
  <2> QED
    BY <2>3, <2>4
<1>9. /\ Q.totals.generated = R.totals.generated
      /\ Q.totals.waiting = R.totals.waiting - n
      /\ Q.totals.onboard = R.totals.onboard
      /\ Q.totals.completed = R.totals.completed
      /\ Q.totals.abandoned = R.totals.abandoned + n
      /\ Q.totals \in Counters
  <2>1. Q.totals = [R.totals EXCEPT !.waiting = @ - n, !.abandoned = @ + n]
    BY <1>2, <1>3 DEF AbandonStep
  <2>2. R.totals.waiting - n \in Int /\ R.totals.abandoned + n \in Int
    BY <1>2, <1>4 DEF Counters
  <2> QED
    BY <1>4, <2>1, <2>2 DEF Counters
<1>10. ASSUME NEW c \in Cohort
       PROVE  Q.waiting[c] + Riding(Q.aboard, c) + Q.completed[c] + Q.abandoned[c] = K[c]
  <2>1. /\ Q.waiting[c] = R.waiting[c] - gone[c]
        /\ Q.abandoned[c] = R.abandoned[c] + gone[c]
        /\ R.waiting[c] \in Nat /\ R.abandoned[c] \in Nat /\ gone[c] \in Nat
    BY <1>1, <1>4, <1>6
  <2>2. R.waiting[c] + Riding(R.aboard, c) + R.completed[c] + R.abandoned[c] = K[c]
    BY DEF Counted
  <2>3. R.completed[c] \in Nat
    BY DEF Riders
  <2>4. Riding(R.aboard, c) \in Nat
    <3>1. \A b \in Bus : [x \in Bus |-> R.aboard[x][c]][b] \in Nat
      BY DEF Riders
    <3> QED
      BY <3>1, FleetAssumption, SumNat DEF Riding
  <2> QED
    BY <1>6, <2>1, <2>2, <2>3, <2>4
<1>11. Counted(Q, K)
  BY <1>6, <1>8, <1>9, <1>10 DEF Counted
<1>12. Q.waited \in [Cohort -> [0 .. Horizon -> Nat]]
  <2>1. R.waited \in [Cohort -> [0 .. Horizon -> Nat]]
    BY DEF Riders
  <2>2. Q.waited = Ticked(R.waited, gone, Ages)
    BY <1>3 DEF AbandonStep
  <2>3. Ticked(R.waited, gone, Ages) \in [Cohort -> [0 .. Horizon -> Nat]]
    BY <1>1, <2>1, TickedType
  <2> QED
    BY <2>2, <2>3
<1>13. Q.billed \in [denied : Nat, abandoned : Nat, unfinished : Nat]
       /\ Q.branded \in Nat
  <2>1. R.billed \in [denied : Nat, abandoned : Nat, unfinished : Nat]
        /\ R.branded \in Nat
    BY DEF Riders
  <2>2. /\ Q.billed = [R.billed EXCEPT !.abandoned = @ + n]
        /\ Q.branded = R.branded + Marked(R, gone)
    BY <1>2, <1>3 DEF AbandonStep
  <2>3. R.billed.abandoned + n \in Nat /\ R.branded + Marked(R, gone) \in Nat
    BY <1>2, <1>5, <2>1
  <2> QED
    BY <2>1, <2>2, <2>3
<1>14. /\ Q.aboard \in [Bus -> [Cohort -> Nat]] /\ Q.load \in [Bus -> 0 .. Capacity]
       /\ Q.completed \in [Cohort -> Nat]
       /\ Q.denied \in [Cohort -> BOOLEAN]
       /\ Q.boardedAt \in [Bus -> [Cohort -> Nat]]
       /\ Q.rode \in [Cohort -> [0 .. Horizon -> Nat]]
  BY <1>3 DEF AbandonStep, Riders
<1>a. Q.recent \in Seq(Entry)
  BY <1>1, <1>3, AbandonPushes DEF Pushed
<1>15. Q \in Riders
  BY <1>0, <1>7, <1>9, <1>12, <1>13, <1>14, <1>a, RidersType
<1> QED
  BY <1>11, <1>15 DEF Q

-----------------------------------------------------------------------------
(* Arrivals *)

\* The passengers of each cohort that have come before tick t.
Came(t) == [c \in Cohort |-> IF Trip(c).tick < t THEN Trip(c).count ELSE 0]

\* How many of a cohort ride is a natural number.
LEMMA RidingNat ==
  ASSUME NEW R \in Riders, NEW c \in Cohort
  PROVE  Riding(R.aboard, c) \in Nat
<1>1. \A b \in Bus : [x \in Bus |-> R.aboard[x][c]][b] \in Nat
  BY DEF Riders
<1> QED
  BY <1>1, FleetAssumption, SumNat DEF Riding

\* Whoever has not come yet is nowhere.
LEMMA NotYet ==
  ASSUME day \in Days, NEW R \in Riders, NEW t, Counted(R, Came(t)),
         NEW c \in Cohort, ~(Trip(c).tick < t)
  PROVE  R.waiting[c] = 0 /\ Riding(R.aboard, c) = 0
<1>1. R.waiting[c] + Riding(R.aboard, c) + R.completed[c] + R.abandoned[c] = 0
  BY DEF Counted, Came
<1>2. /\ R.waiting[c] \in Nat /\ R.completed[c] \in Nat /\ R.abandoned[c] \in Nat
      /\ Riding(R.aboard, c) \in Nat
  BY RidingNat DEF Riders
<1> QED
  BY <1>1, <1>2

\* What a valid cohort is, for arithmetic.
LEMMA TripType ==
  ASSUME day \in Days, NEW c \in Cohort
  PROVE  /\ Trip(c).tick \in Nat /\ Trip(c).count \in Nat \ {0}
         /\ Trip(c).route \in Route /\ Trip(c).direction \in {1, -1}
         /\ Trip(c).origin \in 0 .. LastStop /\ Trip(c).destination \in 0 .. LastStop
         /\ Trip(c).tick < DemandEnd
         /\ IF Trip(c).direction = 1 THEN Trip(c).origin < Trip(c).destination
                                     ELSE Trip(c).destination < Trip(c).origin
<1>1. Trip(c) \in CohortType /\ ValidCohort(Trip(c))
  BY DayFacts
<1> QED
  BY <1>1 DEF CohortType, ValidCohort

\* generate_arrivals keeps types and counts, for one tick more.
LEMMA ArriveKeeps ==
  ASSUME day \in Days, now \in Nat, NEW R \in Riders, Counted(R, Came(now))
  PROVE  Arrive(R) \in Riders /\ Counted(Arrive(R), Came(now + 1))
<1> DEFINE count == [c \in Cohort |-> Trip(c).count]
           n == SumFunctionOnSet(count, Newcomers)
           new == [c \in Cohort |-> IF c \in Newcomers THEN Trip(c).count ELSE 0]
           Q == Arrive(R)
<1>1. /\ new \in [Cohort -> Nat] /\ \A c \in Cohort : count[c] \in Nat
      /\ Newcomers \subseteq Cohort /\ IsFiniteSet(Cohort)
      /\ \A c \in Cohort : c \in Newcomers <=> Trip(c).tick = now
  BY TripType, DayFacts DEF Newcomers
<1>2. SumFunctionOnSet(new, Cohort) = n
  <2>1. SumFunctionOnSet(new, Cohort) = SumFunctionOnSet(count, Cohort \cap Newcomers)
    <3>1. /\ \A c \in Cohort \cap Newcomers : count[c] \in Int /\ new[c] = count[c]
          /\ \A c \in Cohort \ Newcomers : new[c] = 0
      BY <1>1
    <3> DEFINE T == Newcomers
               S == Cohort
    <3>2. /\ \A c \in S \cap T : count[c] \in Int /\ new[c] = count[c]
          /\ \A c \in S \ T : new[c] = 0
          /\ IsFiniteSet(S)
      BY <1>1, <3>1
    <3> HIDE DEF count, new, T, S
    <3>3. SumFunctionOnSet(new, S) = SumFunctionOnSet(count, S \cap T)
      BY <3>2, SumPart
    <3> QED
      BY <3>3 DEF T, S
  <2>2. Cohort \cap Newcomers = Newcomers
    BY <1>1
  <2> HIDE DEF count, new
  <2> QED
    BY <2>1, <2>2
<1>3. n \in Nat
  BY <1>1, <1>2, SumNat
<1>4. ArriveStep(Q, R, n)
  <2>1. n = SumFunctionOnSet([c \in Cohort |-> Trip(c).count], Newcomers) /\ Q = Arrive(R)
    OBVIOUS
  <2> HIDE DEF n, Q
  <2> QED
    BY <2>1, ArriveFields
<1>5. HasFields(Q)
  BY RidersHave, ArriveHas
<1> HIDE DEF n, Q
<1>6. \A c \in Cohort : /\ R.waiting[c] \in Nat /\ new[c] \in Nat
                        /\ Q.waiting[c] = R.waiting[c] + new[c]
  <2> SUFFICES ASSUME NEW c \in Cohort
               PROVE  /\ R.waiting[c] \in Nat /\ new[c] \in Nat
                      /\ Q.waiting[c] = R.waiting[c] + new[c]
    OBVIOUS
  <2>1. R.waiting[c] \in Nat /\ new[c] \in Nat
    BY <1>1 DEF Riders
  <2>2. Q.waiting[c] = IF c \in Newcomers THEN Trip(c).count ELSE R.waiting[c]
    BY <1>4 DEF ArriveStep
  <2>3. CASE c \in Newcomers
    <3>1. ~(Trip(c).tick < now)
      BY <1>1, <2>3
    <3>2. R.waiting[c] = 0
      BY <3>1, NotYet
    <3> QED
      BY <2>1, <2>2, <2>3, <3>2
  <2>4. CASE c \notin Newcomers
    BY <2>1, <2>2, <2>4
  <2> QED
    BY <2>3, <2>4
<1>7. \A c \in Cohort : /\ Came(now)[c] \in Nat
                        /\ Came(now + 1)[c] = Came(now)[c] + new[c]
  <2> SUFFICES ASSUME NEW c \in Cohort
               PROVE  /\ Came(now)[c] \in Nat
                      /\ Came(now + 1)[c] = Came(now)[c] + new[c]
    OBVIOUS
  <2>1. Trip(c).tick \in Nat /\ Trip(c).count \in Nat
    BY TripType
  <2>2. new[c] = IF Trip(c).tick = now THEN Trip(c).count ELSE 0
    BY <1>1
  <2> HIDE DEF new
  <2> QED
    BY <2>1, <2>2 DEF Came
<1> HIDE DEF new, count
<1>8. SumFunctionOnSet(Q.waiting, Cohort) = SumFunctionOnSet(R.waiting, Cohort) + n
  <2>1. SumFunctionOnSet(Q.waiting, Cohort)
          = SumFunctionOnSet(R.waiting, Cohort) + SumFunctionOnSet(new, Cohort)
    <3>1. \A c \in Cohort : /\ R.waiting[c] \in Int /\ new[c] \in Int
                            /\ Q.waiting[c] = R.waiting[c] + new[c]
      BY <1>6
    <3> QED
      BY <1>1, <3>1, SumAdd
  <2> QED
    BY <1>2, <2>1
<1>9. SumFunctionOnSet(Came(now + 1), Cohort) = SumFunctionOnSet(Came(now), Cohort) + n
  <2>1. SumFunctionOnSet(Came(now + 1), Cohort)
          = SumFunctionOnSet(Came(now), Cohort) + SumFunctionOnSet(new, Cohort)
    <3>1. \A c \in Cohort : /\ Came(now)[c] \in Int /\ new[c] \in Int
                            /\ Came(now + 1)[c] = Came(now)[c] + new[c]
      BY <1>6, <1>7
    <3> QED
      BY <1>1, <3>1, SumAdd
  <2> QED
    BY <1>2, <2>1
<1>10. /\ Q.completed = R.completed /\ Q.abandoned = R.abandoned
       /\ Q.aboard = R.aboard /\ Q.load = R.load
  BY <1>4 DEF ArriveStep
<1>11. /\ Q.totals.generated = R.totals.generated + n
       /\ Q.totals.waiting = R.totals.waiting + n
       /\ Q.totals.onboard = R.totals.onboard
       /\ Q.totals.completed = R.totals.completed
       /\ Q.totals.abandoned = R.totals.abandoned
       /\ Q.totals \in Counters
  <2>1. R.totals \in Counters
    BY DEF Riders
  <2>2. Q.totals = [R.totals EXCEPT !.generated = @ + n, !.waiting = @ + n]
    BY <1>4 DEF ArriveStep
  <2>3. R.totals.generated + n \in Int /\ R.totals.waiting + n \in Int
    BY <1>3, <2>1 DEF Counters
  <2> QED
    BY <2>1, <2>2, <2>3 DEF Counters
<1>12. ASSUME NEW c \in Cohort
       PROVE  Q.waiting[c] + Riding(Q.aboard, c) + Q.completed[c] + Q.abandoned[c]
                = Came(now + 1)[c]
  <2>1. R.waiting[c] + Riding(R.aboard, c) + R.completed[c] + R.abandoned[c] = Came(now)[c]
    BY DEF Counted
  <2>2. R.completed[c] \in Nat /\ R.abandoned[c] \in Nat /\ Riding(R.aboard, c) \in Nat
    BY RidingNat DEF Riders
  <2> QED
    BY <1>6, <1>7, <1>10, <2>1, <2>2
<1>13. Counted(Q, Came(now + 1))
  BY <1>8, <1>9, <1>10, <1>11, <1>12 DEF Counted
<1>14. Q.waiting \in [Cohort -> Nat]
  <2>1. Q.waiting = [c \in Cohort |-> IF c \in Newcomers THEN Trip(c).count ELSE R.waiting[c]]
    BY <1>4 DEF ArriveStep
  <2>2. \A c \in Cohort : Trip(c).count \in Nat
    BY TripType
  <2> QED
    BY <1>6, <2>1, <2>2
<1>15. /\ Q.aboard \in [Bus -> [Cohort -> Nat]] /\ Q.load \in [Bus -> 0 .. Capacity]
       /\ Q.completed \in [Cohort -> Nat] /\ Q.abandoned \in [Cohort -> Nat]
       /\ Q.denied \in [Cohort -> BOOLEAN]
       /\ Q.boardedAt \in [Bus -> [Cohort -> Nat]]
       /\ Q.waited \in [Cohort -> [0 .. Horizon -> Nat]]
       /\ Q.rode \in [Cohort -> [0 .. Horizon -> Nat]]
       /\ Q.branded \in Nat
       /\ Q.billed \in [denied : Nat, abandoned : Nat, unfinished : Nat]
       /\ Q.recent \in Seq(Entry)
  BY <1>4 DEF ArriveStep, Riders
<1>16. Q \in Riders
  BY <1>5, <1>11, <1>14, <1>15, RidersType
<1> QED
  BY <1>13, <1>16 DEF Q

-----------------------------------------------------------------------------
(* Buses in turn *)

\* A finite set of numbers has a greatest element.
LEMMA MaxIn ==
  ASSUME NEW S \in SUBSET Nat, IsFiniteSet(S), S # {}
  PROVE  Max(S) \in S
<1> DEFINE P == {T \in SUBSET S : T # {} => \E x \in T : \A y \in T : x >= y}
<1>1. {} \in P
  OBVIOUS
<1>2. ASSUME NEW T \in SUBSET S, T # {}, \A x \in T : T \ {x} \in P
      PROVE  T \in P
  <2>1. PICK x \in T : TRUE
    BY <1>2
  <2>2. CASE T = {x}
    <3>1. x >= x
      OBVIOUS
    <3> QED
      BY <2>1, <2>2, <3>1
  <2>3. CASE T # {x}
    <3>1. PICK y \in T \ {x} : \A z \in T \ {x} : y >= z
      BY <1>2, <2>1, <2>3
    <3>2. x \in Nat /\ y \in Nat
      OBVIOUS
    <3>3. CASE x >= y
      <4>1. \A z \in T : x >= z
        <5> TAKE z \in T
        <5>1. z \in Nat
          OBVIOUS
        <5> QED
          BY <3>1, <3>2, <3>3, <5>1
      <4> QED
        BY <2>1, <4>1
    <3>4. CASE y >= x
      <4>1. \A z \in T : y >= z
        BY <3>1, <3>4
      <4> QED
        BY <3>1, <4>1
    <3> QED
      BY <3>2, <3>3, <3>4
  <2> QED
    BY <2>2, <2>3
<1> HIDE DEF P
<1>3. S \in P
  BY <1>1, <1>2, SetInductionOn
<1> QED
  BY <1>3 DEF P, Max

\* g tells what the buses of each set make of R0, one after the other.
VisitTurns(g, vs, R0, S) ==
  /\ g[{}] = R0
  /\ \A T \in SUBSET S : T # {} =>
       /\ Max(T) \in T
       /\ g[T] = Visit(g[T \ {Max(T)}], Max(T), vs[Max(T)])

\* g gives the tables after the idle buses of each set have boarded in turn.
IdleTurns(g, vs, R0, S) ==
  /\ g[{}] = R0
  /\ \A T \in SUBSET S : T # {} =>
       /\ Max(T) \in T
       /\ g[T] = BoardIdle(g[T \ {Max(T)}], Max(T), vs[Max(T)])

\* The recursive function behind VisitInTurn.
VisitsOf(g, vs, R0) ==
  g = [s \in SUBSET Bus |-> IF s = {} THEN R0
         ELSE Visit(g[s \ {Max(s)}], Max(s), vs[Max(s)])]

\* The recursive function behind BoardIdleInTurn.
IdlesOf(g, vs, R0) ==
  g = [s \in SUBSET Bus |-> IF s = {} THEN R0
         ELSE BoardIdle(g[s \ {Max(s)}], Max(s), vs[Max(s)])]

\* That recursion has a solution.
LEMMA VisitsExist == ASSUME NEW vs, NEW R0 PROVE \E g : VisitsOf(g, vs, R0)
<1> DEFINE Upto(g, n) == \A s \in SUBSET Bus : Cardinality(s) <= n =>
                 g[s] = IF s = {} THEN R0
                        ELSE Visit(g[s \ {Max(s)}], Max(s), vs[Max(s)])
           Q == {n \in Nat : \E g : Upto(g, n)}
<1>0. /\ IsFiniteSet(Bus)
      /\ \A s \in SUBSET Bus : /\ IsFiniteSet(s) /\ Cardinality(s) \in Nat
                               /\ s # {} => Max(s) \in s
  BY FleetAssumption, FS_Subset, FS_CardinalityType, MaxIn
<1>1. 0 \in Q
  <2>1. \A s \in SUBSET Bus : Cardinality(s) <= 0 => s = {}
    BY <1>0, FS_EmptySet
  <2>2. Upto([s \in SUBSET Bus |-> R0], 0)
    BY <2>1
  <2> QED
    BY <2>2
<1>2. ASSUME NEW n \in Nat, n \in Q PROVE n + 1 \in Q
  <2>1. PICK g : Upto(g, n)
    BY <1>2
  <2> DEFINE h == [s \in SUBSET Bus |->
                     IF Cardinality(s) <= n THEN g[s]
                     ELSE Visit(g[s \ {Max(s)}], Max(s), vs[Max(s)])]
  <2> SUFFICES Upto(h, n + 1)
    <3> HIDE DEF Upto, h
    <3> QED
      OBVIOUS
  <2> SUFFICES ASSUME NEW s \in SUBSET Bus, Cardinality(s) <= n + 1
               PROVE  h[s] = IF s = {} THEN R0
                             ELSE Visit(h[s \ {Max(s)}], Max(s), vs[Max(s)])
    OBVIOUS
  <2>3. CASE s = {}
    <3>1. Cardinality(s) = 0
      BY <2>3, FS_EmptySet
    <3>2. g[s] = R0
      BY <2>1, <2>3, <3>1
    <3>3. h[s] = g[s]
      BY <3>1
    <3> HIDE DEF h
    <3> QED
      BY <2>3, <3>2, <3>3
  <2>4. CASE s # {}
    <3> DEFINE t == s \ {Max(s)}
    <3>1. Max(s) \in s
      BY <1>0, <2>4
    <3>2. t \in SUBSET Bus /\ Cardinality(t) = Cardinality(s) - 1
      BY <1>0, <3>1, FS_RemoveElement
    <3>3. Cardinality(t) <= n
      BY <1>0, <3>2
    <3>4. h[t] = g[t]
      BY <3>2, <3>3
    <3> HIDE DEF t
    <3>5. CASE Cardinality(s) <= n
      <4>1. g[s] = Visit(g[t], Max(s), vs[Max(s)])
        BY <2>1, <2>4, <3>5 DEF t
      <4> QED
        BY <2>4, <3>4, <3>5, <4>1 DEF t
    <3>6. CASE ~(Cardinality(s) <= n)
      BY <2>4, <3>4, <3>6 DEF t
    <3> QED
      BY <3>5, <3>6
  <2> QED
    BY <2>3, <2>4
<1> HIDE DEF Q
<1>4. Cardinality(Bus) \in Q
  BY <1>0, <1>1, <1>2, NatInductionOn
<1>5. PICK g : Upto(g, Cardinality(Bus))
  BY <1>4 DEF Q
<1>6. \A s \in SUBSET Bus : g[s] = IF s = {} THEN R0
                                   ELSE Visit(g[s \ {Max(s)}], Max(s), vs[Max(s)])
  BY <1>0, <1>5, FS_Subset
<1> DEFINE h == [s \in SUBSET Bus |-> g[s]]
<1>7. VisitsOf(h, vs, R0)
  BY <1>0, <1>6 DEF VisitsOf
<1> QED
  BY <1>7

\* VisitInTurn serves the buses in the order of their numbers.
LEMMA VisitInTurns ==
  ASSUME NEW vs, NEW R0
  PROVE  \E g : VisitTurns(g, vs, R0, Bus) /\ VisitInTurn(vs, R0) = g[Bus]
<1> DEFINE G == CHOOSE g : VisitsOf(g, vs, R0)
<1>1. VisitInTurn(vs, R0) = G[Bus]
  BY DEF VisitInTurn, MapThenFoldSet, VisitsOf
<1>2. \E g : VisitsOf(g, vs, R0)
  BY VisitsExist
<1>3. VisitsOf(G, vs, R0)
  BY <1>2
<1> HIDE DEF G
<1>4. \A T \in SUBSET Bus : T # {} => Max(T) \in T
  BY FleetAssumption, FS_Subset, MaxIn
<1>5. VisitTurns(G, vs, R0, Bus)
  BY <1>3, <1>4 DEF VisitTurns, VisitsOf
<1> QED
  BY <1>1, <1>5
\* That recursion has a solution.
LEMMA IdlesExist == ASSUME NEW vs, NEW R0 PROVE \E g : IdlesOf(g, vs, R0)
<1> DEFINE Upto(g, n) == \A s \in SUBSET Bus : Cardinality(s) <= n =>
                 g[s] = IF s = {} THEN R0
                        ELSE BoardIdle(g[s \ {Max(s)}], Max(s), vs[Max(s)])
           Q == {n \in Nat : \E g : Upto(g, n)}
<1>0. /\ IsFiniteSet(Bus)
      /\ \A s \in SUBSET Bus : /\ IsFiniteSet(s) /\ Cardinality(s) \in Nat
                               /\ s # {} => Max(s) \in s
  BY FleetAssumption, FS_Subset, FS_CardinalityType, MaxIn
<1>1. 0 \in Q
  <2>1. \A s \in SUBSET Bus : Cardinality(s) <= 0 => s = {}
    BY <1>0, FS_EmptySet
  <2>2. Upto([s \in SUBSET Bus |-> R0], 0)
    BY <2>1
  <2> QED
    BY <2>2
<1>2. ASSUME NEW n \in Nat, n \in Q PROVE n + 1 \in Q
  <2>1. PICK g : Upto(g, n)
    BY <1>2
  <2> DEFINE h == [s \in SUBSET Bus |->
                     IF Cardinality(s) <= n THEN g[s]
                     ELSE BoardIdle(g[s \ {Max(s)}], Max(s), vs[Max(s)])]
  <2> SUFFICES Upto(h, n + 1)
    <3> HIDE DEF Upto, h
    <3> QED
      OBVIOUS
  <2> SUFFICES ASSUME NEW s \in SUBSET Bus, Cardinality(s) <= n + 1
               PROVE  h[s] = IF s = {} THEN R0
                             ELSE BoardIdle(h[s \ {Max(s)}], Max(s), vs[Max(s)])
    OBVIOUS
  <2>3. CASE s = {}
    <3>1. Cardinality(s) = 0
      BY <2>3, FS_EmptySet
    <3>2. g[s] = R0
      BY <2>1, <2>3, <3>1
    <3>3. h[s] = g[s]
      BY <3>1
    <3> HIDE DEF h
    <3> QED
      BY <2>3, <3>2, <3>3
  <2>4. CASE s # {}
    <3> DEFINE t == s \ {Max(s)}
    <3>1. Max(s) \in s
      BY <1>0, <2>4
    <3>2. t \in SUBSET Bus /\ Cardinality(t) = Cardinality(s) - 1
      BY <1>0, <3>1, FS_RemoveElement
    <3>3. Cardinality(t) <= n
      BY <1>0, <3>2
    <3>4. h[t] = g[t]
      BY <3>2, <3>3
    <3> HIDE DEF t
    <3>5. CASE Cardinality(s) <= n
      <4>1. g[s] = BoardIdle(g[t], Max(s), vs[Max(s)])
        BY <2>1, <2>4, <3>5 DEF t
      <4> QED
        BY <2>4, <3>4, <3>5, <4>1 DEF t
    <3>6. CASE ~(Cardinality(s) <= n)
      BY <2>4, <3>4, <3>6 DEF t
    <3> QED
      BY <3>5, <3>6
  <2> QED
    BY <2>3, <2>4
<1> HIDE DEF Q
<1>4. Cardinality(Bus) \in Q
  BY <1>0, <1>1, <1>2, NatInductionOn
<1>5. PICK g : Upto(g, Cardinality(Bus))
  BY <1>4 DEF Q
<1>6. \A s \in SUBSET Bus : g[s] = IF s = {} THEN R0
                                   ELSE BoardIdle(g[s \ {Max(s)}], Max(s), vs[Max(s)])
  BY <1>0, <1>5, FS_Subset
<1> DEFINE h == [s \in SUBSET Bus |-> g[s]]
<1>7. IdlesOf(h, vs, R0)
  BY <1>0, <1>6 DEF IdlesOf
<1> QED
  BY <1>7

\* BoardIdleInTurn boards the idle buses in the order of their numbers.
LEMMA IdleInTurns ==
  ASSUME NEW vs, NEW R0
  PROVE  \E g : IdleTurns(g, vs, R0, Bus) /\ BoardIdleInTurn(vs, R0) = g[Bus]
<1> DEFINE G == CHOOSE g : IdlesOf(g, vs, R0)
<1>1. BoardIdleInTurn(vs, R0) = G[Bus]
  BY DEF BoardIdleInTurn, MapThenFoldSet, IdlesOf
<1>2. \E g : IdlesOf(g, vs, R0)
  BY IdlesExist
<1>3. IdlesOf(G, vs, R0)
  BY <1>2
<1> HIDE DEF G
<1>4. \A T \in SUBSET Bus : T # {} => Max(T) \in T
  BY FleetAssumption, FS_Subset, MaxIn
<1>5. IdleTurns(G, vs, R0, Bus)
  BY <1>3, <1>4 DEF IdleTurns, IdlesOf
<1> QED
  BY <1>1, <1>5

-----------------------------------------------------------------------------
(* Visits *)

\* A visit keeps types and counts.
LEMMA VisitKeeps ==
  ASSUME day \in Days, now \in Nat, NEW R \in Riders, NEW K, Counted(R, K),
         NEW b \in Bus, NEW v
  PROVE  Visit(R, b, v) \in Riders /\ Counted(Visit(R, b, v), K)
<1>1. Alight(R, b, v.at) \in Riders /\ Counted(Alight(R, b, v.at), K)
  BY AlightKeeps
<1> DEFINE Q == Alight(R, b, v.at)
<1> HIDE DEF Q
<1>2. Q \in Riders /\ Counted(Q, K)
  BY <1>1 DEF Q
<1>3. Board(Q, b, v) \in Riders /\ Counted(Board(Q, b, v), K)
  BY <1>2, BoardType, BoardCounts
<1> QED
  BY <1>2, <1>3 DEF Visit, Q

\* So does the boarding of an idle bus.
LEMMA BoardIdleKeeps ==
  ASSUME day \in Days, now \in Nat, NEW R \in Riders, NEW K, Counted(R, K),
         NEW b \in Bus, NEW v
  PROVE  BoardIdle(R, b, v) \in Riders /\ Counted(BoardIdle(R, b, v), K)
BY BoardType, BoardCounts DEF BoardIdle

\* Q differs from R in what is on bus b; the others keep theirs, and nobody
\* starts to wait.
OnlyOn(Q, R, b) ==
  /\ \A x \in Bus \ {b} : Q.aboard[x] = R.aboard[x] /\ Q.load[x] = R.load[x]
  /\ \A c \in Cohort : Q.waiting[c] <= R.waiting[c]

\* alight changes one bus: those for the stop leave it, the others stay.
LEMMA AlightOnly ==
  ASSUME NEW R \in Riders, NEW b \in Bus, NEW stop
  PROVE  /\ OnlyOn(Alight(R, b, stop), R, b)
         /\ \A c \in Cohort : Alight(R, b, stop).aboard[b][c]
              = IF Trip(c).destination = stop THEN 0 ELSE R.aboard[b][c]
         /\ Alight(R, b, stop).waiting = R.waiting
<1> DEFINE off == GettingOff(R, b, stop)
           Q == Alight(R, b, stop)
<1>1. AlightStep(Q, R, b, off)
  <2>1. off = GettingOff(R, b, stop) /\ Q = Alight(R, b, stop)
    OBVIOUS
  <2> HIDE DEF Q, off
  <2> QED
    BY <2>1, AlightFields
<1>2. \A c \in Cohort : off[c] = IF Trip(c).destination = stop THEN R.aboard[b][c] ELSE 0
  BY GettingOffType
<1> HIDE DEF Q, off
<1>3. /\ R.aboard \in [Bus -> [Cohort -> Nat]] /\ R.load \in [Bus -> 0 .. Capacity]
      /\ R.waiting \in [Cohort -> Nat]
  BY DEF Riders
<1>4. /\ Q.aboard = [R.aboard EXCEPT ![b] = [c \in Cohort |-> R.aboard[b][c] - off[c]]]
      /\ Q.load = [R.load EXCEPT ![b] = @ - SumFunction(off)]
      /\ Q.waiting = R.waiting
  BY <1>1 DEF AlightStep
<1>5. OnlyOn(Q, R, b)
  BY <1>3, <1>4 DEF OnlyOn
<1>6. \A c \in Cohort : Q.aboard[b][c] = IF Trip(c).destination = stop THEN 0 ELSE R.aboard[b][c]
  <2> TAKE c \in Cohort
  <2>1. Q.aboard[b][c] = R.aboard[b][c] - off[c] /\ R.aboard[b][c] \in Nat
    BY <1>3, <1>4
  <2> QED
    BY <1>2, <2>1
<1> QED
  BY <1>4, <1>5, <1>6 DEF Q

\* board changes one bus, by those it takes on.
LEMMA BoardOnly ==
  ASSUME day \in Days, NEW R \in Riders, NEW b \in Bus, NEW v
  PROVE  /\ OnlyOn(Board(R, b, v), R, b)
         /\ \A c \in Cohort :
              /\ Board(R, b, v).aboard[b][c] = R.aboard[b][c] + Taken(R, b, v)[c]
              /\ Board(R, b, v).waiting[c] = R.waiting[c] - Taken(R, b, v)[c]
         /\ Board(R, b, v).load[b] = R.load[b] + SumFunctionOnSet(Taken(R, b, v), Cohort)
<1> DEFINE take == Taken(R, b, v)
           left == {c \in Cohort : Eligible(R, v, c) /\ R.waiting[c] > take[c]}
           refused == SumFunctionOnSet([c \in Cohort |-> R.waiting[c] - take[c]],
                                       NewlyDenied(R, left))
           Q == Board(R, b, v)
<1>1. take \in [Cohort -> Nat] /\ \A c \in Cohort : take[c] <= R.waiting[c]
  BY TakenType
<1>2. SumFunction(take) = SumFunctionOnSet(take, Cohort)
  BY <1>1, SumOf, DayFacts
<1>3. BoardStep(Q, R, b, take, left, refused)
  <2>1. take = Taken(R, b, v)
    BY DEF take
  <2>2. left = {c \in Cohort : Eligible(R, v, c) /\ R.waiting[c] > take[c]}
    BY DEF left
  <2>3. refused = SumFunctionOnSet([c \in Cohort |-> R.waiting[c] - take[c]],
                                   NewlyDenied(R, left))
    BY DEF refused
  <2>4. Q = Board(R, b, v)
    OBVIOUS
  <2> HIDE DEF Q, take, left, refused
  <2> QED
    BY <2>1, <2>2, <2>3, <2>4, BoardFields
<1> HIDE DEF take, left, refused, Q
<1>4. /\ R.aboard \in [Bus -> [Cohort -> Nat]] /\ R.load \in [Bus -> 0 .. Capacity]
      /\ R.waiting \in [Cohort -> Nat]
  BY DEF Riders
<1>5. /\ Q.aboard = [R.aboard EXCEPT ![b] = [c \in Cohort |-> R.aboard[b][c] + take[c]]]
      /\ Q.load = [R.load EXCEPT ![b] = @ + SumFunction(take)]
      /\ Q.waiting = [c \in Cohort |-> R.waiting[c] - take[c]]
  BY <1>3 DEF BoardStep
<1>6. OnlyOn(Q, R, b)
  BY <1>1, <1>4, <1>5 DEF OnlyOn
<1>7. Q.load[b] = R.load[b] + SumFunctionOnSet(take, Cohort)
  BY <1>2, <1>4, <1>5
<1>8. \A c \in Cohort : /\ Q.aboard[b][c] = R.aboard[b][c] + take[c]
                        /\ Q.waiting[c] = R.waiting[c] - take[c]
  BY <1>4, <1>5
<1> QED
  BY <1>6, <1>7, <1>8 DEF Q, take

\* A visit changes one bus.
LEMMA VisitOnly ==
  ASSUME day \in Days, now \in Nat, NEW R \in Riders, NEW K, Counted(R, K),
         NEW b \in Bus, NEW v
  PROVE  OnlyOn(Visit(R, b, v), R, b)
<1> DEFINE A == Alight(R, b, v.at)
<1>1. A \in Riders /\ OnlyOn(A, R, b)
  BY AlightKeeps, AlightOnly
<1> HIDE DEF A
<1>2. OnlyOn(Board(A, b, v), A, b) /\ Board(A, b, v) \in Riders
  BY <1>1, BoardOnly, BoardType
<1>3. \A Q \in Riders : \A c \in Cohort : Q.waiting[c] \in Nat
  BY DEF Riders
<1>4. OnlyOn(Board(A, b, v), R, b)
  BY <1>1, <1>2, <1>3 DEF OnlyOn
<1>5. OnlyOn(R, R, b)
  BY <1>3 DEF OnlyOn
<1> QED
  BY <1>1, <1>4, <1>5 DEF Visit, A

\* The boarding of an idle bus changes one bus.
LEMMA BoardIdleOnly ==
  ASSUME day \in Days, now \in Nat, NEW R \in Riders, NEW b \in Bus, NEW v
  PROVE  OnlyOn(BoardIdle(R, b, v), R, b)
<1>1. \A c \in Cohort : R.waiting[c] \in Nat
  BY DEF Riders
<1>2. OnlyOn(R, R, b)
  BY <1>1 DEF OnlyOn
<1> QED
  BY <1>2, BoardOnly DEF BoardIdle

-----------------------------------------------------------------------------

\* Everybody on a bus with state v gets where they want to go.
RidersOn(v, row) ==
  \A c \in Cohort : row[c] > 0 =>
    /\ v.route = Trip(c).route
    /\ v.direction = Trip(c).direction
    /\ v.phase \in {"TERMINAL_IDLE", "SERVICE_MOVING", "SERVICE_DWELL"}
    /\ IF v.direction = 1
       THEN v.at < Trip(c).destination /\ Trip(c).destination <= ServiceEnd(v)
       ELSE Trip(c).destination < v.at

\* Whoever boards a bus at a stop of its pattern still has his stop ahead.
LEMMA BoardRiders ==
  ASSUME day \in Days, NEW R \in Riders, NEW b \in Bus, NEW v, Good(v),
         v.phase \in {"TERMINAL_IDLE", "SERVICE_DWELL"},
         RidersOn(v, R.aboard[b])
  PROVE  RidersOn(v, Board(R, b, v).aboard[b])
<1> SUFFICES ASSUME NEW c \in Cohort, Board(R, b, v).aboard[b][c] > 0
             PROVE  /\ v.route = Trip(c).route
                    /\ v.direction = Trip(c).direction
                    /\ v.phase \in {"TERMINAL_IDLE", "SERVICE_MOVING", "SERVICE_DWELL"}
                    /\ IF v.direction = 1
                       THEN v.at < Trip(c).destination /\ Trip(c).destination <= ServiceEnd(v)
                       ELSE Trip(c).destination < v.at
  BY DEF RidersOn
<1>1. Board(R, b, v).aboard[b][c] = R.aboard[b][c] + Taken(R, b, v)[c]
  BY BoardOnly
<1>2. R.aboard[b][c] \in Nat
  BY DEF Riders
<1>3. Taken(R, b, v)[c] \in Nat
  BY TakenType
<1>4. CASE R.aboard[b][c] > 0
  BY <1>4 DEF RidersOn
<1>5. CASE Taken(R, b, v)[c] > 0
  <2>1. Eligible(R, v, c)
    BY <1>5, TakenType
  <2>2. /\ Trip(c).route = v.route /\ Trip(c).direction = v.direction
        /\ Trip(c).origin = v.at /\ InPattern(v, c)
    BY <2>1 DEF Eligible
  <2>3. /\ Trip(c).route \in Route /\ Trip(c).direction \in {1, -1}
        /\ Trip(c).origin \in 0 .. LastStop /\ Trip(c).destination \in 0 .. LastStop
        /\ IF Trip(c).direction = 1 THEN Trip(c).origin < Trip(c).destination
                                    ELSE Trip(c).destination < Trip(c).origin
    BY TripType
  <2>4. CASE v.direction = 1
    <3>1. Trip(c).destination <= Limit(v)
      <4>1. CASE v.pattern = "FULL"
        BY <2>3, <4>1, RouteAssumption DEF Limit
      <4>2. CASE v.pattern = "SHORT"
        <5>1. v.turn = TurnStop[v.route] /\ v.route \in Route
          BY <2>2, <4>2 DEF Good, MissionInv
        <5>2. v.turn \in 1 .. LastStop
          BY <5>1, RouteAssumption
        <5>3. Limit(v) = v.turn
          BY <4>2, <5>2, RouteAssumption DEF Limit, TurnOf, Nowhere
        <5> QED
          BY <2>2, <2>4, <4>2, <5>3 DEF InPattern
      <4> QED
        BY <4>1, <4>2 DEF Good, VehicleType
    <3> QED
      BY <2>2, <2>3, <2>4, <3>1 DEF ServiceEnd
  <2>5. CASE v.direction # 1
    BY <2>2, <2>3, <2>5
  <2> QED
    BY <2>4, <2>5
<1> QED
  BY <1>1, <1>2, <1>3, <1>4, <1>5

-----------------------------------------------------------------------------
(* The inductive invariant *)

\* A moving bus heads for the next stop; a standing one is at a stop.
OnItsWay(v) ==
  /\ v.phase = "SERVICE_MOVING" => v.next = v.at + v.direction
  /\ v.phase = "SERVICE_DWELL" => v.at \in Nat

\* The counters add up, and what has been billed of R is what its passengers
\* show; the passengers of the ticks before t have come.
Booked(R, t) ==
  /\ \A c \in Cohort : R.denied[c] => Trip(c).tick < t
  /\ R.billed.denied = R.branded + Marked(R, R.waiting)
  /\ R.billed.abandoned = R.totals.abandoned
  /\ R.billed.unfinished = billed.unfinished
  /\ R.totals.generated = R.totals.waiting + R.totals.onboard
                           + R.totals.completed + R.totals.abandoned

\* Nobody boards in the future.
BoardedBefore(R) == \A b \in Bus, c \in Cohort : R.boardedAt[b][c] <= now

\* The passengers of a cohort board a bus at one time only: while some of them
\* are aboard and others wait where it stands, it is full.
OnceAboard(R, b, v) ==
  \A c \in Cohort : R.aboard[b][c] > 0 =>
    /\ IF v.direction = 1 THEN Trip(c).origin <= v.at ELSE v.at <= Trip(c).origin
    /\ v.phase = "TERMINAL_IDLE" /\ Trip(c).origin = v.at /\ R.waiting[c] > 0
         => R.load[b] = Capacity

\* The journeys that the horizon cuts off are billed there.
SettledOnce ==
  /\ settled = (now = Horizon)
  /\ billed.unfinished = IF settled THEN totals.generated - totals.completed
                                          - totals.abandoned ELSE 0

\* The inductive invariant of the kernel: the fleet's, the types, every passenger in
\* one place, the books, the order in which a cohort boards, the settlement, and for
\* every bus: its riders' stops are ahead, its riders boarded once, and it is where
\* those riders let it be.
KInv ==
  /\ Inv
  /\ day \in Days
  /\ RidersNow \in Riders
  /\ Counted(RidersNow, Came(now))
  /\ Booked(RidersNow, now)
  /\ BoardedBefore(RidersNow)
  /\ SettledOnce
  /\ \A b \in Bus : RidersOn(bus[b], aboard[b])
  /\ \A b \in Bus : OnceAboard(RidersNow, b, bus[b])
  /\ \A b \in Bus : OnItsWay(bus[b])

\* What completing a phase makes of a bus.
LEMMA CompletedOnItsWay ==
  ASSUME Inv, NEW b \in Bus, OnItsWay(bus[b]), NEW v, v = Completed(b)
  PROVE  /\ OnItsWay(v)
         /\ v.phase = "SERVICE_MOVING" => v = bus[b]
<1>1. bus[b] \in VehicleType /\ MissionInv(bus[b])
  BY DEF Inv, TypeOK, MissionsMakeSense
<1>2. CASE bus[b].remaining # 0 \/ bus[b].phase \notin {"DEADHEAD", "SERVICE_MOVING", "LAYOVER"}
  BY <1>2 DEF Completed
<1>3. CASE bus[b].remaining = 0 /\ bus[b].phase = "DEADHEAD"
  <2>1. v = EndDeadhead(bus[b])
    BY <1>3 DEF Completed
  <2>2. v.phase \in {"DEPOT_IDLE", "TERMINAL_IDLE"}
    BY <1>1, <2>1 DEF EndDeadhead, VehicleType
  <2> QED
    BY <2>2 DEF OnItsWay
<1>4. CASE bus[b].remaining = 0 /\ bus[b].phase = "LAYOVER"
  <2>1. v = EndLayover(bus[b])
    BY <1>4 DEF Completed
  <2>2. v.phase = "TERMINAL_IDLE"
    BY <1>1, <2>1 DEF EndLayover, VehicleType
  <2> QED
    BY <2>2 DEF OnItsWay
<1>5. CASE bus[b].remaining = 0 /\ bus[b].phase = "SERVICE_MOVING"
  <2>1. v = EndEdge(bus[b])
    BY <1>5 DEF Completed
  <2>2. v.phase \in {"LAYOVER", "SERVICE_DWELL"} /\ v.at = bus[b].next
    BY <1>1, <2>1 DEF EndEdge, VehicleType
  <2>3. bus[b].next \in 0 .. Limit(bus[b]) /\ bus[b].route \in Route
    BY <1>1, <1>5 DEF MissionInv
  <2>4. Limit(bus[b]) \in 1 .. LastStop
    BY <1>1, <2>3, LimitRange DEF Good
  <2>5. v.at \in Nat
    BY <2>2, <2>3, <2>4, RouteAssumption
  <2> QED
    BY <2>2, <2>5 DEF OnItsWay
<1> QED
  BY <1>2, <1>3, <1>4, <1>5

\* The arrival of a bus at the next stop.
LEMMA EndEdgeIs ==
  ASSUME Inv, NEW b \in Bus, OnItsWay(bus[b]), bus[b].phase = "SERVICE_MOVING",
         bus[b].remaining = 0, NEW v, v = Completed(b)
  PROVE  /\ v.phase \in {"LAYOVER", "SERVICE_DWELL"}
         /\ v.route = bus[b].route
         /\ v.at = bus[b].at + bus[b].direction
         /\ v.phase = "LAYOVER" => v.at = ServiceEnd(bus[b])
         /\ v.phase = "SERVICE_DWELL" =>
              /\ v.direction = bus[b].direction
              /\ ServiceEnd(v) = ServiceEnd(bus[b])
<1> DEFINE u == bus[b]
           w == [u EXCEPT !.at = u.next, !.next = Nowhere]
<1>1. u \in VehicleType /\ u.next = u.at + u.direction
  BY DEF Inv, TypeOK, OnItsWay
<1>2. v = EndEdge(u)
  BY DEF Completed
<1>3. /\ w.at = u.next /\ w.direction = u.direction /\ w.pattern = u.pattern
      /\ w.turn = u.turn /\ w.route = u.route
  BY <1>1 DEF VehicleType
<1>4. ServiceEnd(w) = ServiceEnd(u)
  <2> HIDE DEF u, w
  <2> QED
    BY <1>3 DEF ServiceEnd, Limit, TurnOf
<1>5. v = IF w.at = ServiceEnd(w)
          THEN [w EXCEPT !.phase = "LAYOVER", !.remaining = LayoverTime,
                         !.direction = -u.direction]
          ELSE [w EXCEPT !.phase = "SERVICE_DWELL", !.remaining = DwellTime]
  BY <1>2 DEF EndEdge
<1>6. CASE w.at = ServiceEnd(w)
  <2>1. v.phase = "LAYOVER" /\ v.route = u.route /\ v.at = u.next
    BY <1>1, <1>5, <1>6 DEF VehicleType
  <2> QED
    BY <1>1, <1>3, <1>4, <1>6, <2>1
<1>7. CASE w.at # ServiceEnd(w)
  <2>1. /\ v.phase = "SERVICE_DWELL" /\ v.route = u.route /\ v.at = u.next
        /\ v.direction = u.direction /\ v.pattern = u.pattern /\ v.turn = u.turn
    BY <1>1, <1>5, <1>7 DEF VehicleType
  <2>2. ServiceEnd(v) = ServiceEnd(u)
    <3> HIDE DEF u
    <3> QED
      BY <2>1 DEF ServiceEnd, Limit, TurnOf
  <2> QED
    BY <1>1, <2>1, <2>2
<1> QED
  BY <1>6, <1>7

\* A bus that goes on as it was, or whose phase ends without a visit, keeps its
\* riders; where a deadhead or a layover ends there are none.
LEMMA NoVisitRiders ==
  ASSUME Inv, NEW b \in Bus, RidersOn(bus[b], aboard[b]),
         ~(bus[b].phase = "SERVICE_MOVING" /\ bus[b].remaining = 0)
  PROVE  RidersOn(Completed(b), aboard[b])
<1>1. CASE bus[b].phase \in {"DEADHEAD", "LAYOVER"}
  BY <1>1 DEF RidersOn
<1>2. CASE bus[b].phase \notin {"DEADHEAD", "LAYOVER"}
  <2>1. Completed(b) = bus[b]
    BY <1>2 DEF Completed
  <2> QED
    BY <2>1
<1> QED
  BY <1>1, <1>2

\* After a visit the riders of the bus have their stops ahead, and its load is one
\* that the fleet's own specification allows.
LEMMA VisitServes ==
  ASSUME KInv, NEW R \in Riders, NEW K, Counted(R, K), NEW b \in Bus,
         R.aboard[b] = aboard[b], R.load[b] = load[b],
         NEW v, v = Completed(b)
  PROVE  /\ RidersOn(v, Visit(R, b, v).aboard[b])
         /\ Visit(R, b, v).load[b] \in VisitLoads(b, v)
<1>0. /\ Inv /\ day \in Days /\ now \in Nat /\ RidersOn(bus[b], aboard[b])
      /\ OnItsWay(bus[b]) /\ load[b] \in 0 .. Capacity /\ load[b] \in Nat
      /\ Capacity \in Nat /\ Good(v)
  BY CompletedGood, FleetAssumption DEF KInv, Inv, TypeOK
<1>1. CASE ~(bus[b].phase = "SERVICE_MOVING" /\ bus[b].remaining = 0)
  <2>1. Visit(R, b, v) = R
    BY <1>1 DEF Visit
  <2>2. load[b] \in VisitLoads(b, v)
    BY <1>0, <1>1 DEF VisitLoads
  <2> QED
    BY <1>0, <1>1, <2>1, <2>2, NoVisitRiders
<1>2. CASE bus[b].phase = "SERVICE_MOVING" /\ bus[b].remaining = 0
  <2> DEFINE A == Alight(R, b, v.at)
  <2>1. A \in Riders /\ Counted(A, K)
    BY <1>0, AlightKeeps
  <2>2. \A c \in Cohort : A.aboard[b][c] = IF Trip(c).destination = v.at THEN 0 ELSE aboard[b][c]
    BY AlightOnly
  <2> HIDE DEF A
  <2>3. /\ v.phase \in {"LAYOVER", "SERVICE_DWELL"}
        /\ v.route = bus[b].route
        /\ v.at = bus[b].at + bus[b].direction
        /\ v.phase = "LAYOVER" => v.at = ServiceEnd(bus[b])
        /\ v.phase = "SERVICE_DWELL" =>
             /\ v.direction = bus[b].direction
             /\ ServiceEnd(v) = ServiceEnd(bus[b])
    BY <1>0, <1>2, EndEdgeIs
  <2>4. bus[b].direction \in {1, -1} /\ bus[b].at \in Int /\ ServiceEnd(bus[b]) \in Int
    <3>1. bus[b] \in VehicleType /\ bus[b].route \in Route
      BY <1>0, <1>2 DEF Inv, TypeOK, MissionsMakeSense, MissionInv
    <3>2. Limit(bus[b]) \in 1 .. LastStop
      BY <1>0, <3>1, LimitRange DEF Inv, TypeOK, MissionsMakeSense, Good
    <3> QED
      BY <3>1, <3>2, RouteAssumption DEF VehicleType, Position, Depot, ServiceEnd
  <2>5. CASE v.phase = "LAYOVER"
    <3>1. Visit(R, b, v) = A
      BY <1>2, <2>5 DEF Visit, A
    <3>2. \A c \in Cohort : A.aboard[b][c] = 0
      <4> SUFFICES ASSUME NEW c \in Cohort, A.aboard[b][c] # 0 PROVE FALSE
        OBVIOUS
      <4>1. Trip(c).destination # v.at /\ aboard[b][c] # 0
        BY <2>2
      <4>2. aboard[b][c] \in Nat
        BY DEF KInv, Riders, RidersNow
      <4>3. /\ bus[b].direction = 1 => /\ bus[b].at < Trip(c).destination
                                      /\ Trip(c).destination <= ServiceEnd(bus[b])
            /\ bus[b].direction # 1 => Trip(c).destination < bus[b].at
        BY <1>0, <4>1, <4>2 DEF RidersOn
      <4>4. Trip(c).destination \in 0 .. LastStop
        BY <1>0, TripType
      <4>5. bus[b].direction # 1 => ServiceEnd(bus[b]) = 0
        BY DEF ServiceEnd
      <4> QED
        BY <2>3, <2>4, <2>5, <4>1, <4>3, <4>4, <4>5, RouteAssumption
    <3>3. A.load[b] = 0
      <4>1. A.load[b] = SumFunctionOnSet(A.aboard[b], Cohort)
        BY <2>1 DEF Counted, LoadsCount
      <4> QED
        BY <1>0, <3>2, <4>1, DayFacts, SumZero
    <3>4. 0 \in VisitLoads(b, v)
      BY <1>0, <1>2, <2>5 DEF VisitLoads
    <3> QED
      BY <3>1, <3>2, <3>3, <3>4 DEF RidersOn
  <2>6. CASE v.phase = "SERVICE_DWELL"
    <3>1. Visit(R, b, v) = Board(A, b, v)
      BY <1>2, <2>6 DEF Visit, A
    <3>2. RidersOn(v, A.aboard[b])
      <4> SUFFICES ASSUME NEW c \in Cohort, A.aboard[b][c] > 0
                   PROVE  /\ v.route = Trip(c).route
                          /\ v.direction = Trip(c).direction
                          /\ IF v.direction = 1
                             THEN v.at < Trip(c).destination /\ Trip(c).destination <= ServiceEnd(v)
                             ELSE Trip(c).destination < v.at
        BY <2>6 DEF RidersOn
      <4>1. Trip(c).destination # v.at /\ aboard[b][c] > 0
        BY <2>2
      <4>2. /\ bus[b].route = Trip(c).route /\ bus[b].direction = Trip(c).direction
            /\ bus[b].direction = 1 => /\ bus[b].at < Trip(c).destination
                                       /\ Trip(c).destination <= ServiceEnd(bus[b])
            /\ bus[b].direction # 1 => Trip(c).destination < bus[b].at
        BY <1>0, <4>1 DEF RidersOn
      <4>3. Trip(c).destination \in 0 .. LastStop
        BY <1>0, TripType
      <4> QED
        BY <2>3, <2>4, <2>6, <4>1, <4>2, <4>3, RouteAssumption
    <3>3. RidersOn(v, Board(A, b, v).aboard[b])
      BY <1>0, <2>1, <2>6, <3>2, BoardRiders
    <3>4. Board(A, b, v) \in Riders
      BY <1>0, <2>1, BoardType
    <3>5. Board(A, b, v).load[b] \in 0 .. Capacity
      BY <3>4 DEF Riders
    <3>6. VisitLoads(b, v) = 0 .. Capacity
      BY <1>2, <2>6 DEF VisitLoads
    <3> QED
      BY <3>1, <3>3, <3>5, <3>6
  <2> QED
    BY <2>3, <2>5, <2>6
<1> QED
  BY <1>1, <1>2

\* So they are after an idle bus has boarded.
LEMMA BoardIdleServes ==
  ASSUME KInv, NEW R \in Riders, NEW b \in Bus, NEW v, v = Completed(b),
         RidersOn(v, R.aboard[b]), R.load[b] \in VisitLoads(b, v)
  PROVE  /\ RidersOn(v, BoardIdle(R, b, v).aboard[b])
         /\ BoardIdle(R, b, v).load[b] \in VisitLoads(b, v)
<1>0. /\ Inv /\ day \in Days /\ now \in Nat /\ OnItsWay(bus[b]) /\ Good(v)
      /\ load[b] \in Nat /\ Capacity \in Nat
  BY CompletedGood, FleetAssumption DEF KInv, Inv, TypeOK
<1>1. CASE v.phase = "TERMINAL_IDLE" /\ v.route # NoRoute
  <2>1. BoardIdle(R, b, v) = Board(R, b, v)
    BY <1>1 DEF BoardIdle
  <2>2. RidersOn(v, Board(R, b, v).aboard[b])
    BY <1>0, <1>1, BoardRiders
  <2>3. VisitLoads(b, v) = load[b] .. Capacity
    <3>1. ~(bus[b].phase = "SERVICE_MOVING" /\ bus[b].remaining = 0)
      BY <1>0, <1>1, EndEdgeIs
    <3> QED
      BY <1>1, <3>1 DEF VisitLoads
  <2>4. Board(R, b, v).load[b] = R.load[b] + SumFunctionOnSet(Taken(R, b, v), Cohort)
    BY <1>0, BoardOnly
  <2>5. SumFunctionOnSet(Taken(R, b, v), Cohort) \in Nat
    <3>1. Taken(R, b, v) \in [Cohort -> Nat]
      BY <1>0, TakenType
    <3> QED
      BY <1>0, <3>1, DayFacts, SumOf
  <2>6. Board(R, b, v).load[b] \in 0 .. Capacity
    <3>1. Board(R, b, v) \in Riders
      BY <1>0, BoardType
    <3> QED
      BY <3>1 DEF Riders
  <2> QED
    BY <1>0, <2>1, <2>2, <2>3, <2>4, <2>5, <2>6
<1>2. CASE ~(v.phase = "TERMINAL_IDLE" /\ v.route # NoRoute)
  BY <1>2 DEF BoardIdle
<1> QED
  BY <1>1, <1>2

-----------------------------------------------------------------------------
(* Queues in order *)

\* The tape is in the order of the arrival ticks.
LEMMA TapeInOrder ==
  ASSUME day \in Days, NEW c \in Cohort, NEW d \in Cohort, c < d
  PROVE  Trip(c).tick <= Trip(d).tick
<1> DEFINE m == Len(day.arrivals)
           P == {n \in Nat : c + n \in Cohort => Trip(c).tick <= Trip(c + n).tick}
<1>1. Cohort = 1 .. m /\ m \in Nat
  BY DayFacts
<1>2. c \in 1 .. m /\ d \in 1 .. m
  BY <1>1
<1> HIDE DEF m
<1>3. \A x \in Cohort : Trip(x).tick \in Nat
  BY TripType
<1>4. \A x \in Cohort \ {1} : Trip(x - 1).tick <= Trip(x).tick
  BY DayAssumption DEF ValidDay, Cohort, Trip
<1>5. 0 \in P
  BY <1>1, <1>2, <1>3
<1>6. \A n \in Nat : n \in P => n + 1 \in P
  <2> SUFFICES ASSUME NEW n \in Nat, n \in P, c + (n + 1) \in Cohort
               PROVE  Trip(c).tick <= Trip(c + (n + 1)).tick
    OBVIOUS
  <2>1. c + n \in Cohort
    BY <1>1, <1>2
  <2>2. c + (n + 1) \in Cohort \ {1} /\ (c + (n + 1)) - 1 = c + n
    BY <1>1, <1>2
  <2>3. Trip(c + n).tick <= Trip(c + (n + 1)).tick
    <3>1. Trip((c + (n + 1)) - 1).tick <= Trip(c + (n + 1)).tick
      BY <1>4, <2>2
    <3> QED
      BY <2>2, <3>1
  <2>4. Trip(c).tick <= Trip(c + n).tick
    BY <2>1
  <2> QED
    BY <1>3, <2>1, <2>3, <2>4
<1>7. \A n \in Nat : n \in P
  <2> HIDE DEF P
  <2> QED
    BY <1>5, <1>6, NatInductionOn
<1>8. d - c \in Nat /\ c + (d - c) = d
  BY <1>2
<1> QED
  BY <1>7, <1>8

\* Nobody who came earlier to the stop waits where a FULL bus has taken somebody
\* in this tick; vs are the buses of the tick.
InOrder(R, vs) ==
  \A b \in Bus, c, d \in Cohort :
    /\ c < d
    /\ SameQueue(c, d)
    /\ R.aboard[b][d] > aboard[b][d]
    /\ vs[b].pattern = "FULL"
    => R.waiting[c] = 0

\* It stays so when nobody starts to wait and no bus takes anybody.
LEMMA InOrderKept ==
  ASSUME NEW R \in Riders, NEW Q \in Riders, NEW vs, RidersNow \in Riders, InOrder(R, vs),
         \A c \in Cohort : Q.waiting[c] <= R.waiting[c],
         \A b \in Bus, c \in Cohort : Q.aboard[b][c] <= R.aboard[b][c]
  PROVE  InOrder(Q, vs)
<1> SUFFICES ASSUME NEW b \in Bus, NEW c \in Cohort, NEW d \in Cohort, c < d,
                    SameQueue(c, d), Q.aboard[b][d] > aboard[b][d],
                    vs[b].pattern = "FULL"
             PROVE  Q.waiting[c] = 0
  BY DEF InOrder
<1>1. /\ Q.waiting[c] \in Nat /\ R.waiting[c] \in Nat
      /\ Q.aboard[b][d] \in Nat /\ R.aboard[b][d] \in Nat /\ aboard[b][d] \in Nat
  BY DEF Riders, RidersNow
<1>2. R.aboard[b][d] > aboard[b][d]
  BY <1>1
<1>3. R.waiting[c] = 0
  BY <1>2 DEF InOrder
<1> QED
  BY <1>1, <1>3

\* Boarding a bus does not let later cohorts pass earlier ones.
LEMMA BoardInOrder ==
  ASSUME day \in Days, now \in Nat, RidersNow \in Riders,
         NEW R \in Riders, NEW vs, InOrder(R, vs), NEW b \in Bus
  PROVE  InOrder(Board(R, b, vs[b]), vs)
<1> DEFINE Q == Board(R, b, vs[b])
           take == Taken(R, b, vs[b])
<1>1. Q \in Riders /\ OnlyOn(Q, R, b)
  BY BoardType, BoardOnly
<1>2. \A c \in Cohort : /\ Q.aboard[b][c] = R.aboard[b][c] + take[c]
                        /\ Q.waiting[c] = R.waiting[c] - take[c]
  BY BoardOnly
<1>3. /\ take \in [Cohort -> Nat]
      /\ \A c \in Cohort : take[c] > 0 => Eligible(R, vs[b], c)
  BY TakenType
<1>4. \A c, d \in Cohort : c < d /\ Eligible(R, vs[b], c) /\ take[d] > 0
                             => take[c] = R.waiting[c]
  BY TakenInOrder
<1> HIDE DEF Q, take
<1> SUFFICES ASSUME NEW x \in Bus, NEW c \in Cohort, NEW d \in Cohort, c < d,
                    SameQueue(c, d), Q.aboard[x][d] > aboard[x][d],
                    vs[x].pattern = "FULL"
             PROVE  Q.waiting[c] = 0
  BY DEF InOrder, Q
<1>5. /\ Q.waiting[c] \in Nat /\ R.waiting[c] \in Nat
      /\ Q.aboard[x][d] \in Nat /\ R.aboard[x][d] \in Nat /\ aboard[x][d] \in Nat
      /\ Q.waiting[c] <= R.waiting[c]
  BY <1>1 DEF Riders, RidersNow, OnlyOn
<1>6. CASE R.aboard[x][d] > aboard[x][d]
  <2>1. R.waiting[c] = 0
    BY <1>6 DEF InOrder
  <2> QED
    BY <1>5, <2>1
<1>7. CASE ~(R.aboard[x][d] > aboard[x][d])
  <2>1. Q.aboard[x][d] > R.aboard[x][d]
    BY <1>5, <1>7
  <2>2. x = b
    BY <1>1, <1>5, <2>1 DEF OnlyOn
  <2>3. take[d] > 0
    BY <1>2, <1>3, <1>5, <2>1, <2>2
  <2>4. Eligible(R, vs[b], d)
    BY <1>3, <2>3
  <2>5. CASE R.waiting[c] = 0
    BY <1>5, <2>5
  <2>6. CASE R.waiting[c] # 0
    <3>1. Eligible(R, vs[b], c)
      BY <1>5, <2>2, <2>4, <2>6 DEF Eligible, SameQueue, InPattern
    <3>2. take[c] = R.waiting[c]
      BY <1>4, <2>3, <3>1
    <3> QED
      BY <1>2, <1>5, <3>2
  <2> QED
    BY <2>5, <2>6
<1> QED
  BY <1>6, <1>7

\* Nor does a visit.
LEMMA VisitInOrder ==
  ASSUME day \in Days, now \in Nat, RidersNow \in Riders,
         NEW R \in Riders, NEW K, Counted(R, K), NEW vs, InOrder(R, vs), NEW b \in Bus
  PROVE  InOrder(Visit(R, b, vs[b]), vs)
<1> DEFINE A == Alight(R, b, vs[b].at)
<1>1. A \in Riders
  BY AlightKeeps
<1>2. InOrder(A, vs)
  <2>1. /\ OnlyOn(A, R, b)
        /\ \A c \in Cohort : A.aboard[b][c]
             = IF Trip(c).destination = vs[b].at THEN 0 ELSE R.aboard[b][c]
    BY AlightOnly
  <2> HIDE DEF A
  <2>2. \A x \in Bus, c \in Cohort : A.aboard[x][c] \in Nat /\ R.aboard[x][c] \in Nat
    BY <1>1 DEF Riders
  <2>3. \A x \in Bus, c \in Cohort : A.aboard[x][c] <= R.aboard[x][c]
    <3> TAKE x \in Bus, c \in Cohort
    <3>1. CASE x = b
      BY <2>1, <2>2, <3>1
    <3>2. CASE x # b
      BY <2>1, <2>2, <3>2 DEF OnlyOn
    <3> QED
      BY <3>1, <3>2
  <2> QED
    BY <1>1, <2>1, <2>3, InOrderKept DEF OnlyOn
<1>3. InOrder(Board(A, b, vs[b]), vs)
  BY <1>1, <1>2, BoardInOrder
<1> QED
  BY <1>2, <1>3 DEF Visit

\* Nor do arrivals: newcomers stand at the end.
LEMMA ArriveInOrder ==
  ASSUME day \in Days, now \in Nat, RidersNow \in Riders,
         NEW R \in Riders, Counted(R, Came(now)), NEW vs, InOrder(R, vs)
  PROVE  InOrder(Arrive(R), vs)
<1> DEFINE Q == Arrive(R)
           n == SumFunctionOnSet([c \in Cohort |-> Trip(c).count], Newcomers)
<1>1. ArriveStep(Q, R, n)
  BY ArriveFields
<1>2. /\ Q.aboard = R.aboard
      /\ Q.waiting = [c \in Cohort |-> IF c \in Newcomers THEN Trip(c).count ELSE R.waiting[c]]
  BY <1>1 DEF ArriveStep
<1> HIDE DEF Q, n
<1> SUFFICES ASSUME NEW b \in Bus, NEW c \in Cohort, NEW d \in Cohort, c < d,
                    SameQueue(c, d), Q.aboard[b][d] > aboard[b][d],
                    vs[b].pattern = "FULL"
             PROVE  Q.waiting[c] = 0
  BY DEF InOrder, Q
<1>3. R.waiting[c] = 0
  BY <1>2 DEF InOrder
<1>4. R.aboard[b][d] > 0
  <2>1. aboard[b][d] \in Nat /\ R.aboard[b][d] \in Nat
    BY DEF Riders, RidersNow
  <2>2. R.aboard[b][d] > aboard[b][d]
    BY <1>2
  <2> QED
    BY <2>1, <2>2
<1>5. Trip(d).tick < now
  <2> SUFFICES ASSUME ~(Trip(d).tick < now) PROVE FALSE
    OBVIOUS
  <2>1. Riding(R.aboard, d) = 0
    BY NotYet
  <2> DEFINE f == [x \in Bus |-> R.aboard[x][d]]
  <2>2. \A x \in Bus : f[x] \in Nat
    BY DEF Riders
  <2>3. f[b] <= SumFunctionOnSet(f, Bus)
    <3> HIDE DEF f
    <3> QED
      BY <2>2, FleetAssumption, SumBounds
  <2>4. SumFunctionOnSet(f, Bus) = 0
    BY <2>1 DEF Riding
  <2>5. f[b] > 0
    BY <1>4
  <2> HIDE DEF f
  <2> QED
    BY <2>2, <2>3, <2>4, <2>5
<1>6. Trip(c).tick < now
  <2>1. Trip(c).tick <= Trip(d).tick
    BY TapeInOrder
  <2>2. Trip(c).tick \in Nat /\ Trip(d).tick \in Nat
    BY TripType
  <2> QED
    BY <1>5, <2>1, <2>2
<1>7. c \notin Newcomers
  BY <1>6 DEF Newcomers
<1> QED
  BY <1>2, <1>3, <1>7

\* Nor does giving up.
LEMMA AbandonInOrder ==
  ASSUME day \in Days, now \in Nat, RidersNow \in Riders,
         NEW R \in Riders, NEW K, Counted(R, K), NEW vs, InOrder(R, vs)
  PROVE  InOrder(Abandon(R), vs)
<1> DEFINE Q == Abandon(R)
           gone == GivingUp(R)
<1>1. AbandonStep(Q, R, gone)
  BY AbandonFields
<1>2. Q.aboard = R.aboard /\ Q.waiting = [c \in Cohort |-> R.waiting[c] - gone[c]]
  BY <1>1 DEF AbandonStep
<1>3. Q \in Riders
  BY AbandonKeeps
<1>4. gone \in [Cohort -> Nat]
  BY GivingUpType
<1> HIDE DEF gone, Q
<1>5. \A c \in Cohort : Q.waiting[c] <= R.waiting[c]
  BY <1>2, <1>4 DEF Riders
<1>6. \A b \in Bus, c \in Cohort : Q.aboard[b][c] <= R.aboard[b][c]
  BY <1>2 DEF Riders
<1>7. InOrder(Q, vs)
  BY <1>3, <1>5, <1>6, InOrderKept
<1> QED
  BY <1>7 DEF Q

-----------------------------------------------------------------------------
(* The books: denials and abandonments *)

\* Parts of tables of the right type.
LEMMA RidersParts ==
  ASSUME NEW R \in Riders
  PROVE  /\ R.waiting \in [Cohort -> Nat] /\ R.denied \in [Cohort -> BOOLEAN]
         /\ R.branded \in Nat /\ R.billed.denied \in Nat /\ R.billed.abandoned \in Nat
         /\ R.billed \in [denied : Nat, abandoned : Nat, unfinished : Nat]
         /\ R.totals.abandoned \in Int /\ R.totals \in Counters
BY DEF Riders, Counters

\* board keeps the books: a refused passenger is billed once and carries the mark.
LEMMA BoardBooks ==
  ASSUME day \in Days, now \in Nat, NEW R \in Riders, NEW t \in Nat,
         Counted(R, Came(t)), Booked(R, t), NEW b \in Bus, NEW v
  PROVE  Booked(Board(R, b, v), t)
<1> DEFINE Q == Board(R, b, v)
           take == Taken(R, b, v)
           left == {c \in Cohort : Eligible(R, v, c) /\ R.waiting[c] > take[c]}
           g == [c \in Cohort |-> R.waiting[c] - take[c]]
           N == NewlyDenied(R, left)
           refused == SumFunctionOnSet(g, N)
           D == {c \in Cohort : R.denied[c]}
           E == {c \in Cohort : Q.denied[c]}
<1>1. BoardStep(Q, R, b, take, left, refused)
  BY BoardFields
<1>2. /\ Q.waiting = g
      /\ Q.denied = [c \in Cohort |-> R.denied[c] \/ c \in left]
      /\ Q.branded = R.branded + Marked(R, take)
      /\ Q.billed = [R.billed EXCEPT !.denied = @ + refused]
      /\ Q.totals = [R.totals EXCEPT !.waiting = @ - SumFunction(take),
                                     !.onboard = @ + SumFunction(take)]
  BY <1>1 DEF BoardStep
<1>3. take \in [Cohort -> Nat] /\ (\A c \in Cohort : take[c] <= R.waiting[c])
  BY TakenType
<1>4. left \in SUBSET Cohort /\ N = {c \in left : ~R.denied[c]}
  BY DEF NewlyDenied
<1>5. \A c \in left : Trip(c).tick < t
  <2> SUFFICES ASSUME NEW c \in left, ~(Trip(c).tick < t) PROVE FALSE
    OBVIOUS
  <2>1. R.waiting[c] = 0
    BY NotYet
  <2>2. take[c] \in Nat /\ R.waiting[c] > take[c]
    BY <1>3
  <2> QED
    BY <2>1, <2>2
<1>6. Marked(R, take) = SumFunctionOnSet(take, D) /\ Marked(R, R.waiting) = SumFunctionOnSet(R.waiting, D)
  BY DEF Marked
<1>7. Marked(Q, Q.waiting) = SumFunctionOnSet(g, E)
  BY <1>2 DEF Marked
<1>8. IsFiniteSet(D) /\ IsFiniteSet(E) /\ IsFiniteSet(N)
  <2>1. D \in SUBSET Cohort /\ E \in SUBSET Cohort /\ N \in SUBSET Cohort
    BY <1>4
  <2> HIDE DEF D, E, N
  <2> QED
    BY <2>1, DayFacts, FS_Subset
<1>9. D \in SUBSET E /\ E \ D = N
  BY <1>2, <1>4
<1>10. /\ R.waiting \in [Cohort -> Nat] /\ R.branded \in Nat /\ R.billed.denied \in Nat
       /\ R.billed \in [denied : Nat, abandoned : Nat, unfinished : Nat]
       /\ R.totals \in Counters
  BY RidersParts
<1>11. D \in SUBSET Cohort /\ E \in SUBSET Cohort /\ N \in SUBSET Cohort
  BY <1>4
<1>12. \A c \in Cohort : g[c] \in Nat /\ g[c] = R.waiting[c] - take[c]
  BY <1>3, <1>10
<1>13. \A c \in Cohort : Q.denied[c] => Trip(c).tick < t
  BY <1>2, <1>5 DEF Booked
<1>14. /\ Q.billed.abandoned = R.billed.abandoned
       /\ Q.billed.unfinished = R.billed.unfinished
       /\ Q.billed.denied = R.billed.denied + refused
       /\ Q.totals.abandoned = R.totals.abandoned
  BY <1>2, <1>10 DEF Counters
<1>15. refused = SumFunctionOnSet(g, N)
  OBVIOUS
<1>21. Q.totals.generated = Q.totals.waiting + Q.totals.onboard
                            + Q.totals.completed + Q.totals.abandoned
  <2> DEFINE n == SumFunction(take)
             T == R.totals
  <2>1. n \in Nat
    BY <1>3, DayFacts, SumOf
  <2>2. T \in Counters /\ Q.totals = [T EXCEPT !.waiting = @ - n, !.onboard = @ + n]
    BY <1>2, <1>10
  <2>3. T.generated = T.waiting + T.onboard + T.completed + T.abandoned
    BY DEF Booked
  <2> HIDE DEF n, T
  <2> QED
    BY <2>1, <2>2, <2>3 DEF Counters
<1> HIDE DEF D, E, N, g, refused, take, Q, left
<1>16. SumFunctionOnSet(g, E) = SumFunctionOnSet(g, D) + SumFunctionOnSet(g, N)
  <2>1. \A x \in E : g[x] \in Int
    BY <1>11, <1>12
  <2> QED
    BY <1>8, <1>9, <2>1, SumDivide
<1>17. SumFunctionOnSet(g, D) = SumFunctionOnSet(R.waiting, D) - SumFunctionOnSet(take, D)
  <2>1. \A x \in D : R.waiting[x] \in Int /\ take[x] \in Int /\ g[x] = R.waiting[x] - take[x]
    BY <1>3, <1>10, <1>11, <1>12
  <2> QED
    BY <1>8, <2>1, SumSubtract
<1>18. SumFunctionOnSet(R.waiting, D) \in Int /\ SumFunctionOnSet(take, D) \in Int /\ SumFunctionOnSet(g, N) \in Int
  <2>1. \A x \in D : R.waiting[x] \in Int /\ take[x] \in Int
    BY <1>3, <1>10, <1>11
  <2>2. \A x \in N : g[x] \in Int
    BY <1>11, <1>12
  <2> QED
    BY <1>8, <2>1, <2>2, SumInt
<1>19. Q.billed.denied = Q.branded + Marked(Q, Q.waiting)
  <2>1. R.billed.denied = R.branded + SumFunctionOnSet(R.waiting, D)
    BY <1>6 DEF Booked
  <2> QED
    BY <1>2, <1>6, <1>7, <1>10, <1>14, <1>15, <1>16, <1>17, <1>18, <2>1
<1>20. Booked(Q, t)
  BY <1>13, <1>14, <1>19, <1>21 DEF Booked
<1> QED
  BY <1>20 DEF Q

\* alight keeps the books.
LEMMA AlightBooks ==
  ASSUME day \in Days, NEW R \in Riders, NEW t, Booked(R, t), NEW b \in Bus, NEW stop
  PROVE  Booked(Alight(R, b, stop), t)
<1> DEFINE Q == Alight(R, b, stop)
           off == GettingOff(R, b, stop)
<1>1. AlightStep(Q, R, b, off)
  BY AlightFields
<1>2. /\ Q.waiting = R.waiting /\ Q.denied = R.denied /\ Q.branded = R.branded
      /\ Q.billed = R.billed
      /\ Q.totals = [R.totals EXCEPT !.onboard = @ - SumFunction(off),
                                     !.completed = @ + SumFunction(off)]
  BY <1>1 DEF AlightStep
<1>3. R.totals \in Counters
  BY RidersParts
<1>4. Q.totals.abandoned = R.totals.abandoned
  BY <1>2, <1>3 DEF Counters
<1>5. Q.totals.generated = Q.totals.waiting + Q.totals.onboard
                           + Q.totals.completed + Q.totals.abandoned
  <2> DEFINE n == SumFunction(off)
             T == R.totals
  <2>1. n \in Nat
    BY GettingOffType, DayFacts, SumOf
  <2>2. T \in Counters /\ Q.totals = [T EXCEPT !.onboard = @ - n, !.completed = @ + n]
    BY <1>2, <1>3
  <2>3. T.generated = T.waiting + T.onboard + T.completed + T.abandoned
    BY DEF Booked
  <2> HIDE DEF n, T
  <2> QED
    BY <2>1, <2>2, <2>3 DEF Counters
<1> HIDE DEF Q, off
<1>6. Booked(Q, t)
  BY <1>2, <1>4, <1>5 DEF Booked, Marked
<1> QED
  BY <1>6 DEF Q

\* generate_arrivals keeps the books, for one tick more.
LEMMA ArriveBooks ==
  ASSUME day \in Days, now \in Nat, NEW R \in Riders, Counted(R, Came(now)), Booked(R, now)
  PROVE  Booked(Arrive(R), now + 1)
<1> DEFINE Q == Arrive(R)
           n == SumFunctionOnSet([c \in Cohort |-> Trip(c).count], Newcomers)
           D == {c \in Cohort : R.denied[c]}
<1>1. ArriveStep(Q, R, n)
  BY ArriveFields
<1>2. /\ Q.waiting = [c \in Cohort |-> IF c \in Newcomers THEN Trip(c).count ELSE R.waiting[c]]
      /\ Q.denied = R.denied /\ Q.branded = R.branded /\ Q.billed = R.billed
      /\ Q.totals = [R.totals EXCEPT !.generated = @ + n, !.waiting = @ + n]
  BY <1>1 DEF ArriveStep
<1>3. R.totals \in Counters
  BY RidersParts
<1>4. Q.totals.abandoned = R.totals.abandoned
  BY <1>2, <1>3 DEF Counters
<1>5. \A c \in D : c \notin Newcomers
  BY TripType DEF Booked, Newcomers
<1>6. \A c \in D : Q.waiting[c] = R.waiting[c]
  BY <1>2, <1>5
<1>7. IsFiniteSet(D)
  BY DayFacts, FS_Subset
<1>8. Marked(Q, Q.waiting) = SumFunctionOnSet(Q.waiting, D) /\ Marked(R, R.waiting) = SumFunctionOnSet(R.waiting, D)
  BY <1>2 DEF Marked
<1>9. \A c \in Cohort : R.denied[c] => Trip(c).tick < now + 1
  BY TripType DEF Booked
<1>12. Q.totals.generated = Q.totals.waiting + Q.totals.onboard
                            + Q.totals.completed + Q.totals.abandoned
  <2> DEFINE T == R.totals
             f == [c \in Cohort |-> Trip(c).count]
  <2>1. n \in Int
    <3>1. \A c \in Newcomers : f[c] \in Int
      BY TripType DEF Newcomers
    <3>2. IsFiniteSet(Newcomers)
      BY DayFacts, FS_Subset DEF Newcomers
    <3>3. n = SumFunctionOnSet(f, Newcomers)
      OBVIOUS
    <3> HIDE DEF f, n
    <3> QED
      BY <3>1, <3>2, <3>3, SumInt
  <2>2. T \in Counters /\ Q.totals = [T EXCEPT !.generated = @ + n, !.waiting = @ + n]
    BY <1>2, <1>3
  <2>3. T.generated = T.waiting + T.onboard + T.completed + T.abandoned
    BY DEF Booked
  <2> HIDE DEF n, T
  <2> QED
    BY <2>1, <2>2, <2>3 DEF Counters
<1> HIDE DEF D, Q, n
<1>10. SumFunctionOnSet(Q.waiting, D) = SumFunctionOnSet(R.waiting, D)
  BY <1>6, <1>7, SumEqual
<1>11. Booked(Q, now + 1)
  BY <1>2, <1>4, <1>8, <1>9, <1>10, <1>12 DEF Booked
<1> QED
  BY <1>11 DEF Q

\* abandon keeps the books.
LEMMA AbandonBooks ==
  ASSUME day \in Days, NEW R \in Riders, NEW t, Booked(R, t)
  PROVE  Booked(Abandon(R), t)
<1> DEFINE Q == Abandon(R)
           gone == GivingUp(R)
           D == {c \in Cohort : R.denied[c]}
<1>1. AbandonStep(Q, R, gone)
  BY AbandonFields
<1>2. /\ Q.waiting = [c \in Cohort |-> R.waiting[c] - gone[c]]
      /\ Q.denied = R.denied /\ Q.branded = R.branded + Marked(R, gone)
      /\ Q.billed = [R.billed EXCEPT !.abandoned = @ + SumFunction(gone)]
      /\ Q.totals = [R.totals EXCEPT !.waiting = @ - SumFunction(gone),
                                     !.abandoned = @ + SumFunction(gone)]
  BY <1>1 DEF AbandonStep
<1>3. gone \in [Cohort -> Nat]
  BY GivingUpType
<1>4. /\ R.waiting \in [Cohort -> Nat] /\ R.branded \in Nat /\ R.billed.denied \in Nat
      /\ R.billed \in [denied : Nat, abandoned : Nat, unfinished : Nat]
      /\ R.totals \in Counters
  BY RidersParts
<1>5. /\ Q.billed.abandoned = R.billed.abandoned + SumFunction(gone)
      /\ Q.billed.unfinished = R.billed.unfinished
      /\ Q.billed.denied = R.billed.denied
      /\ Q.totals.abandoned = R.totals.abandoned + SumFunction(gone)
  BY <1>2, <1>4 DEF Counters
<1>6. /\ Marked(R, gone) = SumFunctionOnSet(gone, D)
      /\ Marked(R, R.waiting) = SumFunctionOnSet(R.waiting, D)
      /\ Marked(Q, Q.waiting) = SumFunctionOnSet(Q.waiting, D)
  BY <1>2 DEF Marked
<1>14. Q.totals.generated = Q.totals.waiting + Q.totals.onboard
                            + Q.totals.completed + Q.totals.abandoned
  <2> DEFINE n == SumFunction(gone)
             T == R.totals
  <2>1. n \in Nat
    BY <1>3, DayFacts, SumOf
  <2>2. T \in Counters /\ Q.totals = [T EXCEPT !.waiting = @ - n, !.abandoned = @ + n]
    BY <1>2, <1>4
  <2>3. T.generated = T.waiting + T.onboard + T.completed + T.abandoned
    BY DEF Booked
  <2> HIDE DEF n, T
  <2> QED
    BY <2>1, <2>2, <2>3 DEF Counters
<1>7. IsFiniteSet(D) /\ D \in SUBSET Cohort
  BY DayFacts, FS_Subset
<1> HIDE DEF D, Q, gone
<1>8. \A x \in D : /\ R.waiting[x] \in Int /\ gone[x] \in Int
                   /\ Q.waiting[x] = R.waiting[x] - gone[x]
  BY <1>2, <1>3, <1>4, <1>7
<1>9. SumFunctionOnSet(Q.waiting, D) = SumFunctionOnSet(R.waiting, D) - SumFunctionOnSet(gone, D)
  BY <1>7, <1>8, SumSubtract
<1>10. SumFunctionOnSet(R.waiting, D) \in Int /\ SumFunctionOnSet(gone, D) \in Int
  BY <1>7, <1>8, SumInt
<1>11. Q.billed.denied = Q.branded + Marked(Q, Q.waiting)
  <2>1. R.billed.denied = R.branded + SumFunctionOnSet(R.waiting, D)
    BY <1>6 DEF Booked
  <2> QED
    BY <1>2, <1>4, <1>5, <1>6, <1>9, <1>10, <2>1
<1>12. Q.billed.abandoned = Q.totals.abandoned
  BY <1>5 DEF Booked
<1>13. Booked(Q, t)
  BY <1>2, <1>5, <1>11, <1>12, <1>14 DEF Booked
<1> QED
  BY <1>13 DEF Q

\* A visit keeps the books.
LEMMA VisitBooks ==
  ASSUME day \in Days, now \in Nat, NEW R \in Riders, NEW t \in Nat,
         Counted(R, Came(t)), Booked(R, t), NEW b \in Bus, NEW v
  PROVE  Booked(Visit(R, b, v), t)
<1> DEFINE A == Alight(R, b, v.at)
<1>1. A \in Riders /\ Counted(A, Came(t)) /\ Booked(A, t)
  BY AlightKeeps, AlightBooks
<1>2. Booked(Board(A, b, v), t)
  BY <1>1, BoardBooks
<1> QED
  BY <1>1, <1>2 DEF Visit

-----------------------------------------------------------------------------
(* Minutes: waits *)

\* What is needed of products.
LEMMA Products ==
  /\ \A x, k \in Int : x * k \in Int
  /\ \A x, k \in Nat : x * k \in Nat
  /\ \A x, y, k \in Int : (x + y) * k = x * k + y * k
  /\ \A x, y, k \in Int : (x - y) * k = x * k - y * k
  /\ \A k \in Int : 0 * k = 0 /\ k * 0 = 0
OBVIOUS

\* A product that the provers need not look into.
Worth(n, x) == n * x

\* A worth is an integer.
LEMMA WorthInt == ASSUME NEW x \in Int, NEW k \in Int PROVE Worth(x, k) \in Int
BY DEF Worth

\* A worth of naturals is a natural.
LEMMA WorthNat == ASSUME NEW x \in Nat, NEW k \in Nat PROVE Worth(x, k) \in Nat
BY Products DEF Worth

\* Worths add up.
LEMMA WorthPlus ==
  ASSUME NEW x \in Int, NEW y \in Int, NEW k \in Int, NEW z, z = x + y
  PROVE  Worth(z, k) = Worth(x, k) + Worth(y, k)
BY Products DEF Worth

\* Worths subtract.
LEMMA WorthMinus ==
  ASSUME NEW x \in Int, NEW y \in Int, NEW k \in Int, NEW z, z = x - y
  PROVE  Worth(z, k) = Worth(x, k) - Worth(y, k)
BY Products DEF Worth

\* Nothing is worth nothing.
LEMMA WorthNothing == ASSUME NEW k \in Int PROVE Worth(0, k) = 0 /\ Worth(k, 0) = 0
BY DEF Worth

\* What a minute is worth: nothing before it is due.
Weights == {wt \in [Int -> Nat] : \A i \in Int : i <= 0 => wt[i] = 0}

\* The passengers of a row of times, each with the weight of his.
Span == 0 .. Horizon

\* The worth of a row of times.
Times(row, wt) == SumFunctionOnSet([w \in Span |-> Worth(row[w], wt[w])], Span)

\* The times of a day are finitely many naturals.
LEMMA SpanIs ==
  /\ IsFiniteSet(Span)
  /\ Span \subseteq Nat
  /\ \A n \in Nat : n <= Horizon => n \in Span
<1>1. Horizon \in Nat
  BY TimeAssumption
<1>2. IsFiniteSet(0 .. Horizon)
  BY <1>1, FS_Interval
<1> QED
  BY <1>1, <1>2 DEF Span

\* What the waits of cohort c are worth, and those of all.
WaitOf(R, wt, c) == Times(R.waited[c], wt) + Worth(R.waiting[c], wt[Age(c)])

\* The worth of all waits.
WaitingTime(R, wt) == SumFunctionOnSet([c \in Cohort |-> WaitOf(R, wt, c)], Cohort)

\* A minute is worth one.
Minutes == [i \in Int |-> IF i > 0 THEN i ELSE 0]

\* The same for the time spent aboard.
RideOf(R, b, c) == Worth(R.aboard[b][c], now - R.boardedAt[b][c])

\* The riding minutes of a cohort: those written down and those still running.
RidesOf(R, c) ==
  Times(R.rode[c], Minutes) + SumFunctionOnSet([b \in Bus |-> RideOf(R, b, c)], Bus)

\* All riding minutes.
RideTime(R) == SumFunctionOnSet([c \in Cohort |-> RidesOf(R, c)], Cohort)

\* Minutes is a weight, and a natural number is worth itself.
LEMMA MinutesWeight == Minutes \in Weights /\ (\A i \in Nat : Minutes[i] = i)
BY DEF Minutes, Weights

\* The worth of a row is a natural number.
LEMMA TimesNat ==
  ASSUME NEW row \in [Span -> Nat], NEW wt \in Weights
  PROVE  Times(row, wt) \in Nat
<1> DEFINE f == [w \in Span |-> Worth(row[w], wt[w])]
<1>1. \A w \in Span : f[w] \in Nat
  <2> TAKE w \in Span
  <2>1. row[w] \in Nat /\ wt[w] \in Nat
    BY SpanIs DEF Weights
  <2> QED
    BY <2>1, WorthNat
<1> HIDE DEF f
<1>2. SumFunctionOnSet(f, Span) \in Nat
  BY <1>1, SpanIs, SumNat
<1> QED
  BY <1>2 DEF f, Times

\* The weights of the times of a row in which n more have the time k.
LEMMA TimesChange ==
  ASSUME NEW row \in [Span -> Nat], NEW wt \in Weights,
         NEW k \in Span, NEW n \in Nat, NEW new \in [Span -> Nat],
         new[k] = row[k] + n, \A w \in Span \ {k} : new[w] = row[w],
         NEW p, p = Worth(n, wt[k])
  PROVE  Times(new, wt) = Times(row, wt) + p
<1>1. \A w \in Span : row[w] \in Nat /\ wt[w] \in Nat /\ new[w] \in Nat
  <2> TAKE w \in Span
  <2>1. wt[w] \in Nat
    BY SpanIs DEF Weights
  <2> QED
    BY <2>1
<1> DEFINE f == [w \in Span |-> Worth(row[w], wt[w])]
           g == [w \in Span |-> Worth(new[w], wt[w])]
<1>2. Times(row, wt) = SumFunctionOnSet(f, Span) /\ Times(new, wt) = SumFunctionOnSet(g, Span)
  BY DEF Times
<1>3. \A w \in Span : f[w] = Worth(row[w], wt[w]) /\ g[w] = Worth(new[w], wt[w])
  OBVIOUS
<1> HIDE DEF f, g
<1>4. IsFiniteSet(Span)
  BY SpanIs
<1>5. \A w \in Span : f[w] \in Int /\ g[w] \in Int
  <2> TAKE w \in Span
  <2>1. row[w] \in Int /\ wt[w] \in Int /\ new[w] \in Int
    BY <1>1
  <2>2. Worth(row[w], wt[w]) \in Int /\ Worth(new[w], wt[w]) \in Int
    BY <2>1, WorthInt
  <2> QED
    BY <1>3, <2>2
<1>6. \A w \in Span \ {k} : g[w] = f[w]
  BY <1>3
<1>7. SumFunctionOnSet(g, Span) = SumFunctionOnSet(f, Span) - f[k] + g[k]
  BY <1>4, <1>5, <1>6, SumChange
<1>8. g[k] = f[k] + p
  <2>1. row[k] \in Int /\ n \in Int /\ wt[k] \in Int
    BY <1>1
  <2> DEFINE x == row[k]
             y == wt[k]
             z == new[k]
  <2>2. x \in Int /\ n \in Int /\ y \in Int /\ z = x + n
    BY <2>1
  <2> HIDE DEF x, y, z
  <2>3. Worth(z, y) = Worth(x, y) + Worth(n, y)
    BY <2>2, WorthPlus
  <2> QED
    BY <1>3, <2>3 DEF x, y, z
<1>9. SumFunctionOnSet(f, Span) \in Int /\ f[k] \in Int /\ p \in Int
  <2>1. SumFunctionOnSet(f, Span) \in Int
    BY <1>4, <1>5, SumInt
  <2>2. wt[k] \in Int /\ n \in Int
    BY <1>1
  <2>3. p \in Int
    BY <2>2, WorthInt
  <2> QED
    BY <1>5, <2>1, <2>3
<1> QED
  BY <1>2, <1>7, <1>8, <1>9

\* The parts of a wait are natural numbers.
LEMMA WaitInt ==
  ASSUME day \in Days, now \in Nat, NEW R \in Riders, NEW wt \in Weights, NEW c \in Cohort
  PROVE  /\ Times(R.waited[c], wt) \in Nat
         /\ Age(c) \in Int
         /\ Worth(R.waiting[c], wt[Age(c)]) \in Nat
         /\ wt[Age(c)] \in Nat
         /\ WaitOf(R, wt, c) \in Nat
<1>1. R.waited[c] \in [Span -> Nat] /\ R.waiting[c] \in Nat
  BY DEF Riders, Span
<1>2. Age(c) \in Int
  BY TripType DEF Age
<1>3. wt[Age(c)] \in Nat
  BY <1>2 DEF Weights
<1>4. Times(R.waited[c], wt) \in Nat
  BY <1>1, TimesNat
<1>5. Worth(R.waiting[c], wt[Age(c)]) \in Nat
  BY <1>1, <1>3, WorthNat
<1> QED
  BY <1>2, <1>3, <1>4, <1>5 DEF WaitOf

\* Those who stop waiting after the time they have waited leave it as it was.
LEMMA WaitsMoved ==
  ASSUME day \in Days, now \in Nat, NEW R \in Riders, NEW Q,
         NEW n \in [Cohort -> Nat],
         \A c \in Cohort : n[c] <= R.waiting[c],
         \A c \in Cohort : n[c] > 0 => Age(c) \in Span,
         Q.waiting = [c \in Cohort |-> R.waiting[c] - n[c]],
         Q.waited = Ticked(R.waited, n, Ages),
         NEW wt \in Weights
  PROVE  WaitingTime(Q, wt) = WaitingTime(R, wt)
<1>1. ASSUME NEW c \in Cohort PROVE WaitOf(Q, wt, c) = WaitOf(R, wt, c)
  <2>1. R.waiting[c] \in Nat /\ n[c] \in Nat /\ R.waited[c] \in [Span -> Nat]
    BY DEF Riders, Span
  <2>2. Q.waiting[c] = R.waiting[c] - n[c]
    OBVIOUS
  <2>3. /\ Times(R.waited[c], wt) \in Nat /\ Age(c) \in Int
        /\ Worth(R.waiting[c], wt[Age(c)]) \in Nat /\ wt[Age(c)] \in Nat
    BY WaitInt
  <2>4. CASE n[c] = 0
    <3>1. Q.waited[c] = R.waited[c]
      BY <2>4 DEF Ticked
    <3>2. Q.waiting[c] = R.waiting[c]
      BY <2>1, <2>2, <2>4
    <3> QED
      BY <3>1, <3>2 DEF WaitOf
  <2>5. CASE n[c] # 0
    <3>1. Age(c) \in Span
      BY <2>1, <2>5
    <3>2. Q.waited[c] = [R.waited[c] EXCEPT ![Age(c)] = @ + n[c]]
      BY <2>5 DEF Ticked, Ages
    <3>3. Times(Q.waited[c], wt) = Times(R.waited[c], wt) + Worth(n[c], wt[Age(c)])
      <4> DEFINE row == R.waited[c]
                 new == Q.waited[c]
                 k == Age(c)
                 m == n[c]
                 p == Worth(m, wt[k])
      <4>1. row \in [Span -> Nat] /\ k \in Span /\ m \in Nat
        BY <2>1, <3>1
      <4>2. new = [row EXCEPT ![k] = @ + m]
        BY <3>2
      <4>3. p = Worth(m, wt[k])
        OBVIOUS
      <4> HIDE DEF row, new, k, m, p
      <4>4. /\ new \in [Span -> Nat] /\ new[k] = row[k] + m
            /\ \A w \in Span \ {k} : new[w] = row[w]
        BY <4>1, <4>2
      <4>5. Times(new, wt) = Times(row, wt) + p
        BY <4>1, <4>3, <4>4, TimesChange
      <4> QED
        BY <4>5 DEF row, new, k, m, p
    <3>4. Worth(Q.waiting[c], wt[Age(c)]) = Worth(R.waiting[c], wt[Age(c)]) - Worth(n[c], wt[Age(c)])
      <4> DEFINE x == R.waiting[c]
                 y == n[c]
                 z == Q.waiting[c]
                 k == wt[Age(c)]
      <4>1. x \in Int /\ y \in Int /\ k \in Int /\ z = x - y
        BY <2>1, <2>2, <2>3
      <4> HIDE DEF x, y, z, k
      <4>2. Worth(z, k) = Worth(x, k) - Worth(y, k)
        BY <4>1, WorthMinus
      <4> QED
        BY <4>2 DEF x, y, z, k
    <3>5. Worth(n[c], wt[Age(c)]) \in Int
      <4>1. n[c] \in Int /\ wt[Age(c)] \in Int
        BY <2>1, <2>3
      <4> QED
        BY <4>1, WorthInt
    <3> QED
      BY <2>3, <3>3, <3>4, <3>5 DEF WaitOf
  <2> QED
    BY <2>4, <2>5
<1> DEFINE f == [c \in Cohort |-> WaitOf(R, wt, c)]
           g == [c \in Cohort |-> WaitOf(Q, wt, c)]
<1>2. \A c \in Cohort : g[c] = f[c]
  BY <1>1
<1> HIDE DEF f, g
<1>3. SumFunctionOnSet(g, Cohort) = SumFunctionOnSet(f, Cohort)
  BY <1>2, DayFacts, SumEqual
<1> QED
  BY <1>3 DEF f, g, WaitingTime

\* Whoever waits has come, and not longer ago than the day is old.
LEMMA WaitersAge ==
  ASSUME day \in Days, now \in Nat, now < Horizon, NEW R \in Riders,
         NEW t \in Nat, t <= now + 1, Counted(R, Came(t)), NEW c \in Cohort, R.waiting[c] > 0
  PROVE  Age(c) \in Span
<1>1. Trip(c).tick < t
  BY NotYet
<1> QED
  BY <1>1, TripType, SpanIs, TimeAssumption DEF Age

\* Boarding moves waits from running to written down, and their worth stays.
LEMMA BoardWaits ==
  ASSUME day \in Days, now \in Nat, now < Horizon, NEW R \in Riders,
         NEW t \in Nat, t <= now + 1, Counted(R, Came(t)), NEW b \in Bus, NEW v, NEW wt \in Weights
  PROVE  WaitingTime(Board(R, b, v), wt) = WaitingTime(R, wt)
<1> DEFINE Q == Board(R, b, v)
           take == Taken(R, b, v)
           left == {c \in Cohort : Eligible(R, v, c) /\ R.waiting[c] > take[c]}
           refused == SumFunctionOnSet([c \in Cohort |-> R.waiting[c] - take[c]],
                                    NewlyDenied(R, left))
<1>1. BoardStep(Q, R, b, take, left, refused)
  BY BoardFields
<1>2. /\ Q.waiting = [c \in Cohort |-> R.waiting[c] - take[c]]
      /\ Q.waited = Ticked(R.waited, take, Ages)
  BY <1>1 DEF BoardStep
<1>3. take \in [Cohort -> Nat] /\ (\A c \in Cohort : take[c] <= R.waiting[c])
  BY TakenType
<1> HIDE DEF Q, take, left, refused
<1>4. \A c \in Cohort : take[c] > 0 => Age(c) \in Span
  <2> SUFFICES ASSUME NEW c \in Cohort, take[c] > 0 PROVE Age(c) \in Span
    OBVIOUS
  <2>1. R.waiting[c] \in Nat /\ take[c] \in Nat /\ take[c] <= R.waiting[c]
    BY <1>3 DEF Riders
  <2>2. R.waiting[c] > 0
    BY <2>1
  <2> QED
    BY <2>2, WaitersAge
<1>5. WaitingTime(Q, wt) = WaitingTime(R, wt)
  BY <1>2, <1>3, <1>4, WaitsMoved
<1> QED
  BY <1>5 DEF Q

\* So does giving up.
LEMMA AbandonWaits ==
  ASSUME day \in Days, now \in Nat, now < Horizon, NEW R \in Riders,
         NEW t \in Nat, t <= now + 1, Counted(R, Came(t)), NEW wt \in Weights
  PROVE  WaitingTime(Abandon(R), wt) = WaitingTime(R, wt)
<1> DEFINE Q == Abandon(R)
           gone == GivingUp(R)
<1>1. AbandonStep(Q, R, gone)
  BY AbandonFields
<1>2. /\ Q.waiting = [c \in Cohort |-> R.waiting[c] - gone[c]]
      /\ Q.waited = Ticked(R.waited, gone, Ages)
  BY <1>1 DEF AbandonStep
<1>3. gone \in [Cohort -> Nat] /\ (\A c \in Cohort : gone[c] <= R.waiting[c])
  BY GivingUpType
<1> HIDE DEF Q, gone
<1>4. \A c \in Cohort : gone[c] > 0 => Age(c) \in Span
  <2> SUFFICES ASSUME NEW c \in Cohort, gone[c] > 0 PROVE Age(c) \in Span
    OBVIOUS
  <2>1. R.waiting[c] \in Nat /\ gone[c] \in Nat /\ gone[c] <= R.waiting[c]
    BY <1>3 DEF Riders
  <2>2. R.waiting[c] > 0
    BY <2>1
  <2> QED
    BY <2>2, WaitersAge
<1>5. WaitingTime(Q, wt) = WaitingTime(R, wt)
  BY <1>2, <1>3, <1>4, WaitsMoved
<1> QED
  BY <1>5 DEF Q

\* A passenger who comes has not waited yet.
LEMMA ArriveWaits ==
  ASSUME day \in Days, now \in Nat, NEW R \in Riders, Counted(R, Came(now)), NEW wt \in Weights
  PROVE  WaitingTime(Arrive(R), wt) = WaitingTime(R, wt)
<1> DEFINE Q == Arrive(R)
           n == SumFunctionOnSet([c \in Cohort |-> Trip(c).count], Newcomers)
           f == [c \in Cohort |-> WaitOf(R, wt, c)]
           g == [c \in Cohort |-> WaitOf(Q, wt, c)]
<1>1. ArriveStep(Q, R, n)
  BY ArriveFields
<1>2. /\ Q.waiting = [c \in Cohort |-> IF c \in Newcomers THEN Trip(c).count ELSE R.waiting[c]]
      /\ Q.waited = R.waited
  BY <1>1 DEF ArriveStep
<1> HIDE DEF Q, n
<1>3. ASSUME NEW c \in Cohort PROVE WaitOf(Q, wt, c) = WaitOf(R, wt, c)
  <2>1. CASE c \notin Newcomers
    BY <1>2, <2>1 DEF WaitOf
  <2>2. CASE c \in Newcomers
    <3>1. Trip(c).tick = now /\ Trip(c).count \in Nat
      BY <2>2, TripType DEF Newcomers
    <3>2. R.waiting[c] = 0
      BY <3>1, NotYet
    <3>3. Age(c) = 0
      BY <3>1 DEF Age
    <3>4. wt[Age(c)] = 0
      BY <3>3 DEF Weights
    <3>5. Worth(Q.waiting[c], wt[Age(c)]) = 0 /\ Worth(R.waiting[c], wt[Age(c)]) = 0
      BY <1>2, <2>2, <3>1, <3>2, <3>4, WorthNothing
    <3> QED
      BY <1>2, <3>5 DEF WaitOf
  <2> QED
    BY <2>1, <2>2
<1>4. \A c \in Cohort : g[c] = f[c]
  BY <1>3
<1> HIDE DEF f, g
<1>5. SumFunctionOnSet(g, Cohort) = SumFunctionOnSet(f, Cohort)
  BY <1>4, DayFacts, SumEqual
<1>6. WaitingTime(Q, wt) = WaitingTime(R, wt)
  BY <1>5 DEF f, g, WaitingTime
<1> QED
  BY <1>6 DEF Q

\* Getting off does not touch waits.
LEMMA AlightWaits ==
  ASSUME NEW R \in Riders, NEW b \in Bus, NEW stop, NEW wt
  PROVE  WaitingTime(Alight(R, b, stop), wt) = WaitingTime(R, wt)
<1> DEFINE Q == Alight(R, b, stop)
           off == GettingOff(R, b, stop)
<1>1. AlightStep(Q, R, b, off)
  BY AlightFields
<1>2. Q.waiting = R.waiting /\ Q.waited = R.waited
  BY <1>1 DEF AlightStep
<1> HIDE DEF Q, off
<1>3. WaitingTime(Q, wt) = WaitingTime(R, wt)
  BY <1>2 DEF WaitingTime, WaitOf
<1> QED
  BY <1>3 DEF Q

-----------------------------------------------------------------------------
(* Minutes: rides *)

\* The running ride of a cohort on a bus is an integer.
LEMMA RideInt ==
  ASSUME now \in Nat, NEW R \in Riders, NEW b \in Bus, NEW c \in Cohort
  PROVE  RideOf(R, b, c) \in Int
<1>1. R.aboard[b][c] \in Int /\ now - R.boardedAt[b][c] \in Int
  BY DEF Riders
<1> DEFINE x == R.aboard[b][c]
           y == now - R.boardedAt[b][c]
<1>2. x \in Int /\ y \in Int
  BY <1>1
<1> HIDE DEF x, y
<1>3. Worth(x, y) \in Int
  BY <1>2, WorthInt
<1> QED
  BY <1>3 DEF x, y, RideOf

\* When every cohort has ridden as much as before, so have all.
LEMMA RidesEqual ==
  ASSUME day \in Days, NEW R, NEW Q, \A c \in Cohort : RidesOf(Q, c) = RidesOf(R, c)
  PROVE  RideTime(Q) = RideTime(R)
<1> DEFINE f == [c \in Cohort |-> RidesOf(R, c)]
           g == [c \in Cohort |-> RidesOf(Q, c)]
<1>1. \A c \in Cohort : g[c] = f[c]
  OBVIOUS
<1> HIDE DEF f, g
<1>2. SumFunctionOnSet(g, Cohort) = SumFunctionOnSet(f, Cohort)
  BY <1>1, DayFacts, SumEqual
<1> QED
  BY <1>2 DEF f, g, RideTime

\* Tables that agree on a cohort's rides agree on its riding minutes.
LEMMA RideRowsEqual ==
  ASSUME NEW R, NEW Q, NEW c, Q.rode[c] = R.rode[c],
         \A b \in Bus : RideOf(Q, b, c) = RideOf(R, b, c)
  PROVE  RidesOf(Q, c) = RidesOf(R, c)
<1> DEFINE f == [b \in Bus |-> RideOf(R, b, c)]
           g == [b \in Bus |-> RideOf(Q, b, c)]
<1>1. \A b \in Bus : g[b] = f[b]
  OBVIOUS
<1> HIDE DEF f, g
<1>2. SumFunctionOnSet(g, Bus) = SumFunctionOnSet(f, Bus)
  BY <1>1, FleetAssumption, SumEqual
<1> QED
  BY <1>2 DEF f, g, RidesOf

\* Those who board start their ride: it is worth nothing yet.
LEMMA BoardRides ==
  ASSUME day \in Days, now \in Nat, NEW R \in Riders, BoardedBefore(R),
         NEW b \in Bus, NEW v,
         \A c \in Cohort : Taken(R, b, v)[c] > 0 => R.aboard[b][c] = 0
  PROVE  /\ RideTime(Board(R, b, v)) = RideTime(R)
         /\ BoardedBefore(Board(R, b, v))
<1> DEFINE Q == Board(R, b, v)
           take == Taken(R, b, v)
           left == {c \in Cohort : Eligible(R, v, c) /\ R.waiting[c] > take[c]}
           refused == SumFunctionOnSet([c \in Cohort |-> R.waiting[c] - take[c]],
                                    NewlyDenied(R, left))
<1>1. BoardStep(Q, R, b, take, left, refused)
  BY BoardFields
<1>2. /\ Q.rode = R.rode
      /\ Q.aboard = [R.aboard EXCEPT ![b] = [c \in Cohort |-> R.aboard[b][c] + take[c]]]
      /\ Q.boardedAt = [R.boardedAt EXCEPT ![b] = [c \in Cohort |->
                      IF take[c] > 0 THEN now ELSE R.boardedAt[b][c]]]
  BY <1>1 DEF BoardStep
<1>3. take \in [Cohort -> Nat]
  BY TakenType
<1>4. \A c \in Cohort : take[c] > 0 => R.aboard[b][c] = 0
  OBVIOUS
<1> HIDE DEF Q, take, left, refused
<1>5. /\ R.aboard \in [Bus -> [Cohort -> Nat]] /\ R.boardedAt \in [Bus -> [Cohort -> Nat]]
  BY DEF Riders
<1>6. ASSUME NEW x \in Bus, NEW c \in Cohort
      PROVE  /\ x # b => Q.aboard[x][c] = R.aboard[x][c] /\ Q.boardedAt[x][c] = R.boardedAt[x][c]
             /\ x = b => /\ Q.aboard[x][c] = R.aboard[x][c] + take[c]
                         /\ Q.boardedAt[x][c] = IF take[c] > 0 THEN now ELSE R.boardedAt[x][c]
  BY <1>2, <1>5
<1>7. BoardedBefore(Q)
  <2> SUFFICES ASSUME NEW x \in Bus, NEW c \in Cohort PROVE Q.boardedAt[x][c] <= now
    BY DEF BoardedBefore
  <2>1. R.boardedAt[x][c] <= now
    BY DEF BoardedBefore
  <2> QED
    BY <1>6, <2>1
<1>8. ASSUME NEW x \in Bus, NEW c \in Cohort PROVE RideOf(Q, x, c) = RideOf(R, x, c)
  <2>1. R.aboard[x][c] \in Nat /\ R.boardedAt[x][c] \in Nat /\ take[c] \in Nat
    BY <1>3, <1>5
  <2>2. CASE x = b /\ take[c] > 0
    <3>1. R.aboard[x][c] = 0 /\ Q.boardedAt[x][c] = now
      BY <1>4, <1>6, <2>2
    <3>2. now - Q.boardedAt[x][c] = 0 /\ Q.aboard[x][c] \in Int /\ now - R.boardedAt[x][c] \in Int
      BY <1>6, <2>1, <2>2, <3>1
    <3>3. RideOf(R, x, c) = 0
      <4> DEFINE k == now - R.boardedAt[x][c]
      <4>1. k \in Int
        BY <3>2
      <4> HIDE DEF k
      <4>2. Worth(0, k) = 0
        BY <4>1, WorthNothing
      <4> QED
        BY <3>1, <4>2 DEF k, RideOf
    <3>4. RideOf(Q, x, c) = 0
      <4> DEFINE k == Q.aboard[x][c]
      <4>1. k \in Int
        BY <3>2
      <4> HIDE DEF k
      <4>2. Worth(k, 0) = 0
        BY <4>1, WorthNothing
      <4> QED
        BY <3>2, <4>2 DEF k, RideOf
    <3> QED
      BY <3>3, <3>4
  <2>3. CASE ~(x = b /\ take[c] > 0)
    <3>1. Q.aboard[x][c] = R.aboard[x][c] /\ Q.boardedAt[x][c] = R.boardedAt[x][c]
      BY <1>6, <2>1, <2>3
    <3> QED
      BY <3>1 DEF RideOf
  <2> QED
    BY <2>2, <2>3
<1>9. \A c \in Cohort : RidesOf(Q, c) = RidesOf(R, c)
  BY <1>2, <1>8, RideRowsEqual
<1>10. RideTime(Q) = RideTime(R)
  BY <1>9, RidesEqual
<1> QED
  BY <1>7, <1>10 DEF Q

\* Those who get off take the time of their ride with them.
LEMMA AlightRides ==
  ASSUME day \in Days, now \in Nat, now < Horizon, NEW R \in Riders, BoardedBefore(R),
         NEW b \in Bus, NEW stop
  PROVE  /\ RideTime(Alight(R, b, stop)) = RideTime(R)
         /\ BoardedBefore(Alight(R, b, stop))
<1> DEFINE Q == Alight(R, b, stop)
           off == GettingOff(R, b, stop)
           ride == [c \in Cohort |-> now - R.boardedAt[b][c]]
<1>1. AlightStep(Q, R, b, off)
  BY AlightFields
<1>2. /\ Q.rode = Ticked(R.rode, off, ride)
      /\ Q.aboard = [R.aboard EXCEPT ![b] = [c \in Cohort |-> R.aboard[b][c] - off[c]]]
      /\ Q.boardedAt = R.boardedAt
  BY <1>1 DEF AlightStep
<1>3. /\ off \in [Cohort -> Nat]
      /\ \A c \in Cohort :
              off[c] = IF Trip(c).destination = stop THEN R.aboard[b][c] ELSE 0
  BY GettingOffType
<1>4. \A c \in Cohort : ride[c] = now - R.boardedAt[b][c]
  OBVIOUS
<1> HIDE DEF Q, off, ride
<1>5. /\ R.aboard \in [Bus -> [Cohort -> Nat]] /\ R.boardedAt \in [Bus -> [Cohort -> Nat]]
      /\ R.rode \in [Cohort -> [Span -> Nat]]
  BY DEF Riders, Span
<1>6. ASSUME NEW x \in Bus, NEW c \in Cohort
      PROVE  /\ x # b => Q.aboard[x][c] = R.aboard[x][c]
             /\ x = b => Q.aboard[x][c] = R.aboard[x][c] - off[c]
  BY <1>2, <1>5
<1>7. BoardedBefore(Q)
  BY <1>2 DEF BoardedBefore
<1>8. ASSUME NEW c \in Cohort PROVE RidesOf(Q, c) = RidesOf(R, c)
  <2>1. CASE off[c] = 0
    <3>1. Q.rode[c] = R.rode[c]
      BY <1>2, <2>1 DEF Ticked
    <3>2. \A x \in Bus : RideOf(Q, x, c) = RideOf(R, x, c)
      <4> TAKE x \in Bus
      <4>1. Q.aboard[x][c] = R.aboard[x][c]
        BY <1>5, <1>6, <2>1
      <4> QED
        BY <1>2, <4>1 DEF RideOf
    <3> QED
      BY <3>1, <3>2, RideRowsEqual
  <2>2. CASE off[c] # 0
    <3> DEFINE row == R.rode[c]
               new == Q.rode[c]
               k == ride[c]
               n == off[c]
               p == RideOf(R, b, c)
               f == [x \in Bus |-> RideOf(R, x, c)]
               g == [x \in Bus |-> RideOf(Q, x, c)]
    <3>1. n = R.aboard[b][c] /\ n \in Nat
      BY <1>3, <2>2
    <3>2. k \in Nat /\ k \in Span
      <4>1. R.boardedAt[b][c] \in Nat /\ R.boardedAt[b][c] <= now
        BY <1>5 DEF BoardedBefore
      <4> QED
        BY <1>4, <4>1, SpanIs, TimeAssumption
    <3>3. new = [row EXCEPT ![k] = @ + n]
      BY <1>2, <2>2 DEF Ticked
    <3>4. row \in [Span -> Nat]
      BY <1>5
    <3>5. p = Worth(n, k)
      BY <1>4, <3>1 DEF RideOf
    <3>6. Minutes \in Weights /\ Minutes[k] = k
      BY <3>2, MinutesWeight
    <3>7. Times(new, Minutes) = Times(row, Minutes) + p
      <4> HIDE DEF row, new, k, n, p
      <4>1. /\ new \in [Span -> Nat] /\ new[k] = row[k] + n
            /\ \A w \in Span \ {k} : new[w] = row[w]
        BY <3>1, <3>2, <3>3, <3>4
      <4>2. p = Worth(n, Minutes[k])
        BY <3>5, <3>6
      <4> QED
        BY <3>1, <3>2, <3>4, <3>6, <4>1, <4>2, TimesChange
    <3>8. \A x \in Bus : f[x] \in Int
      BY RideInt
    <3>9. \A x \in Bus \ {b} : g[x] = f[x]
      BY <1>2, <1>6 DEF RideOf
    <3>10. g[b] = 0
      <4>1. Q.aboard[b][c] = 0
        BY <1>5, <1>6, <3>1
      <4>2. g[b] = Worth(0, k)
        BY <1>2, <1>4, <4>1 DEF RideOf
      <4>3. k \in Int
        BY <3>2
      <4> HIDE DEF k, g
      <4> QED
        BY <4>2, <4>3, WorthNothing
    <3>11. f[b] = p
      OBVIOUS
    <3>12. Times(row, Minutes) \in Nat
      <4> HIDE DEF row
      <4> QED
        BY <3>4, <3>6, TimesNat
    <3>13. /\ RidesOf(R, c) = Times(row, Minutes) + SumFunctionOnSet(f, Bus)
           /\ RidesOf(Q, c) = Times(new, Minutes) + SumFunctionOnSet(g, Bus)
      BY DEF RidesOf
    <3> HIDE DEF row, new, k, n, p, f, g
    <3>14. \A x \in Bus : f[x] \in Int /\ g[x] \in Int
      BY <3>8, <3>9, <3>10
    <3>15. SumFunctionOnSet(g, Bus) = SumFunctionOnSet(f, Bus) - f[b] + g[b]
      <4>1. IsFiniteSet(Bus)
        BY FleetAssumption
      <4> QED
        BY <3>9, <3>14, <4>1, SumChange
    <3>16. SumFunctionOnSet(f, Bus) \in Int
      BY <3>8, FleetAssumption, SumInt
    <3> QED
      BY <3>7, <3>10, <3>11, <3>12, <3>13, <3>14, <3>15, <3>16
  <2> QED
    BY <2>1, <2>2
<1>9. RideTime(Q) = RideTime(R)
  BY <1>8, RidesEqual
<1> QED
  BY <1>7, <1>9 DEF Q

\* Arrivals do not touch rides.
LEMMA ArriveRides ==
  ASSUME NEW R \in Riders, BoardedBefore(R)
  PROVE  RideTime(Arrive(R)) = RideTime(R) /\ BoardedBefore(Arrive(R))
<1> DEFINE Q == Arrive(R)
           n == SumFunctionOnSet([c \in Cohort |-> Trip(c).count], Newcomers)
<1>1. ArriveStep(Q, R, n)
  BY ArriveFields
<1>2. Q.aboard = R.aboard /\ Q.boardedAt = R.boardedAt /\ Q.rode = R.rode
  BY <1>1 DEF ArriveStep
<1> HIDE DEF Q, n
<1>3. RideTime(Q) = RideTime(R) /\ BoardedBefore(Q)
  BY <1>2 DEF RideTime, RidesOf, RideOf, BoardedBefore
<1> QED
  BY <1>3 DEF Q

\* Nor does giving up.
LEMMA AbandonRides ==
  ASSUME NEW R \in Riders, BoardedBefore(R)
  PROVE  RideTime(Abandon(R)) = RideTime(R) /\ BoardedBefore(Abandon(R))
<1> DEFINE Q == Abandon(R)
           gone == GivingUp(R)
<1>1. AbandonStep(Q, R, gone)
  BY AbandonFields
<1>2. Q.aboard = R.aboard /\ Q.boardedAt = R.boardedAt /\ Q.rode = R.rode
  BY <1>1 DEF AbandonStep
<1> HIDE DEF Q, gone
<1>3. RideTime(Q) = RideTime(R) /\ BoardedBefore(Q)
  BY <1>2 DEF RideTime, RidesOf, RideOf, BoardedBefore
<1> QED
  BY <1>3 DEF Q

\* prune_recent_finished drops a prefix in which no observation needs anything.
LEMMA PrunedIs ==
  ASSUME NEW q \in Seq(Entry), NEW t
  PROVE  \E m \in 1 .. Len(q) + 1 :
           /\ Pruned(q, t) = SubSeq(q, m, Len(q))
           /\ Pruned(q, t) \in Seq(Entry)
           /\ Len(Pruned(q, t)) = Len(q) - m + 1
           /\ \A k \in 1 .. Len(q) - m + 1 : Pruned(q, t)[k] = q[k + m - 1]
           /\ \A k \in DOMAIN q : k < m => ~Needed(q[k], t)
<1> DEFINE kept == {i \in DOMAIN q : Needed(q[i], t)}
           S == kept \cup {Len(q) + 1}
           m == Min(S)
<1>1. Len(q) \in Nat /\ DOMAIN q = 1 .. Len(q)
  OBVIOUS
<1>2. S \in SUBSET Nat /\ Len(q) + 1 \in S
  BY <1>1
<1>3. m \in S /\ \A x \in S : m <= x
  <2>1. \E e \in S : \A x \in S : e <= x
    <3> HIDE DEF S
    <3> QED
      BY <1>2, MinIn
  <2>2. m = CHOOSE e \in S : \A x \in S : e <= x
    BY DEF Min
  <2> HIDE DEF S, m
  <2> QED
    BY <2>1, <2>2, Zenon
<1>4. Pruned(q, t) = SubSeq(q, m, Len(q))
  BY DEF Pruned
<1>5. m \in 1 .. Len(q) + 1
  <2> HIDE DEF m
  <2> QED
    BY <1>1, <1>3
<1>6. \A k \in DOMAIN q : k < m => ~Needed(q[k], t)
  <2> SUFFICES ASSUME NEW k \in DOMAIN q, k < m, Needed(q[k], t) PROVE FALSE
    OBVIOUS
  <2>1. k \in S
    OBVIOUS
  <2>2. m <= k
    BY <1>3, <2>1
  <2> HIDE DEF m
  <2> QED
    BY <1>1, <1>5, <2>2
<1> HIDE DEF m
<1> DEFINE r == SubSeq(q, m, Len(q))
<1>7. /\ r \in Seq(Entry) /\ Len(r) = Len(q) - m + 1
      /\ \A k \in 1 .. Len(q) - m + 1 : r[k] = q[k + m - 1]
  BY <1>1, <1>5
<1> QED
  BY <1>4, <1>5, <1>6, <1>7

\* A bus that leaves somebody behind who could have boarded is full.
LEMMA TakenFull ==
  ASSUME day \in Days, NEW R \in Riders, NEW b \in Bus, NEW v,
         NEW take, take = Taken(R, b, v),
         NEW c \in Cohort, Eligible(R, v, c), take[c] < R.waiting[c]
  PROVE  SumFunctionOnSet(take, Cohort) = Capacity - R.load[b]
<1> DEFINE S == {x \in Line(R, v) : take[x] < R.waiting[x]}
           room == Capacity - R.load[b]
<1>1. c \in S
  BY DEF Line
<1>2. S \in SUBSET Nat /\ S \in SUBSET Cohort /\ Line(R, v) \in SUBSET Cohort
  BY DayFacts DEF Line
<1>3. PICK e \in S : \A x \in S : e <= x
  <2> HIDE DEF S
  <2> QED
    BY <1>1, <1>2, MinIn
<1>4. e \in Line(R, v) /\ e \in Cohort /\ e \in Nat /\ take[e] < R.waiting[e]
  BY <1>2, <1>3
<1> DEFINE A == AheadOf(Line(R, v), e)
<1>5. A \in SUBSET Cohort /\ e \in Cohort \ A /\ (\A x \in A : x \in Line(R, v) /\ x < e)
  BY <1>2, <1>4 DEF AheadOf
<1>6. take \in [Cohort -> Nat] /\ (\A x \in Cohort : take[x] <= R.waiting[x])
  BY TakenType
<1>7. R.waiting \in [Cohort -> Nat]
  BY DEF Riders
<1>8. \A x \in A : take[x] = R.waiting[x]
  <2> SUFFICES ASSUME NEW x \in A, take[x] # R.waiting[x] PROVE FALSE
    OBVIOUS
  <2>1. take[x] \in Nat /\ R.waiting[x] \in Nat /\ take[x] <= R.waiting[x] /\ x \in Nat
    BY <1>2, <1>5, <1>6, <1>7
  <2>2. take[x] < R.waiting[x]
    BY <2>1
  <2>3. x \in S
    BY <1>5, <2>2
  <2>4. e <= x /\ x < e
    BY <1>3, <1>5, <2>3
  <2> QED
    BY <1>4, <2>1, <2>4
<1>9. Before(R, v, e) = SumFunctionOnSet(R.waiting, A)
  BY DEF Before
<1>10. take[e] = IF Before(R, v, e) < room
                 THEN Smaller(R.waiting[e], room - Before(R, v, e)) ELSE 0
  BY <1>4, TakenIs
<1>11. room \in Nat
  BY RoomNat
<1>12. Before(R, v, e) \in Nat
  BY BeforeNat
<1>13. SumFunctionOnSet(take, Cohort) <= room
  BY TakenFits
<1>14. IsFiniteSet(A) /\ IsFiniteSet(Cohort \ A) /\ IsFiniteSet(Cohort)
  <2> HIDE DEF A
  <2> QED
    BY <1>5, DayFacts, FS_Subset
<1>15. room = Capacity - R.load[b]
  OBVIOUS
<1> HIDE DEF A, S, room
<1>16. SumFunctionOnSet(take, A) = SumFunctionOnSet(R.waiting, A)
  BY <1>8, <1>14, SumEqual
<1>17. SumFunctionOnSet(take, Cohort)
         = SumFunctionOnSet(take, A) + SumFunctionOnSet(take, Cohort \ A)
  <2>1. \A x \in Cohort : take[x] \in Int
    BY <1>6
  <2> QED
    BY <1>5, <1>14, <2>1, SumDivide
<1>18. take[e] <= SumFunctionOnSet(take, Cohort \ A)
  <2>1. \A x \in Cohort \ A : take[x] \in Nat
    BY <1>6
  <2> QED
    BY <1>5, <1>14, <2>1, SumBounds
<1>19. SumFunctionOnSet(take, Cohort \ A) \in Nat
  <2>1. \A x \in Cohort \ A : take[x] \in Nat
    BY <1>6
  <2> QED
    BY <1>14, <2>1, SumNat
<1>20. SumFunctionOnSet(take, A) = Before(R, v, e)
  BY <1>9, <1>16
<1>21. take[e] \in Nat /\ R.waiting[e] \in Nat
  BY <1>4, <1>6, <1>7
<1>22. CASE Before(R, v, e) < room
  <2>1. take[e] = room - Before(R, v, e)
    BY <1>4, <1>10, <1>11, <1>12, <1>21, <1>22 DEF Smaller
  <2> QED
    BY <1>11, <1>12, <1>13, <1>15, <1>17, <1>18, <1>19, <1>20, <2>1
<1>23. CASE ~(Before(R, v, e) < room)
  BY <1>11, <1>12, <1>13, <1>15, <1>17, <1>19, <1>20, <1>23
<1> QED
  BY <1>22, <1>23

\* Taking nobody who has companions aboard, it stays so.
LEMMA BoardOnce ==
  ASSUME day \in Days, now \in Nat, NEW R \in Riders, NEW b \in Bus, NEW v,
         OnceAboard(R, b, v), v.at \in Int,
         \A c \in Cohort : Taken(R, b, v)[c] > 0 => R.aboard[b][c] = 0
  PROVE  OnceAboard(Board(R, b, v), b, v)
<1> DEFINE Q == Board(R, b, v)
           take == Taken(R, b, v)
           n == SumFunctionOnSet(take, Cohort)
<1>1. /\ \A c \in Cohort : /\ Q.aboard[b][c] = R.aboard[b][c] + take[c]
                           /\ Q.waiting[c] = R.waiting[c] - take[c]
      /\ Q.load[b] = R.load[b] + n
  BY BoardOnly
<1>2. /\ take \in [Cohort -> Nat]
      /\ \A c \in Cohort : take[c] <= R.waiting[c]
      /\ \A c \in Cohort : take[c] > 0 => Eligible(R, v, c)
  BY TakenType
<1>3. n <= Capacity - R.load[b]
  BY TakenFits
<1>4. \A c \in Cohort : Eligible(R, v, c) /\ take[c] < R.waiting[c] => n = Capacity - R.load[b]
  BY TakenFull
<1>5. n \in Nat
  BY <1>2, DayFacts, SumOf
<1>6. R.load[b] \in 0 .. Capacity /\ Capacity \in Nat
  BY FleetAssumption DEF Riders
<1> HIDE DEF Q, take, n
<1> SUFFICES ASSUME NEW c \in Cohort, Q.aboard[b][c] > 0
             PROVE  /\ IF v.direction = 1 THEN Trip(c).origin <= v.at ELSE v.at <= Trip(c).origin
                    /\ v.phase = "TERMINAL_IDLE" /\ Trip(c).origin = v.at /\ Q.waiting[c] > 0
                         => Q.load[b] = Capacity
  BY DEF OnceAboard, Q
<1>7. R.aboard[b][c] \in Nat /\ R.waiting[c] \in Nat /\ take[c] \in Nat
  BY <1>2 DEF Riders
<1>8. CASE take[c] > 0
  <2>1. Eligible(R, v, c)
    BY <1>2, <1>8
  <2>2. Trip(c).origin = v.at
    BY <2>1 DEF Eligible
  <2>3. ASSUME Q.waiting[c] > 0 PROVE Q.load[b] = Capacity
    <3>1. take[c] < R.waiting[c]
      BY <1>1, <1>7, <2>3
    <3>2. n = Capacity - R.load[b]
      BY <1>4, <2>1, <3>1
    <3> QED
      BY <1>1, <1>6, <3>2
  <2> QED
    BY <2>2, <2>3
<1>9. CASE ~(take[c] > 0)
  <2>1. R.aboard[b][c] > 0 /\ Q.waiting[c] = R.waiting[c]
    BY <1>1, <1>7, <1>9
  <2>2. IF v.direction = 1 THEN Trip(c).origin <= v.at ELSE v.at <= Trip(c).origin
    BY <2>1 DEF OnceAboard
  <2>3. ASSUME v.phase = "TERMINAL_IDLE", Trip(c).origin = v.at, Q.waiting[c] > 0
        PROVE  Q.load[b] = Capacity
    <3>1. R.load[b] = Capacity
      BY <2>1, <2>3 DEF OnceAboard
    <3> QED
      BY <1>1, <1>3, <1>5, <1>6, <3>1
  <2> QED
    BY <2>2, <2>3
<1> QED
  BY <1>8, <1>9

\* A bus that stands at its terminal takes nobody who has companions aboard.
LEMMA IdleTakesNew ==
  ASSUME day \in Days, NEW R \in Riders, NEW b \in Bus, NEW v,
         v.phase = "TERMINAL_IDLE", OnceAboard(R, b, v), NEW c \in Cohort,
         Taken(R, b, v)[c] > 0
  PROVE  R.aboard[b][c] = 0
<1> DEFINE take == Taken(R, b, v)
           n == SumFunctionOnSet(take, Cohort)
<1> SUFFICES ASSUME R.aboard[b][c] # 0 PROVE FALSE
  OBVIOUS
<1>1. /\ take \in [Cohort -> Nat]
      /\ \A x \in Cohort : take[x] > 0 => Eligible(R, v, x)
  BY TakenType
<1>2. R.aboard[b][c] > 0 /\ R.load[b] \in 0 .. Capacity /\ Capacity \in Nat
  BY FleetAssumption DEF Riders
<1>3. Trip(c).origin = v.at /\ R.waiting[c] > 0
  BY <1>1 DEF Eligible
<1>4. R.load[b] = Capacity
  BY <1>2, <1>3 DEF OnceAboard
<1>5. n <= Capacity - R.load[b]
  BY TakenFits
<1>6. take[c] <= n
  <2>1. \A x \in Cohort : take[x] \in Nat
    BY <1>1
  <2> HIDE DEF take
  <2> QED
    BY <2>1, DayFacts, SumBounds
<1>7. n \in Nat /\ take[c] \in Nat /\ take[c] > 0
  BY <1>1, DayFacts, SumOf
<1> HIDE DEF take, n
<1> QED
  BY <1>2, <1>4, <1>5, <1>6, <1>7

\* What happens to other buses, and whoever stops waiting, does not disturb it.
LEMMA OnceKept ==
  ASSUME NEW R \in Riders, NEW Q \in Riders, NEW b \in Bus, NEW v, OnceAboard(R, b, v),
         Q.aboard[b] = R.aboard[b], Q.load[b] = R.load[b],
         \A c \in Cohort : R.aboard[b][c] > 0 => Q.waiting[c] <= R.waiting[c]
  PROVE  OnceAboard(Q, b, v)
<1> SUFFICES ASSUME NEW c \in Cohort, Q.aboard[b][c] > 0
             PROVE  /\ IF v.direction = 1 THEN Trip(c).origin <= v.at ELSE v.at <= Trip(c).origin
                    /\ v.phase = "TERMINAL_IDLE" /\ Trip(c).origin = v.at /\ Q.waiting[c] > 0
                         => Q.load[b] = Capacity
  BY DEF OnceAboard
<1>1. R.aboard[b][c] > 0 /\ Q.waiting[c] <= R.waiting[c] /\ Q.waiting[c] \in Nat /\ R.waiting[c] \in Nat
  BY DEF Riders
<1>2. Q.waiting[c] > 0 => R.waiting[c] > 0
  BY <1>1
<1> QED
  BY <1>1, <1>2 DEF OnceAboard

-----------------------------------------------------------------------------
(* The visits of a tick *)

\* A bus that arrives takes nobody who has companions aboard: they boarded at an
\* earlier stop.
LEMMA VisitOnce ==
  ASSUME KInv, NEW R \in Riders, NEW K, Counted(R, K), NEW b \in Bus,
         R.aboard[b] = aboard[b], OnceAboard(R, b, bus[b]),
         NEW v, v = Completed(b), NEW A, A = Alight(R, b, v.at)
  PROVE  /\ OnceAboard(Visit(R, b, v), b, v)
         /\ Visit(R, b, v) # R /\ v.phase # "LAYOVER" =>
              \A c \in Cohort : Taken(A, b, v)[c] > 0 => A.aboard[b][c] = 0
<1>0. /\ Inv /\ day \in Days /\ now \in Nat /\ RidersOn(bus[b], aboard[b])
      /\ OnItsWay(bus[b])
  BY DEF KInv, Inv, TypeOK
<1>1. CASE ~(bus[b].phase = "SERVICE_MOVING" /\ bus[b].remaining = 0)
  <2>1. Visit(R, b, v) = R
    BY <1>1 DEF Visit
  <2>2. OnceAboard(R, b, v)
    <3>1. CASE bus[b].phase \in {"DEADHEAD", "LAYOVER"}
      <4>1. \A c \in Cohort : ~(aboard[b][c] > 0)
        BY <1>0, <3>1 DEF RidersOn
      <4> QED
        BY <4>1 DEF OnceAboard
    <3>2. CASE bus[b].phase \notin {"DEADHEAD", "LAYOVER"}
      <4>1. v = bus[b]
        BY <1>1, <3>2 DEF Completed
      <4> QED
        BY <4>1
    <3> QED
      BY <3>1, <3>2
  <2> QED
    BY <2>1, <2>2
<1>2. CASE bus[b].phase = "SERVICE_MOVING" /\ bus[b].remaining = 0
  <2>1. /\ A \in Riders /\ Counted(A, K)
        /\ \A c \in Cohort : A.aboard[b][c] = IF Trip(c).destination = v.at THEN 0 ELSE aboard[b][c]
    BY <1>0, AlightKeeps, AlightOnly
  <2>2. /\ v.phase \in {"LAYOVER", "SERVICE_DWELL"}
        /\ v.at = bus[b].at + bus[b].direction
        /\ v.phase = "SERVICE_DWELL" => v.direction = bus[b].direction
    BY <1>0, <1>2, EndEdgeIs
  <2>3. bus[b].direction \in {1, -1} /\ bus[b].at \in Int
    BY <1>0, RouteAssumption DEF Inv, TypeOK, VehicleType, Position, Depot
  <2>4. CASE v.phase = "LAYOVER"
    <3>1. Visit(R, b, v) = A
      BY <1>2, <2>4 DEF Visit
    <3>2. \A c \in Cohort : ~(A.aboard[b][c] > 0)
      <4> SUFFICES ASSUME NEW c \in Cohort, A.aboard[b][c] > 0 PROVE FALSE
        OBVIOUS
      <4>1. Trip(c).destination # v.at /\ aboard[b][c] > 0
        BY <2>1
      <4>2. /\ bus[b].direction = 1 => /\ bus[b].at < Trip(c).destination
                                      /\ Trip(c).destination <= ServiceEnd(bus[b])
            /\ bus[b].direction # 1 => Trip(c).destination < bus[b].at
        BY <1>0, <4>1 DEF RidersOn
      <4>3. Trip(c).destination \in 0 .. LastStop
        BY <1>0, TripType
      <4>4. v.at = ServiceEnd(bus[b])
        BY <1>0, <1>2, <2>4, EndEdgeIs
      <4>5. bus[b].direction # 1 => ServiceEnd(bus[b]) = 0
        BY DEF ServiceEnd
      <4> QED
        BY <2>2, <2>3, <4>1, <4>2, <4>3, <4>4, <4>5, RouteAssumption
    <3> QED
      BY <2>4, <3>1, <3>2 DEF OnceAboard
  <2>5. CASE v.phase = "SERVICE_DWELL"
    <3>1. Visit(R, b, v) = Board(A, b, v)
      BY <1>2, <2>5 DEF Visit
    <3>2. ASSUME NEW c \in Cohort, A.aboard[b][c] > 0
          PROVE  /\ Trip(c).origin # v.at
                 /\ IF v.direction = 1 THEN Trip(c).origin <= v.at ELSE v.at <= Trip(c).origin
      <4>1. R.aboard[b][c] > 0
        BY <2>1, <3>2
      <4>2. IF bus[b].direction = 1 THEN Trip(c).origin <= bus[b].at ELSE bus[b].at <= Trip(c).origin
        BY <4>1 DEF OnceAboard
      <4>3. Trip(c).origin \in 0 .. LastStop
        BY <1>0, TripType
      <4> QED
        BY <2>2, <2>3, <2>5, <4>2, <4>3, RouteAssumption
    <3>3. OnceAboard(A, b, v)
      BY <2>5, <3>2 DEF OnceAboard
    <3>4. ASSUME NEW c \in Cohort, Taken(A, b, v)[c] > 0 PROVE A.aboard[b][c] = 0
      <4>1. Eligible(A, v, c)
        BY <1>0, <2>1, <3>4, TakenType
      <4>2. Trip(c).origin = v.at
        BY <4>1 DEF Eligible
      <4>3. ~(A.aboard[b][c] > 0)
        BY <3>2, <4>2
      <4>4. A.aboard[b][c] \in Nat
        BY <2>1 DEF Riders
      <4> QED
        BY <4>3, <4>4
    <3>5. v.at \in Int
      BY <2>2, <2>3
    <3>6. OnceAboard(Board(A, b, v), b, v)
      BY <1>0, <2>1, <3>3, <3>4, <3>5, BoardOnce
    <3> QED
      BY <3>1, <3>4, <3>6
  <2> QED
    BY <2>2, <2>4, <2>5
<1> QED
  BY <1>1, <1>2

\* The times of the passengers have not changed since the tick began.
Timed(R) ==
  /\ BoardedBefore(R)
  /\ RideTime(R) = RideTime(RidersNow)
  /\ \A wt \in Weights : WaitingTime(R, wt) = WaitingTime(RidersNow, wt)

\* A visit keeps the waits and rides timed right.
LEMMA VisitTimed ==
  ASSUME KInv, now < Horizon, NEW R \in Riders, Counted(R, Came(now)), Timed(R),
         NEW b \in Bus, R.aboard[b] = aboard[b], OnceAboard(R, b, bus[b]),
         NEW v, v = Completed(b)
  PROVE  Timed(Visit(R, b, v))
<1> DEFINE A == Alight(R, b, v.at)
<1>0. day \in Days /\ now \in Nat /\ now <= now + 1
  BY DEF KInv, Inv, TypeOK
<1>1. A \in Riders /\ Counted(A, Came(now))
  BY <1>0, AlightKeeps
<1>2. RideTime(A) = RideTime(R) /\ BoardedBefore(A)
  BY <1>0, AlightRides DEF Timed
<1>3. \A wt \in Weights : WaitingTime(A, wt) = WaitingTime(R, wt)
  BY AlightWaits
<1>4. Timed(A)
  BY <1>2, <1>3 DEF Timed
<1>5. CASE Visit(R, b, v) = R
  BY <1>5
<1>6. CASE Visit(R, b, v) # R /\ v.phase = "LAYOVER"
  <2>1. Visit(R, b, v) = A
    BY <1>6 DEF Visit
  <2> QED
    BY <1>4, <2>1
<1>7. CASE Visit(R, b, v) # R /\ v.phase # "LAYOVER"
  <2>1. Visit(R, b, v) = Board(A, b, v)
    BY <1>7 DEF Visit
  <2>2. \A c \in Cohort : Taken(A, b, v)[c] > 0 => A.aboard[b][c] = 0
    BY <1>7, VisitOnce
  <2> HIDE DEF A
  <2>3. RideTime(Board(A, b, v)) = RideTime(A) /\ BoardedBefore(Board(A, b, v))
    BY <1>0, <1>1, <1>2, <2>2, BoardRides
  <2>4. \A wt \in Weights : WaitingTime(Board(A, b, v), wt) = WaitingTime(A, wt)
    BY <1>0, <1>1, BoardWaits
  <2> QED
    BY <1>4, <2>1, <2>3, <2>4 DEF Timed
<1> QED
  BY <1>5, <1>6, <1>7

-----------------------------------------------------------------------------
(* The ring in a tick *)

\* The ways to be done, and how many are done in each of them.
Statuses == {"COMPLETED", "ABANDONED"}
DoneAs(R, st) == IF st = "COMPLETED" THEN R.completed ELSE R.abandoned

\* Since the tick began the ring has grown by those who are done since then.
Grown(R) ==
  /\ \A c \in Cohort, since \in Int, st \in Statuses : since <= now =>
       Tally(R.recent, c, st, since)
         = Tally(recentFinished, c, st, since) + (DoneAs(R, st)[c] - DoneAs(RidersNow, st)[c])
  /\ DoneBy(recentFinished, now) => DoneBy(R.recent, now)

\* How many are done is a number.
LEMMA DoneNat ==
  ASSUME NEW R \in Riders, NEW c \in Cohort, NEW st
  PROVE  DoneAs(R, st)[c] \in Nat
BY DEF DoneAs, Riders

\* In the beginning it has not grown.
LEMMA GrownAtFirst ==
  ASSUME RidersNow \in Riders
  PROVE  Grown(RidersNow)
<1>1. RidersNow.recent = recentFinished /\ recentFinished \in Seq(Entry)
  BY DEF RidersNow, Riders
<1>2. ASSUME NEW c \in Cohort, NEW since \in Int, NEW st \in Statuses
      PROVE  Tally(recentFinished, c, st, since)
               = Tally(recentFinished, c, st, since)
                   + (DoneAs(RidersNow, st)[c] - DoneAs(RidersNow, st)[c])
  <2>1. Tally(recentFinished, c, st, since) \in Nat /\ DoneAs(RidersNow, st)[c] \in Nat
    BY <1>1, TallyNat, DoneNat
  <2> QED
    BY <2>1
<1> QED
  BY <1>1, <1>2, Zenon DEF Grown

\* What leaves the ring alone, and nobody done, leaves it grown.
LEMMA GrownSame ==
  ASSUME NEW R, Grown(R), NEW Q, Q.recent = R.recent,
         Q.completed = R.completed, Q.abandoned = R.abandoned
  PROVE  Grown(Q)
<1>1. \A st : DoneAs(Q, st) = DoneAs(R, st)
  BY DEF DoneAs
<1> QED
  BY <1>1, Zenon DEF Grown

\* A push leaves alone what it does not push.
LEMMA PushedElsewhere ==
  ASSUME NEW p, NEW q, NEW list, NEW S \in SUBSET Nat, Lists(list, S), NEW n,
         NEW st, Pushed(p, q, list, n, st), now \in Nat,
         NEW c, NEW since \in Int, since <= now, NEW s, s # st \/ c \notin S
  PROVE  Tally(p, c, s, since) = Tally(q, c, s, since)
<1>1. CASE s # st
  BY <1>1, Pushing
<1>2. CASE s = st /\ c \notin S
  BY <1>2, Pushing
<1> QED
  BY <1>1, <1>2

\* Whoever is done is pushed: the ring grows with them.
LEMMA Growing ==
  ASSUME day \in Days, now \in Nat, RidersNow \in Riders,
         NEW R \in Riders, Grown(R), NEW Q, NEW n \in [Cohort -> Nat], NEW list,
         Lists(list, {c \in Cohort : n[c] > 0}), NEW st \in Statuses,
         Pushed(Q.recent, R.recent, list, n, st),
         \A c \in Cohort : DoneAs(Q, st)[c] = DoneAs(R, st)[c] + n[c],
         \A s \in Statuses \ {st} : DoneAs(Q, s) = DoneAs(R, s)
  PROVE  Grown(Q)
<1>1. PICK S : S = {c \in Cohort : n[c] > 0}
  OBVIOUS
<1>2. S \in SUBSET Nat /\ Lists(list, S)
  BY <1>1, DayFacts
<1>3. ASSUME NEW c \in Cohort, NEW since \in Int, NEW s \in Statuses, since <= now
      PROVE  Tally(Q.recent, c, s, since)
               = Tally(recentFinished, c, s, since) + (DoneAs(Q, s)[c] - DoneAs(RidersNow, s)[c])
  <2>1. Tally(R.recent, c, s, since)
          = Tally(recentFinished, c, s, since) + (DoneAs(R, s)[c] - DoneAs(RidersNow, s)[c])
    BY <1>3, Zenon DEF Grown
  <2>2. /\ c \in S => Tally(Q.recent, c, st, since) = Tally(R.recent, c, st, since) + n[c]
        /\ c \notin S => Tally(Q.recent, c, st, since) = Tally(R.recent, c, st, since)
        /\ s # st => Tally(Q.recent, c, s, since) = Tally(R.recent, c, s, since)
    <3>1. PICK p, q : p = Q.recent /\ q = R.recent
      OBVIOUS
    <3>2. Pushed(p, q, list, n, st)
      BY <3>1
    <3>3. since <= now /\ since \in Int
      BY <1>3
    <3>4. c \in S => Tally(p, c, st, since) = Tally(q, c, st, since) + n[c]
      BY <1>2, <3>2, <3>3, Pushing
    <3>5. c \notin S => Tally(p, c, st, since) = Tally(q, c, st, since)
      BY <1>2, <3>2, <3>3, PushedElsewhere
    <3>6. s # st => Tally(p, c, s, since) = Tally(q, c, s, since)
      BY <1>2, <3>2, <3>3, PushedElsewhere
    <3> QED
      BY <3>1, <3>4, <3>5, <3>6
  <2>3. /\ Tally(recentFinished, c, s, since) \in Nat
        /\ DoneAs(R, s)[c] \in Nat /\ DoneAs(RidersNow, s)[c] \in Nat /\ n[c] \in Nat
    <3>1. recentFinished \in Seq(Entry)
      BY DEF RidersNow, Riders
    <3> QED
      BY <3>1, TallyNat, DoneNat
  <2>4. CASE s # st
    BY <2>1, <2>2, <2>4
  <2>5. CASE s = st /\ c \in S
    <3>1. /\ Tally(Q.recent, c, s, since) = Tally(R.recent, c, s, since) + n[c]
          /\ DoneAs(Q, s)[c] = DoneAs(R, s)[c] + n[c]
      BY <2>2, <2>5
    <3> QED
      BY <2>1, <2>3, <3>1
  <2>6. CASE s = st /\ c \notin S
    <3>1. n[c] = 0
      BY <1>1, <2>3, <2>6
    <3>2. /\ Tally(Q.recent, c, s, since) = Tally(R.recent, c, s, since)
          /\ DoneAs(Q, s)[c] = DoneAs(R, s)[c] + n[c]
      BY <2>2, <2>6
    <3> QED
      BY <2>1, <2>3, <3>1, <3>2
  <2> QED
    BY <2>4, <2>5, <2>6
<1>4. DoneBy(recentFinished, now) => DoneBy(Q.recent, now)
  BY PushedBy DEF Grown
<1> QED
  BY <1>3, <1>4, Zenon DEF Grown

\* So it is when passengers get off ...
LEMMA AlightGrown ==
  ASSUME day \in Days, now \in Nat, RidersNow \in Riders,
         NEW R \in Riders, Grown(R), NEW b \in Bus, NEW stop
  PROVE  Grown(Alight(R, b, stop))
<1> DEFINE off == GettingOff(R, b, stop)
           Q == Alight(R, b, stop)
<1>1. off \in [Cohort -> Nat]
  BY GettingOffType
<1>2. AlightStep(Q, R, b, off)
  <2>1. off = GettingOff(R, b, stop) /\ Q = Alight(R, b, stop)
    OBVIOUS
  <2> HIDE DEF Q, off
  <2> QED
    BY <2>1, AlightFields
<1> HIDE DEF off, Q
<1>3. PICK list : /\ Lists(list, {c \in Cohort : off[c] > 0})
                  /\ Pushed(Q.recent, R.recent, list, off, "COMPLETED")
  BY <1>1, <1>2, AlightPushes
<1>4. /\ \A c \in Cohort : DoneAs(Q, "COMPLETED")[c] = DoneAs(R, "COMPLETED")[c] + off[c]
      /\ \A s \in Statuses \ {"COMPLETED"} : DoneAs(Q, s) = DoneAs(R, s)
  BY <1>2 DEF AlightStep, DoneAs, Statuses
<1>5. "COMPLETED" \in Statuses
  BY DEF Statuses
<1>6. Grown(Q)
  BY <1>1, <1>3, <1>4, <1>5, Growing
<1> QED
  BY <1>6 DEF Q

\* ... when they board ...
LEMMA BoardGrown ==
  ASSUME NEW R \in Riders, Grown(R), NEW b \in Bus, NEW v
  PROVE  Grown(Board(R, b, v))
<1> DEFINE take == Taken(R, b, v)
           left == {c \in Cohort : Eligible(R, v, c) /\ R.waiting[c] > take[c]}
           refused == SumFunctionOnSet([c \in Cohort |-> R.waiting[c] - take[c]],
                                       NewlyDenied(R, left))
           Q == Board(R, b, v)
<1>1. BoardStep(Q, R, b, take, left, refused)
  BY BoardFields
<1> HIDE DEF take, left, refused, Q
<1>2. Q.recent = R.recent /\ Q.completed = R.completed /\ Q.abandoned = R.abandoned
  BY <1>1 DEF BoardStep
<1>3. Grown(Q)
  BY <1>2, GrownSame
<1> QED
  BY <1>3 DEF Q

\* ... in a visit ...
LEMMA VisitGrown ==
  ASSUME day \in Days, now \in Nat, RidersNow \in Riders,
         NEW R \in Riders, NEW K, Counted(R, K), Grown(R), NEW b \in Bus, NEW v
  PROVE  Grown(Visit(R, b, v))
<1>1. PICK A : A = Alight(R, b, v.at)
  OBVIOUS
<1>2. Grown(A)
  BY <1>1, AlightGrown
<1>3. A \in Riders
  BY <1>1, AlightKeeps
<1>4. Grown(Board(A, b, v))
  BY <1>2, <1>3, BoardGrown
<1> QED
  BY <1>1, <1>2, <1>4 DEF Visit

\* ... when they come ...
LEMMA ArriveGrown ==
  ASSUME NEW R \in Riders, Grown(R)
  PROVE  Grown(Arrive(R))
<1>1. PICK Q, n : Q = Arrive(R) /\ ArriveStep(Q, R, n)
  BY ArriveFields
<1>2. Q.recent = R.recent /\ Q.completed = R.completed /\ Q.abandoned = R.abandoned
  BY <1>1 DEF ArriveStep
<1> QED
  BY <1>1, <1>2, GrownSame

\* ... and when they give up.
LEMMA AbandonGrown ==
  ASSUME day \in Days, now \in Nat, RidersNow \in Riders, NEW R \in Riders, Grown(R)
  PROVE  Grown(Abandon(R))
<1> DEFINE gone == GivingUp(R)
           Q == Abandon(R)
<1>1. gone \in [Cohort -> Nat]
  BY GivingUpType
<1>2. AbandonStep(Q, R, gone)
  <2>1. gone = GivingUp(R) /\ Q = Abandon(R)
    OBVIOUS
  <2> HIDE DEF Q, gone
  <2> QED
    BY <2>1, AbandonFields
<1> HIDE DEF gone, Q
<1>3. PICK list : /\ Lists(list, {c \in Cohort : gone[c] > 0})
                  /\ Pushed(Q.recent, R.recent, list, gone, "ABANDONED")
  BY <1>1, <1>2, AbandonPushes
<1>4. /\ \A c \in Cohort : DoneAs(Q, "ABANDONED")[c] = DoneAs(R, "ABANDONED")[c] + gone[c]
      /\ \A s \in Statuses \ {"ABANDONED"} : DoneAs(Q, s) = DoneAs(R, s)
  BY <1>2 DEF AbandonStep, DoneAs, Statuses
<1>5. "ABANDONED" \in Statuses
  BY DEF Statuses
<1>6. Grown(Q)
  BY <1>1, <1>3, <1>4, <1>5, Growing
<1> QED
  BY <1>6 DEF Q

-----------------------------------------------------------------------------
(* The buses, one after the other *)

\* What the passengers are when the buses of S have had their turn.
Visited(R, vs, S) ==
  /\ R \in Riders
  /\ Counted(R, Came(now))
  /\ Booked(R, now)
  /\ Timed(R)
  /\ Grown(R)
  /\ InOrder(R, vs)
  /\ \A b \in Bus \ S : /\ R.aboard[b] = aboard[b] /\ R.load[b] = load[b]
                        /\ OnceAboard(R, b, bus[b])
  /\ \A b \in S : /\ RidersOn(vs[b], R.aboard[b]) /\ R.load[b] \in VisitLoads(b, vs[b])
                  /\ OnceAboard(R, b, vs[b])

\* Before the first visit the tables are those of the state.
LEMMA VisitsBegin ==
  ASSUME KInv, NEW vs
  PROVE  Visited(RidersNow, vs, {})
<1>1. RidersNow.aboard = aboard /\ RidersNow.load = load
  BY DEF RidersNow
<1>2. InOrder(RidersNow, vs)
  <2> SUFFICES ASSUME NEW b \in Bus, NEW d \in Cohort, aboard[b][d] > aboard[b][d] PROVE FALSE
    BY <1>1 DEF InOrder
  <2>1. aboard[b][d] \in Nat
    BY DEF KInv, Riders, RidersNow
  <2> QED
    BY <2>1
<1>3. Timed(RidersNow)
  BY DEF KInv, Timed
<1>4. Grown(RidersNow)
  BY GrownAtFirst DEF KInv
<1> QED
  BY <1>1, <1>2, <1>3, <1>4 DEF KInv, Visited

\* A visit in turn leaves the buses visited so far served and the others untouched.
LEMMA VisitTurn ==
  ASSUME KInv, now < Horizon, NEW vs, vs = Fleet1, NEW S \in SUBSET Bus, NEW b \in S,
         NEW R, Visited(R, vs, S \ {b})
  PROVE  Visited(Visit(R, b, vs[b]), vs, S)
<1> DEFINE v == vs[b]
           Q == Visit(R, b, v)
<1>0. day \in Days /\ now \in Nat /\ RidersNow \in Riders /\ b \in Bus
  BY DEF KInv, Inv, TypeOK
<1>1. v = Completed(b)
  BY <1>0 DEF Fleet1
<1>2. /\ R \in Riders /\ Counted(R, Came(now)) /\ Booked(R, now) /\ Timed(R) /\ InOrder(R, vs)
      /\ R.aboard[b] = aboard[b] /\ R.load[b] = load[b] /\ OnceAboard(R, b, bus[b])
  BY <1>0 DEF Visited
<1>3. Q \in Riders /\ Counted(Q, Came(now))
  BY <1>0, <1>2, VisitKeeps
<1>4. Booked(Q, now)
  BY <1>0, <1>2, VisitBooks
<1>5. Timed(Q)
  BY <1>0, <1>1, <1>2, VisitTimed
<1>6. InOrder(Q, vs)
  BY <1>0, <1>2, VisitInOrder
<1>a. Grown(Q)
  <2>1. Grown(R)
    BY DEF Visited
  <2> QED
    BY <1>0, <1>2, <2>1, VisitGrown
<1>7. OnlyOn(Q, R, b)
  BY <1>0, <1>2, VisitOnly
<1>8. RidersOn(v, Q.aboard[b]) /\ Q.load[b] \in VisitLoads(b, v)
  BY <1>0, <1>1, <1>2, VisitServes
<1>9. OnceAboard(Q, b, v)
  BY <1>0, <1>1, <1>2, VisitOnce
<1> HIDE DEF Q
<1>10. ASSUME NEW x \in Bus \ {b}, NEW u, OnceAboard(R, x, u)
       PROVE  OnceAboard(Q, x, u)
  <2>1. Q.aboard[x] = R.aboard[x] /\ Q.load[x] = R.load[x] /\ (\A c \in Cohort : Q.waiting[c] <= R.waiting[c])
    BY <1>7 DEF OnlyOn
  <2> QED
    BY <1>2, <1>3, <1>10, <2>1, OnceKept
<1>11. ASSUME NEW x \in Bus \ S
       PROVE  Q.aboard[x] = aboard[x] /\ Q.load[x] = load[x] /\ OnceAboard(Q, x, bus[x])
  <2>1. R.aboard[x] = aboard[x] /\ R.load[x] = load[x] /\ OnceAboard(R, x, bus[x])
    BY DEF Visited
  <2> QED
    BY <1>7, <1>10, <2>1 DEF OnlyOn
<1>12. ASSUME NEW x \in S
       PROVE  RidersOn(vs[x], Q.aboard[x]) /\ Q.load[x] \in VisitLoads(x, vs[x]) /\ OnceAboard(Q, x, vs[x])
  <2>1. CASE x = b
    BY <1>8, <1>9, <2>1
  <2>2. CASE x # b
    <3>1. RidersOn(vs[x], R.aboard[x]) /\ R.load[x] \in VisitLoads(x, vs[x]) /\ OnceAboard(R, x, vs[x])
      BY <2>2 DEF Visited
    <3> QED
      BY <1>7, <1>10, <2>2, <3>1 DEF OnlyOn
  <2> QED
    BY <2>1, <2>2
<1>13. Visited(Q, vs, S)
  BY <1>3, <1>4, <1>5, <1>6, <1>11, <1>12, <1>a DEF Visited
<1> QED
  BY <1>13 DEF Q

\* When every bus had its turn, every bus is served.
LEMMA VisitsEnd ==
  ASSUME KInv, now < Horizon, NEW vs, vs = Fleet1
  PROVE  Visited(VisitInTurn(vs, RidersNow), vs, Bus)
<1>1. PICK g : VisitTurns(g, vs, RidersNow, Bus) /\ VisitInTurn(vs, RidersNow) = g[Bus]
  BY VisitInTurns
<1> DEFINE P == {S \in SUBSET Bus : Visited(g[S], vs, S)}
<1>2. {} \in P
  <2>1. g[{}] = RidersNow
    BY <1>1 DEF VisitTurns
  <2> QED
    BY <2>1, VisitsBegin
<1>3. \A T \in SUBSET Bus : T # {} /\ (\A x \in T : T \ {x} \in P) => T \in P
  <2> SUFFICES ASSUME NEW T \in SUBSET Bus, T # {}, \A x \in T : T \ {x} \in P
               PROVE  T \in P
    OBVIOUS
  <2>1. PICK m : m = Max(T)
    OBVIOUS
  <2>2. m \in T /\ g[T] = Visit(g[T \ {m}], m, vs[m])
    BY <1>1, <2>1 DEF VisitTurns
  <2>3. Visited(g[T \ {m}], vs, T \ {m})
    BY <2>2
  <2>4. Visited(g[T], vs, T)
    BY <2>2, <2>3, VisitTurn
  <2> QED
    BY <2>4
<1>4. Bus \in P
  <2> HIDE DEF P
  <2> QED
    BY <1>2, <1>3, FleetAssumption, SetInductionOn
<1> QED
  BY <1>1, <1>4

-----------------------------------------------------------------------------
(* The rest of a tick *)

\* Who is aboard has come.
LEMMA AboardHasCome ==
  ASSUME day \in Days, NEW R \in Riders, NEW t, Counted(R, Came(t)),
         NEW b \in Bus, NEW c \in Cohort, R.aboard[b][c] > 0
  PROVE  Trip(c).tick < t
<1> SUFFICES ASSUME ~(Trip(c).tick < t) PROVE FALSE
  OBVIOUS
<1>1. Riding(R.aboard, c) = 0
  BY NotYet
<1> DEFINE f == [x \in Bus |-> R.aboard[x][c]]
<1>2. \A x \in Bus : f[x] \in Nat
  BY DEF Riders
<1>3. f[b] <= SumFunctionOnSet(f, Bus)
  <2> HIDE DEF f
  <2> QED
    BY <1>2, FleetAssumption, SumBounds
<1>4. SumFunctionOnSet(f, Bus) = 0
  BY <1>1 DEF Riding
<1>5. f[b] > 0
  OBVIOUS
<1> HIDE DEF f
<1> QED
  BY <1>2, <1>3, <1>4, <1>5

\* What the passengers are from the arrivals of the tick on.
Served(R, vs) ==
  /\ R \in Riders
  /\ Counted(R, Came(now + 1))
  /\ Booked(R, now + 1)
  /\ Timed(R)
  /\ Grown(R)
  /\ InOrder(R, vs)
  /\ \A b \in Bus : /\ RidersOn(vs[b], R.aboard[b]) /\ R.load[b] \in VisitLoads(b, vs[b])
                    /\ OnceAboard(R, b, vs[b])

\* After the arrivals every bus is still served.
LEMMA ArriveServes ==
  ASSUME KInv, NEW vs, NEW R, Visited(R, vs, Bus)
  PROVE  Served(Arrive(R), vs)
<1> DEFINE Q == Arrive(R)
           n == SumFunctionOnSet([c \in Cohort |-> Trip(c).count], Newcomers)
<1>0. day \in Days /\ now \in Nat /\ RidersNow \in Riders
  BY DEF KInv, Inv, TypeOK
<1>1. /\ R \in Riders /\ Counted(R, Came(now)) /\ Booked(R, now) /\ Timed(R) /\ InOrder(R, vs)
      /\ \A b \in Bus : /\ RidersOn(vs[b], R.aboard[b]) /\ R.load[b] \in VisitLoads(b, vs[b])
                        /\ OnceAboard(R, b, vs[b])
  BY DEF Visited
<1>2. Q \in Riders /\ Counted(Q, Came(now + 1))
  BY <1>0, <1>1, ArriveKeeps
<1>3. Booked(Q, now + 1)
  BY <1>0, <1>1, ArriveBooks
<1>4. Timed(Q)
  <2>1. RideTime(Q) = RideTime(R) /\ BoardedBefore(Q)
    BY <1>1, ArriveRides DEF Timed
  <2>2. \A wt \in Weights : WaitingTime(Q, wt) = WaitingTime(R, wt)
    BY <1>0, <1>1, ArriveWaits
  <2> HIDE DEF Q
  <2> QED
    BY <1>1, <2>1, <2>2 DEF Timed
<1>5. InOrder(Q, vs)
  BY <1>0, <1>1, ArriveInOrder
<1>a. Grown(Q)
  BY <1>1, ArriveGrown DEF Visited
<1>6. ArriveStep(Q, R, n)
  BY <1>1, ArriveFields
<1>7. /\ Q.waiting = [c \in Cohort |-> IF c \in Newcomers THEN Trip(c).count ELSE R.waiting[c]]
      /\ Q.aboard = R.aboard /\ Q.load = R.load
  BY <1>6 DEF ArriveStep
<1> HIDE DEF Q, n
<1>8. ASSUME NEW b \in Bus PROVE OnceAboard(Q, b, vs[b])
  <2>1. \A c \in Cohort : R.aboard[b][c] > 0 => Q.waiting[c] <= R.waiting[c]
    <3> SUFFICES ASSUME NEW c \in Cohort, R.aboard[b][c] > 0 PROVE Q.waiting[c] <= R.waiting[c]
      OBVIOUS
    <3>1. Trip(c).tick < now
      BY <1>0, <1>1, AboardHasCome
    <3>2. c \notin Newcomers
      BY <1>0, <3>1, TripType DEF Newcomers
    <3>3. R.waiting[c] \in Nat
      BY <1>1 DEF Riders
    <3> QED
      BY <1>7, <3>2, <3>3
  <2> QED
    BY <1>1, <1>2, <1>7, <2>1, OnceKept
<1>9. Served(Q, vs)
  BY <1>1, <1>2, <1>3, <1>4, <1>5, <1>7, <1>8, <1>a DEF Served
<1> QED
  BY <1>9 DEF Q

\* So it is after passengers gave up.
LEMMA AbandonServes ==
  ASSUME KInv, now < Horizon, NEW vs, NEW R, Served(R, vs)
  PROVE  Served(Abandon(R), vs)
<1> DEFINE Q == Abandon(R)
           gone == GivingUp(R)
<1>0. day \in Days /\ now \in Nat /\ RidersNow \in Riders /\ now + 1 \in Nat /\ now + 1 <= now + 1
  BY DEF KInv, Inv, TypeOK
<1>1. /\ R \in Riders /\ Counted(R, Came(now + 1)) /\ Booked(R, now + 1) /\ Timed(R) /\ InOrder(R, vs)
      /\ \A b \in Bus : /\ RidersOn(vs[b], R.aboard[b]) /\ R.load[b] \in VisitLoads(b, vs[b])
                        /\ OnceAboard(R, b, vs[b])
  BY DEF Served
<1>2. Q \in Riders /\ Counted(Q, Came(now + 1))
  BY <1>0, <1>1, AbandonKeeps
<1>3. Booked(Q, now + 1)
  BY <1>0, <1>1, AbandonBooks
<1>4. Timed(Q)
  <2>1. RideTime(Q) = RideTime(R) /\ BoardedBefore(Q)
    BY <1>1, AbandonRides DEF Timed
  <2>2. \A wt \in Weights : WaitingTime(Q, wt) = WaitingTime(R, wt)
    BY <1>0, <1>1, AbandonWaits
  <2> HIDE DEF Q
  <2> QED
    BY <1>1, <2>1, <2>2 DEF Timed
<1>5. InOrder(Q, vs)
  BY <1>0, <1>1, AbandonInOrder
<1>a. Grown(Q)
  BY <1>0, <1>1, AbandonGrown DEF Served
<1>6. AbandonStep(Q, R, gone) /\ gone \in [Cohort -> Nat] /\ \A c \in Cohort : gone[c] <= R.waiting[c]
  BY <1>1, AbandonFields, GivingUpType
<1>7. /\ Q.waiting = [c \in Cohort |-> R.waiting[c] - gone[c]]
      /\ Q.aboard = R.aboard /\ Q.load = R.load
  BY <1>6 DEF AbandonStep
<1> HIDE DEF Q, gone
<1>8. \A c \in Cohort : Q.waiting[c] <= R.waiting[c]
  <2> TAKE c \in Cohort
  <2>1. R.waiting[c] \in Nat /\ gone[c] \in Nat
    BY <1>1, <1>6 DEF Riders
  <2> QED
    BY <1>7, <2>1
<1>9. ASSUME NEW b \in Bus PROVE OnceAboard(Q, b, vs[b])
  BY <1>1, <1>2, <1>7, <1>8, OnceKept
<1>10. Served(Q, vs)
  BY <1>1, <1>2, <1>3, <1>4, <1>5, <1>7, <1>9, <1>a DEF Served
<1> QED
  BY <1>10 DEF Q

\* So it is after an idle bus has boarded.
LEMMA IdleTurn ==
  ASSUME KInv, now < Horizon, NEW vs, vs = Fleet1, NEW R, Served(R, vs), NEW b \in Bus
  PROVE  Served(BoardIdle(R, b, vs[b]), vs)
<1> DEFINE v == vs[b]
           Q == BoardIdle(R, b, v)
           B == Board(R, b, v)
<1>0. /\ day \in Days /\ now \in Nat /\ RidersNow \in Riders
      /\ now + 1 \in Nat /\ now + 1 <= now + 1
  BY DEF KInv, Inv, TypeOK
<1>1. v = Completed(b)
  BY DEF Fleet1
<1>2. /\ R \in Riders /\ Counted(R, Came(now + 1)) /\ Booked(R, now + 1) /\ Timed(R) /\ InOrder(R, vs)
      /\ RidersOn(v, R.aboard[b]) /\ R.load[b] \in VisitLoads(b, v) /\ OnceAboard(R, b, v)
  BY DEF Served
<1>3. Q \in Riders /\ Counted(Q, Came(now + 1))
  BY <1>0, <1>2, BoardIdleKeeps
<1>4. Booked(Q, now + 1)
  <2>1. Booked(B, now + 1)
    BY <1>0, <1>2, BoardBooks
  <2> QED
    BY <1>2, <2>1 DEF BoardIdle
<1>5. Timed(Q) /\ OnceAboard(Q, b, v)
  <2>1. CASE Q = R
    BY <1>2, <2>1
  <2>2. CASE Q # R
    <3>1. v.phase = "TERMINAL_IDLE" /\ Q = B
      BY <2>2 DEF BoardIdle
    <3>2. \A c \in Cohort : Taken(R, b, v)[c] > 0 => R.aboard[b][c] = 0
      BY <1>0, <1>2, <3>1, IdleTakesNew
    <3>3. v.at \in Int
      <4>1. Good(v)
        BY <1>1, CompletedGood DEF KInv
      <4> QED
        BY <4>1, RouteAssumption DEF Good, VehicleType, Position, Depot
    <3> HIDE DEF v
    <3>4. RideTime(B) = RideTime(R) /\ BoardedBefore(B)
      BY <1>0, <1>2, <3>2, BoardRides DEF Timed
    <3>5. \A wt \in Weights : WaitingTime(B, wt) = WaitingTime(R, wt)
      BY <1>0, <1>2, BoardWaits
    <3>6. OnceAboard(B, b, v)
      BY <1>0, <1>2, <3>2, <3>3, BoardOnce
    <3> HIDE DEF B, Q
    <3> QED
      BY <1>2, <3>1, <3>4, <3>5, <3>6 DEF Timed
  <2> QED
    BY <2>1, <2>2
<1>6. InOrder(Q, vs)
  <2>1. InOrder(B, vs)
    BY <1>0, <1>2, BoardInOrder
  <2> QED
    BY <1>2, <2>1 DEF BoardIdle
<1>a. Grown(Q)
  <2>1. Grown(R)
    BY DEF Served
  <2>2. Grown(B)
    BY <1>2, <2>1, BoardGrown
  <2> QED
    BY <2>1, <2>2 DEF BoardIdle
<1>7. OnlyOn(Q, R, b)
  BY <1>0, <1>2, BoardIdleOnly
<1>8. RidersOn(v, Q.aboard[b]) /\ Q.load[b] \in VisitLoads(b, v)
  BY <1>1, <1>2, BoardIdleServes
<1> HIDE DEF Q
<1>9. ASSUME NEW x \in Bus
      PROVE  RidersOn(vs[x], Q.aboard[x]) /\ Q.load[x] \in VisitLoads(x, vs[x]) /\ OnceAboard(Q, x, vs[x])
  <2>1. CASE x = b
    BY <1>5, <1>8, <2>1
  <2>2. CASE x # b
    <3>1. RidersOn(vs[x], R.aboard[x]) /\ R.load[x] \in VisitLoads(x, vs[x]) /\ OnceAboard(R, x, vs[x])
      BY DEF Served
    <3>2. Q.aboard[x] = R.aboard[x] /\ Q.load[x] = R.load[x] /\ (\A c \in Cohort : Q.waiting[c] <= R.waiting[c])
      BY <1>7, <2>2 DEF OnlyOn
    <3>3. OnceAboard(Q, x, vs[x])
      BY <1>2, <1>3, <3>1, <3>2, OnceKept
    <3> QED
      BY <3>1, <3>2, <3>3
  <2> QED
    BY <2>1, <2>2
<1>10. Served(Q, vs)
  BY <1>3, <1>4, <1>5, <1>6, <1>9, <1>a DEF Served
<1> QED
  BY <1>10 DEF Q

\* So it is when all idle buses have boarded.
LEMMA IdlesEnd ==
  ASSUME KInv, now < Horizon, NEW vs, vs = Fleet1, NEW R, Served(R, vs)
  PROVE  Served(BoardIdleInTurn(vs, R), vs)
<1>1. PICK g : IdleTurns(g, vs, R, Bus) /\ BoardIdleInTurn(vs, R) = g[Bus]
  BY IdleInTurns
<1> DEFINE P == {S \in SUBSET Bus : Served(g[S], vs)}
<1>2. {} \in P
  <2>1. g[{}] = R
    BY <1>1 DEF IdleTurns
  <2> QED
    BY <2>1
<1>3. \A T \in SUBSET Bus : T # {} /\ (\A x \in T : T \ {x} \in P) => T \in P
  <2> SUFFICES ASSUME NEW T \in SUBSET Bus, T # {}, \A x \in T : T \ {x} \in P
               PROVE  T \in P
    OBVIOUS
  <2>1. PICK m : m = Max(T)
    OBVIOUS
  <2>2. m \in T /\ g[T] = BoardIdle(g[T \ {m}], m, vs[m])
    BY <1>1, <2>1 DEF IdleTurns
  <2>3. Served(g[T \ {m}], vs)
    BY <2>2
  <2>4. Served(g[T], vs)
    BY <2>2, <2>3, IdleTurn
  <2> QED
    BY <2>4
<1>4. Bus \in P
  <2> HIDE DEF P
  <2> QED
    BY <1>2, <1>3, FleetAssumption, SetInductionOn
<1> QED
  BY <1>1, <1>4

\* The passengers at the end of a tick.
LEMMA RidersServed ==
  ASSUME KInv, now < Horizon, NEW vs, vs = Fleet1
  PROVE  Served(RidersAfter(vs), vs)
<1> DEFINE R1 == VisitInTurn(vs, RidersNow)
           R2 == Arrive(R1)
           R3 == Abandon(R2)
<1>1. Visited(R1, vs, Bus)
  BY VisitsEnd
<1>2. Served(R2, vs)
  BY <1>1, ArriveServes
<1>3. Served(R3, vs)
  BY <1>2, AbandonServes
<1>4. Served(BoardIdleInTurn(vs, R3), vs)
  BY <1>3, IdlesEnd
<1> QED
  BY <1>4 DEF RidersAfter

-----------------------------------------------------------------------------
(* The tick *)

\* A tick with the passengers R at its end.
TickTo(R) ==
  /\ Served(R, Fleet1)
  /\ now < Horizon /\ now' = now + 1 /\ day' = day
  /\ waiting' = R.waiting /\ aboard' = R.aboard /\ completed' = R.completed
  /\ abandoned' = R.abandoned /\ denied' = R.denied /\ boardedAt' = R.boardedAt
  /\ waited' = R.waited /\ rode' = R.rode /\ branded' = R.branded
  /\ totals' = R.totals /\ load' = R.load
  /\ billed' = IF now + 1 = Horizon /\ ~settled
               THEN [R.billed EXCEPT !.unfinished = @ + Unfinished(R.totals)]
               ELSE R.billed
  /\ settled' = (settled \/ (now + 1 = Horizon /\ ~settled))
  /\ recentFinished' = Pruned(R.recent, now + 1)

\* A tick leads to tables that are served.
LEMMA TickServes ==
  ASSUME KInv, KTick
  PROVE  \E R : TickTo(R)
<1>1. PICK vs \in {Fleet1} : \E R \in {RidersAfter(vs)} :
        /\ FleetTick(vs, [b \in Entering(vs) |-> TravelTime(vs[b])])
        /\ waiting' = R.waiting /\ aboard' = R.aboard /\ completed' = R.completed
        /\ abandoned' = R.abandoned /\ denied' = R.denied /\ boardedAt' = R.boardedAt
        /\ waited' = R.waited /\ rode' = R.rode /\ branded' = R.branded
        /\ totals' = R.totals /\ load' = R.load
        /\ billed' = IF now + 1 = Horizon /\ ~settled
                     THEN [R.billed EXCEPT !.unfinished = @ + Unfinished(R.totals)]
                     ELSE R.billed
        /\ settled' = (settled \/ (now + 1 = Horizon /\ ~settled))
        /\ recentFinished' = Pruned(R.recent, now + 1)
        /\ UNCHANGED day
  BY DEF KTick
<1>2. PICK R \in {RidersAfter(vs)} :
        /\ FleetTick(vs, [b \in Entering(vs) |-> TravelTime(vs[b])])
        /\ waiting' = R.waiting /\ aboard' = R.aboard /\ completed' = R.completed
        /\ abandoned' = R.abandoned /\ denied' = R.denied /\ boardedAt' = R.boardedAt
        /\ waited' = R.waited /\ rode' = R.rode /\ branded' = R.branded
        /\ totals' = R.totals /\ load' = R.load
        /\ billed' = IF now + 1 = Horizon /\ ~settled
                     THEN [R.billed EXCEPT !.unfinished = @ + Unfinished(R.totals)]
                     ELSE R.billed
        /\ settled' = (settled \/ (now + 1 = Horizon /\ ~settled))
        /\ recentFinished' = Pruned(R.recent, now + 1)
        /\ UNCHANGED day
  BY <1>1
<1>3. now < Horizon /\ now' = now + 1
  BY <1>2 DEF FleetTick, TickSafe
<1>4. Served(R, vs)
  BY <1>2, <1>3, RidersServed
<1> QED
  BY <1>2, <1>3, <1>4 DEF TickTo

\* The times of the tape are times that an edge may take.
LEMMA TapeTimes ==
  ASSUME day \in Days, NEW r \in Route, NEW stop \in Nat, NEW t \in Nat
  PROVE  day.traffic[<<r, Smaller(stop, LastStop - 1), Smaller(t \div BucketTime, Buckets - 1)>>]
           \in EdgeTimes
<1> DEFINE q == t \div BucketTime
           i == Smaller(stop, LastStop - 1)
           j == Smaller(q, Buckets - 1)
<1>1. BucketTime \in Nat \ {0} /\ Buckets \in Nat \ {0}
  BY DemandAssumption
<1>2. q \in Nat
  BY <1>1
<1> HIDE DEF q
<1>3. i \in 0 .. LastStop - 1 /\ j \in 0 .. Buckets - 1
  BY <1>1, <1>2, RouteAssumption DEF Smaller
<1>4. day.traffic \in [Route \X (0 .. LastStop - 1) \X (0 .. Buckets - 1) -> EdgeTimes]
  BY DayAssumption DEF ValidDay
<1> HIDE DEF i, j
<1>5. day.traffic[<<r, i, j>>] \in EdgeTimes
  BY <1>3, <1>4
<1> QED
  BY <1>5 DEF i, j, q

\* A bus that enters an edge stands at a stop.
LEMMA EntersAtStop ==
  ASSUME KInv, NEW b \in Entering(Fleet1)
  PROVE  b \in Bus /\ Fleet1[b].route \in Route /\ Fleet1[b].at \in Nat
<1> DEFINE v == Fleet1[b]
<1>0. Inv /\ b \in Bus
  BY EnteringOpen DEF KInv
<1>1. v.route \in Route
  BY <1>0, EnteringOpen
<1>2. v = Completed(b) /\ Good(v)
  BY <1>0, CompletedGood DEF Fleet1
<1>3. CASE b \in Leaving(Fleet1)
  <2>1. v.phase = "TERMINAL_IDLE"
    BY <1>3, LeavingIdle
  <2>2. v.at = 0 \/ v.at = Limit(v)
    BY <1>2, <2>1 DEF Good, MissionInv, AtEnd
  <2>3. Limit(v) \in 1 .. LastStop
    BY <1>1, <1>2, LimitRange
  <2> QED
    BY <1>0, <1>1, <2>2, <2>3, RouteAssumption
<1>4. CASE DwellOver(b)
  <2>1. v = bus[b] /\ v.phase = "SERVICE_DWELL"
    BY <1>2, <1>4 DEF Completed, DwellOver
  <2> QED
    BY <1>0, <1>1, <2>1 DEF KInv, OnItsWay
<1> QED
  BY <1>3, <1>4 DEF Entering

\* The travel times are times of the tape.
LEMMA TravelTimes ==
  ASSUME KInv, NEW b \in Entering(Fleet1)
  PROVE  TravelTime(Fleet1[b]) \in EdgeTimes
<1>1. day \in Days /\ now \in Nat
  BY DEF KInv, Inv, TypeOK
<1> QED
  BY <1>1, EntersAtStop, TapeTimes DEF TravelTime

\* With its passengers, the fleet takes a tick that it can take without them.
LEMMA TickOfFleet ==
  ASSUME KInv, KTick
  PROVE  Tick
<1>1. PICK vs \in {Fleet1} : \E R \in {RidersAfter(vs)} :
        /\ FleetTick(vs, [b \in Entering(vs) |-> TravelTime(vs[b])])
        /\ load' = R.load
  BY DEF KTick
<1>2. PICK R \in {RidersAfter(vs)} :
        /\ FleetTick(vs, [b \in Entering(vs) |-> TravelTime(vs[b])])
        /\ load' = R.load
  BY <1>1
<1>3. now < Horizon
  BY <1>2 DEF FleetTick, TickSafe
<1>4. Served(R, vs)
  BY <1>2, <1>3, RidersServed
<1>5. load' \in [Bus -> 0 .. Capacity]
  BY <1>2, <1>4 DEF Served, Riders
<1>6. \A b \in Bus : load'[b] \in VisitLoads(b, vs[b])
  BY <1>2, <1>4 DEF Served
<1>7. [b \in Entering(vs) |-> TravelTime(vs[b])] \in [Entering(vs) -> EdgeTimes]
  BY TravelTimes
<1> QED
  BY <1>2, <1>5, <1>6, <1>7 DEF Tick

\* What the dispatcher and the clock make of a bus.
LEMMA AfterTickIs ==
  ASSUME NEW vs, NEW b, vs[b] \in VehicleType, NEW gone, NEW duration,
         NEW u, u = AfterTick(vs, gone, duration, b)
  PROVE  /\ u.route = vs[b].route /\ u.at = vs[b].at /\ u.direction = vs[b].direction
         /\ u.pattern = vs[b].pattern /\ u.turn = vs[b].turn
         /\ \/ u.phase = vs[b].phase /\ u.next = vs[b].next
            \/ u.phase = "SERVICE_MOVING" /\ u.next = u.at + u.direction
<1> DEFINE v == vs[b]
           w == IF b \in gone
                THEN [EnterEdge(v, duration[b]) EXCEPT !.pendingExtra = FALSE]
                ELSE IF DwellOver(b) THEN EnterEdge(v, duration[b]) ELSE v
<1>1. v \in VehicleType
  OBVIOUS
<1>2. u = Elapse(w)
  BY DEF AfterTick
<1>3. /\ w.route = v.route /\ w.at = v.at /\ w.direction = v.direction
      /\ w.pattern = v.pattern /\ w.turn = v.turn
      /\ \/ w.phase = v.phase /\ w.next = v.next
         \/ w.phase = "SERVICE_MOVING" /\ w.next = v.at + v.direction
      /\ \E x, y : u = [w EXCEPT !.remaining = x] \/ u = w
  <2> HIDE DEF v
  <2>1. u = [w EXCEPT !.remaining = @ - 1] \/ u = w
    BY <1>2 DEF Elapse
  <2> QED
    BY <1>1, <2>1 DEF EnterEdge, VehicleType
<1>4. /\ u.route = w.route /\ u.at = w.at /\ u.direction = w.direction
      /\ u.pattern = w.pattern /\ u.turn = w.turn /\ u.phase = w.phase /\ u.next = w.next
  <2> HIDE DEF v
  <2>1. u = [w EXCEPT !.remaining = @ - 1] \/ u = w
    BY <1>2 DEF Elapse
  <2>2. w = [v EXCEPT !.next = v.at + v.direction, !.remaining = duration[b],
                      !.phase = "SERVICE_MOVING", !.pendingExtra = FALSE]
        \/ w = [v EXCEPT !.next = v.at + v.direction, !.remaining = duration[b],
                      !.phase = "SERVICE_MOVING"]
        \/ w = v
    BY <1>1 DEF EnterEdge, VehicleType
  <2> HIDE DEF w
  <2> QED
    BY <1>1, <2>1, <2>2 DEF VehicleType
<1> HIDE DEF v, w
<1> QED
  BY <1>3, <1>4 DEF v

\* What is so of a bus once its phase is completed is so of it after the tick.
LEMMA AfterTickKeeps ==
  ASSUME NEW vs, NEW b, vs[b] \in VehicleType, NEW gone, NEW duration,
         NEW u, u = AfterTick(vs, gone, duration, b),
         NEW R, RidersOn(vs[b], R.aboard[b]), OnceAboard(R, b, vs[b]), OnItsWay(vs[b])
  PROVE  /\ RidersOn(u, R.aboard[b])
         /\ OnceAboard(R, b, u)
         /\ OnItsWay(u)
<1> DEFINE v == vs[b]
<1>1. /\ u.route = v.route /\ u.at = v.at /\ u.direction = v.direction
      /\ u.pattern = v.pattern /\ u.turn = v.turn
      /\ \/ u.phase = v.phase /\ u.next = v.next
         \/ u.phase = "SERVICE_MOVING" /\ u.next = u.at + u.direction
  BY AfterTickIs
<1>2. RidersOn(v, R.aboard[b]) /\ OnceAboard(R, b, v) /\ OnItsWay(v)
  OBVIOUS
<1> HIDE DEF v
<1>3. ServiceEnd(u) = ServiceEnd(v)
  BY <1>1 DEF ServiceEnd, Limit, TurnOf
<1>4. RidersOn(u, R.aboard[b])
  BY <1>1, <1>2, <1>3 DEF RidersOn
<1>5. OnceAboard(R, b, u)
  BY <1>1, <1>2 DEF OnceAboard
<1>6. OnItsWay(u)
  BY <1>1, <1>2 DEF OnItsWay
<1> QED
  BY <1>4, <1>5, <1>6

\* While the day stays, its cohorts stay.
LEMMA DayStays ==
  ASSUME day' = day
  PROVE  Cohort' = Cohort /\ \A c : Trip(c)' = Trip(c)
BY DEF Cohort, Trip

\* What KInv says of the passengers X at time t, who have what of the day's
\* tape has come.
Settled(X, t) ==
  /\ X \in Riders
  /\ Counted(X, Came(t))
  /\ \A c \in Cohort : X.denied[c] => Trip(c).tick < t
  /\ X.billed.denied = X.branded + Marked(X, X.waiting)
  /\ X.billed.abandoned = X.totals.abandoned
  /\ X.totals.generated = X.totals.waiting + X.totals.onboard
                           + X.totals.completed + X.totals.abandoned
  /\ \A b \in Bus, c \in Cohort : X.boardedAt[b][c] <= t
  /\ X.billed.unfinished = IF t = Horizon THEN X.totals.generated - X.totals.completed
                                                - X.totals.abandoned ELSE 0

\* The tables after a tick, settlement included, satisfy the invariant's conditions
\* on tables.
LEMMA TickSettles ==
  ASSUME KInv, NEW R, TickTo(R), NEW X, X = RidersNow'
  PROVE  /\ X.aboard = R.aboard /\ X.waiting = R.waiting /\ X.load = R.load
         /\ X.boardedAt = R.boardedAt /\ X.waited = R.waited /\ X.rode = R.rode
         /\ settled' = (now' = Horizon)
         /\ Settled(X, now + 1)
<1>0. /\ now \in Nat /\ settled = (now = Horizon) /\ now < Horizon /\ now' = now + 1
      /\ Horizon \in Nat
  BY TimeAssumption DEF KInv, Inv, TypeOK, SettledOnce, TickTo
<1>1. /\ R \in Riders /\ Counted(R, Came(now + 1)) /\ Booked(R, now + 1) /\ BoardedBefore(R)
  BY DEF TickTo, Served, Timed
<1>2. /\ X.waiting = R.waiting /\ X.aboard = R.aboard /\ X.completed = R.completed
      /\ X.abandoned = R.abandoned /\ X.denied = R.denied /\ X.boardedAt = R.boardedAt
      /\ X.waited = R.waited /\ X.rode = R.rode /\ X.branded = R.branded
      /\ X.totals = R.totals /\ X.load = R.load /\ X.billed = billed'
      /\ X.recent = Pruned(R.recent, now + 1) /\ HasFields(X)
  <2>1. X = [waiting |-> waiting', aboard |-> aboard', completed |-> completed',
             abandoned |-> abandoned', denied |-> denied', boardedAt |-> boardedAt',
             waited |-> waited', rode |-> rode', branded |-> branded', totals |-> totals',
             billed |-> billed', load |-> load', recent |-> recentFinished']
    BY DEF RidersNow
  <2>2. HasFields(X)
    BY <2>1 DEF HasFields, Names
  <2> QED
    BY <2>1, <2>2 DEF TickTo
<1>a. ~settled
  <2>1. now # Horizon
    BY <1>0
  <2> QED
    BY <1>0, <2>1, Zenon
<1>3. settled' = (now' = Horizon)
  <2>1. settled' = (settled \/ (now + 1 = Horizon /\ ~settled)) /\ now' = now + 1
    BY DEF TickTo
  <2> QED
    BY <1>a, <2>1, Zenon
<1> DEFINE T == R.totals
<1>4. /\ T \in Counters /\ R.billed \in [denied : Nat, abandoned : Nat, unfinished : Nat]
  BY <1>1 DEF Riders
<1>5. /\ T.generated \in Int /\ T.waiting \in Int /\ T.onboard \in Int
      /\ T.completed \in Int /\ T.abandoned \in Int
      /\ R.billed.unfinished \in Nat
  BY <1>4 DEF Counters
<1>6. R.billed.unfinished = 0
  BY <1>a, <1>1, Zenon DEF Booked, KInv, SettledOnce
<1>7. T.waiting \in Nat /\ T.onboard \in Nat
  <2>1. T.waiting = SumFunctionOnSet(R.waiting, Cohort) /\ T.onboard = SumFunctionOnSet(R.load, Bus)
    BY <1>1 DEF Counted
  <2>2. IsFiniteSet(Cohort) /\ IsFiniteSet(Bus)
    BY DayFacts, FleetAssumption DEF KInv
  <2>3. (\A c \in Cohort : R.waiting[c] \in Nat) /\ \A b \in Bus : R.load[b] \in Nat
    BY <1>1, FleetAssumption DEF Riders
  <2>4. SumFunctionOnSet(R.waiting, Cohort) \in Nat
    BY <2>2, <2>3, SumNat
  <2>5. SumFunctionOnSet(R.load, Bus) \in Nat
    BY <2>2, <2>3, SumNat
  <2> QED
    BY <2>1, <2>4, <2>5
<1>8. T.generated = T.waiting + T.onboard + T.completed + T.abandoned
  BY <1>1 DEF Booked
<1>9. billed' = IF now + 1 = Horizon
                THEN [R.billed EXCEPT !.unfinished = @ + Unfinished(T)] ELSE R.billed
  BY <1>a, Zenon DEF TickTo
<1> HIDE DEF T
<1>10. /\ X.billed.denied = R.billed.denied /\ X.billed.abandoned = R.billed.abandoned
       /\ X.billed.unfinished = IF now + 1 = Horizon THEN T.waiting + T.onboard ELSE 0
       /\ X.billed \in [denied : Nat, abandoned : Nat, unfinished : Nat]
  <2> DEFINE n == Unfinished(T)
             B == R.billed
  <2>0. n = T.waiting + T.onboard
    BY DEF Unfinished
  <2>1. n \in Nat
    BY <1>7, <2>0
  <2>2. X.billed = IF now + 1 = Horizon THEN [B EXCEPT !.unfinished = @ + n] ELSE B
    BY <1>2, <1>9
  <2>3. B \in [denied : Nat, abandoned : Nat, unfinished : Nat] /\ B.unfinished = 0
    BY <1>4, <1>6
  <2> HIDE DEF n, B
  <2>4. /\ X.billed \in [denied : Nat, abandoned : Nat, unfinished : Nat]
        /\ X.billed.denied = B.denied /\ X.billed.abandoned = B.abandoned
        /\ X.billed.unfinished = IF now + 1 = Horizon THEN n ELSE 0
    BY <2>1, <2>2, <2>3
  <2> QED
    BY <2>0, <2>4 DEF B
<1>11. X \in Riders
  <2>1. R.recent \in Seq(Entry) /\ now + 1 \in Nat
    BY <1>0, <1>1 DEF Riders
  <2>2. X.recent \in Seq(Entry)
    BY <1>2, <2>1, PrunedIs
  <2> QED
    BY <1>1, <1>2, <1>10, <2>2, RidersType DEF Riders
<1>12. Counted(X, Came(now + 1))
  BY <1>1, <1>2 DEF Counted
<1>13. Marked(X, X.waiting) = Marked(R, R.waiting)
  BY <1>2 DEF Marked
<1>14. /\ \A c \in Cohort : X.denied[c] => Trip(c).tick < now + 1
       /\ X.billed.denied = X.branded + Marked(X, X.waiting)
       /\ X.billed.abandoned = X.totals.abandoned
       /\ X.totals.generated = X.totals.waiting + X.totals.onboard
                               + X.totals.completed + X.totals.abandoned
  BY <1>1, <1>2, <1>10, <1>13 DEF Booked
<1>15. \A b \in Bus, c \in Cohort : X.boardedAt[b][c] <= now + 1
  <2> TAKE b \in Bus, c \in Cohort
  <2>1. R.boardedAt[b][c] \in Nat /\ R.boardedAt[b][c] <= now
    BY <1>1 DEF Riders, BoardedBefore
  <2> QED
    BY <1>0, <1>2, <2>1
<1>16. X.totals = T
  BY <1>2 DEF T
<1>17. X.billed.unfinished = IF now + 1 = Horizon THEN X.totals.generated - X.totals.completed
                                                  - X.totals.abandoned ELSE 0
  BY <1>5, <1>7, <1>8, <1>10, <1>16
<1>18. Settled(X, now + 1)
  BY <1>11, <1>12, <1>14, <1>15, <1>17 DEF Settled
<1> QED
  BY <1>2, <1>3, <1>18

\* These conditions are the invariant's in the next state.
LEMMA SettledPrime ==
  ASSUME day' = day, NEW X, X = RidersNow', NEW t, t = now', Settled(X, t),
         settled' = (now' = Horizon)
  PROVE  /\ (RidersNow \in Riders)'
         /\ Counted(RidersNow, Came(now))'
         /\ Booked(RidersNow, now)'
         /\ BoardedBefore(RidersNow)'
         /\ SettledOnce'
<1>1. Cohort' = Cohort /\ \A c : Trip(c)' = Trip(c)
  BY DayStays
<1>2. Came(now)' = Came(t)
  BY <1>1 DEF Came
<1>3. (RidersNow \in Riders)'
  BY <1>1 DEF Riders, Settled
<1>4. Counted(RidersNow, Came(now))'
  BY <1>1, <1>2 DEF Counted, LoadsCount, Settled
<1>5. X.billed = billed' /\ X.totals = totals'
  BY DEF RidersNow
<1>6. Booked(RidersNow, now)'
  BY <1>1, <1>5 DEF Booked, Marked, Settled
<1>7. BoardedBefore(RidersNow)'
  BY <1>1 DEF BoardedBefore, Settled
<1>8. SettledOnce'
  BY <1>5 DEF SettledOnce, Settled
<1> QED
  BY <1>3, <1>4, <1>6, <1>7, <1>8

\* A tick keeps the invariant.
LEMMA KTickKeepsKInv == ASSUME KInv, KTick PROVE KInv'
<1>1. PICK R : TickTo(R)
  BY TickServes
<1>2. PICK X : X = RidersNow'
  OBVIOUS
<1>3. /\ X.aboard = R.aboard /\ X.waiting = R.waiting /\ X.load = R.load
      /\ settled' = (now' = Horizon)
      /\ Settled(X, now + 1) /\ now' = now + 1 /\ day' = day
  BY <1>1, <1>2, TickSettles DEF TickTo
<1>4. Inv'
  BY TickOfFleet, TickKeepsInv DEF KInv
<1>5. /\ (RidersNow \in Riders)'
      /\ Counted(RidersNow, Came(now))'
      /\ Booked(RidersNow, now)'
      /\ BoardedBefore(RidersNow)'
      /\ SettledOnce'
  BY <1>2, <1>3, SettledPrime
<1>6. PICK duration : bus' = [b \in Bus |-> AfterTick(Fleet1, Leaving(Fleet1), duration, b)]
  BY TickOfFleet DEF Tick, FleetTick
<1>7. ASSUME NEW b \in Bus, NEW u, u = bus'[b]
      PROVE  RidersOn(u, R.aboard[b]) /\ OnceAboard(R, b, u) /\ OnItsWay(u)
  <2>1. Fleet1[b] = Completed(b)
    BY DEF Fleet1
  <2>2. Fleet1[b] \in VehicleType
    BY <2>1, CompletedGood DEF KInv, Good
  <2>3. OnItsWay(Fleet1[b])
    BY <2>1, CompletedOnItsWay DEF KInv
  <2>4. RidersOn(Fleet1[b], R.aboard[b]) /\ OnceAboard(R, b, Fleet1[b])
    BY <1>1 DEF TickTo, Served
  <2>5. u = AfterTick(Fleet1, Leaving(Fleet1), duration, b)
    BY <1>6, <1>7
  <2> QED
    BY <2>2, <2>3, <2>4, <2>5, AfterTickKeeps
<1>8. Cohort' = Cohort /\ \A c : Trip(c)' = Trip(c)
  BY <1>3, DayStays
<1>9. aboard' = X.aboard /\ (RidersNow.aboard)' = X.aboard /\ (RidersNow.load)' = X.load
      /\ (RidersNow.waiting)' = X.waiting
  BY <1>2 DEF RidersNow
<1>10. ASSUME NEW b \in Bus
       PROVE  RidersOn(bus[b], aboard[b])' /\ OnceAboard(RidersNow, b, bus[b])' /\ OnItsWay(bus[b])'
  <2>1. PICK u : u = bus'[b]
    OBVIOUS
  <2>2. RidersOn(u, R.aboard[b]) /\ OnceAboard(R, b, u) /\ OnItsWay(u)
    BY <1>7, <2>1
  <2>3. RidersOn(bus[b], aboard[b])'
    BY <1>3, <1>8, <1>9, <2>1, <2>2 DEF RidersOn
  <2>4. OnceAboard(RidersNow, b, bus[b])'
    BY <1>3, <1>8, <1>9, <2>1, <2>2 DEF OnceAboard
  <2>5. OnItsWay(bus[b])'
    BY <2>1, <2>2 DEF OnItsWay
  <2> QED
    BY <2>3, <2>4, <2>5
<1>11. day' \in Days
  BY <1>3 DEF KInv
<1> QED
  BY <1>4, <1>5, <1>10, <1>11 DEF KInv

-----------------------------------------------------------------------------
(* Decisions *)

\* What a decision makes of a bus that gets a mission.
LEMMA AcceptBus ==
  ASSUME Inv, NEW b \in Bus, NEW v \in VehicleType, Accept(b, v),
         v.phase \in {"DEADHEAD", "TERMINAL_IDLE"},
         load[b] = 0 \/ bus[b].phase = "DEPOT_IDLE"
  PROVE  /\ now' = now /\ load' = load
         /\ \A x \in Bus :
              \/ bus'[x] = bus[x]
              \/ /\ bus'[x].phase \in {"DEADHEAD", "TERMINAL_IDLE"}
                 /\ load[x] = 0 \/ bus[x].phase = "DEPOT_IDLE"
<1> DEFINE w == [v EXCEPT !.cooldownUntil = now + Cooldown]
<1>1. w.phase = v.phase
  BY DEF VehicleType
<1> HIDE DEF w
<1>2. bus' = [bus EXCEPT ![b] = w] /\ now' = now /\ load' = load
  BY DEF Accept, w
<1> QED
  BY <1>1, <1>2 DEF Inv, TypeOK

\* A decision leaves clock and loads alone and moves only buses without riders.
LEMMA DecideBus ==
  ASSUME Inv, Decide
  PROVE  /\ now' = now /\ load' = load
         /\ \A x \in Bus :
              \/ bus'[x] = bus[x]
              \/ /\ bus'[x].phase \in {"DEADHEAD", "TERMINAL_IDLE"}
                 /\ load[x] = 0 \/ bus[x].phase = "DEPOT_IDLE"
<1> DEFINE Done == /\ now' = now /\ load' = load
                   /\ \A x \in Bus :
                        \/ bus'[x] = bus[x]
                        \/ /\ bus'[x].phase \in {"DEADHEAD", "TERMINAL_IDLE"}
                           /\ load[x] = 0 \/ bus[x].phase = "DEPOT_IDLE"
<1>0. \A b \in Bus : Good(bus[b])
  BY DEF Inv, TypeOK, MissionsMakeSense, Good
<1>1. CASE Noop
  BY <1>1 DEF Noop
<1>2. ASSUME NEW b \in Bus, NEW r \in Route, Dispatch(b, r) PROVE Done
  <2> DEFINE v == [Deadheading(bus[b], r, 0) EXCEPT !.direction = 1, !.pendingExtra = TRUE]
  <2>1. bus[b].phase = "DEPOT_IDLE" /\ Accept(b, v)
    BY <1>2 DEF Dispatch, CanDispatch
  <2>2. bus[b].pattern = "FULL" /\ bus[b] \in VehicleType
    BY <1>0, <2>1 DEF Good, MissionInv
  <2>3. v \in VehicleType
    BY <1>0, <2>2, DeadheadingGood DEF Good
  <2>4. v.phase = "DEADHEAD"
    BY <2>2 DEF Deadheading, VehicleType
  <2> HIDE DEF v
  <2> QED
    BY <2>1, <2>3, <2>4, AcceptBus
<1>3. ASSUME NEW b \in Bus, Recall(b) PROVE Done
  <2> DEFINE v == [Deadheading(bus[b], NoRoute, Depot) EXCEPT
                    !.pattern = "FULL", !.turn = Nowhere, !.pendingExtra = FALSE]
  <2>1. load[b] = 0 /\ Accept(b, v) /\ bus[b].pattern = "FULL" /\ bus[b].phase = "TERMINAL_IDLE"
    BY <1>3 DEF Recall, CanRecall, DonorGuard
  <2>2. bus[b] \in VehicleType /\ bus[b].route \in Route
    BY <1>0, <2>1 DEF Good, MissionInv
  <2>3. v \in VehicleType
    BY <1>0, <2>1, <2>2, DeadheadingGood DEF Good
  <2>4. v.phase = "DEADHEAD"
    BY <2>2 DEF Deadheading, VehicleType
  <2> HIDE DEF v
  <2> QED
    BY <2>1, <2>3, <2>4, AcceptBus
<1>4. ASSUME NEW b \in Bus, NEW r \in Route, Reassign(b, r) PROVE Done
  <2> DEFINE v == [Deadheading(bus[b], r, 0) EXCEPT
                    !.direction = 1, !.pattern = "FULL", !.turn = Nowhere,
                    !.pendingExtra = TRUE]
  <2>1. load[b] = 0 /\ Accept(b, v) /\ bus[b].pattern = "FULL"
    BY <1>4 DEF Reassign, CanReassign, DonorGuard
  <2>2. bus[b] \in VehicleType
    BY <1>0 DEF Good
  <2>3. v \in VehicleType
    BY <1>0, <2>1, <2>2, DeadheadingGood DEF Good
  <2>4. v.phase = "DEADHEAD"
    BY <2>2 DEF Deadheading, VehicleType
  <2> HIDE DEF v
  <2> QED
    BY <2>1, <2>3, <2>4, AcceptBus
<1>5. ASSUME NEW b \in Bus, NEW r \in Route, ShortTurn(b, r) PROVE Done
  <2> DEFINE near == Shortened(bus[b], r)
             far == Deadheading(near, r, 0)
             v == IF bus[b].phase = "DEPOT_IDLE" THEN far ELSE near
  <2>1. load[b] = 0 /\ Accept(b, v)
    BY <1>5 DEF ShortTurn, CanShortTurn
  <2>2. bus[b].phase = "DEPOT_IDLE" \/ (bus[b].phase = "TERMINAL_IDLE" /\ bus[b].at = 0)
    BY <1>5 DEF ShortTurn, CanShortTurn, DonorGuard
  <2>3. bus[b] \in VehicleType
    BY <1>0 DEF Good
  <2>4. near.phase = bus[b].phase /\ far.phase = "DEADHEAD"
    BY <2>3 DEF Shortened, Deadheading, VehicleType
  <2>5. far \in VehicleType /\ (bus[b].phase = "TERMINAL_IDLE" => near \in VehicleType)
    BY <1>0, <2>2, ShortGood DEF Good
  <2>6. v \in VehicleType /\ v.phase \in {"DEADHEAD", "TERMINAL_IDLE"}
    <3> HIDE DEF near, far
    <3> QED
      BY <2>2, <2>4, <2>5
  <2> HIDE DEF v
  <2> QED
    BY <2>1, <2>6, AcceptBus
<1>6. ASSUME NEW r \in Route, NEW h \in Headways, SetHeadway(r, h) PROVE Done
  BY <1>6 DEF SetHeadway
<1> QED
  BY <1>1, <1>2, <1>3, <1>4, <1>5, <1>6 DEF Decide

\* Nobody rides on an empty bus, or on one in the depot.
LEMMA EmptyBus ==
  ASSUME KInv, NEW b \in Bus, load[b] = 0 \/ bus[b].phase = "DEPOT_IDLE", NEW c \in Cohort
  PROVE  ~(aboard[b][c] > 0)
<1> SUFFICES ASSUME aboard[b][c] > 0 PROVE FALSE
  OBVIOUS
<1>1. bus[b].phase # "DEPOT_IDLE"
  BY DEF KInv, RidersOn
<1>2. load[b] = SumFunctionOnSet(aboard[b], Cohort)
  BY DEF KInv, Counted, LoadsCount, RidersNow
<1>3. (\A x \in Cohort : aboard[b][x] \in Nat) /\ IsFiniteSet(Cohort)
  <2>1. aboard \in [Bus -> [Cohort -> Nat]]
    BY DEF KInv, Riders, RidersNow
  <2>2. IsFiniteSet(Cohort)
    BY DayFacts DEF KInv
  <2> QED
    BY <2>1, <2>2
<1>4. aboard[b][c] <= load[b]
  BY <1>2, <1>3, SumBounds
<1>5. aboard[b][c] \in Nat
  BY <1>3
<1> QED
  BY <1>1, <1>4, <1>5

\* A decision keeps the invariant.
LEMMA KDecideKeepsKInv == ASSUME KInv, KDecide PROVE KInv'
<1>1. Decide /\ UNCHANGED <<day, riders>> /\ Inv
  BY DEF KDecide, KInv
<1>2. Inv'
  BY <1>1, DecideKeepsInv
<1>3. now' = now /\ load' = load
  BY <1>1, DecideBus
<1>4. RidersNow' = RidersNow /\ day' = day /\ aboard' = aboard /\ settled' = settled
      /\ billed' = billed /\ totals' = totals
  BY <1>1, <1>3 DEF RidersNow, riders
<1>5. Cohort' = Cohort /\ \A c : Trip(c)' = Trip(c)
  BY <1>4, DayStays
<1>6. PICK X : X = RidersNow
  OBVIOUS
<1>7. /\ X \in Riders /\ Counted(X, Came(now)) /\ Booked(X, now) /\ BoardedBefore(X)
      /\ \A b \in Bus : OnceAboard(X, b, bus[b])
  BY <1>6 DEF KInv
<1>8. X.aboard = aboard /\ RidersNow' = X
  BY <1>4, <1>6 DEF RidersNow
<1>9. Came(now)' = Came(now)
  BY <1>3, <1>5 DEF Came
<1>10. (RidersNow \in Riders)'
  BY <1>5, <1>7, <1>8 DEF Riders
<1>11. Counted(RidersNow, Came(now))'
  BY <1>5, <1>7, <1>8, <1>9 DEF Counted, LoadsCount
<1>12. Booked(RidersNow, now)'
  BY <1>3, <1>4, <1>5, <1>7, <1>8 DEF Booked, Marked
<1>13. BoardedBefore(RidersNow)'
  BY <1>3, <1>5, <1>7, <1>8 DEF BoardedBefore
<1>14. SettledOnce'
  BY <1>3, <1>4 DEF KInv, SettledOnce
<1>15. ASSUME NEW b \in Bus
       PROVE  RidersOn(bus[b], aboard[b])' /\ OnceAboard(RidersNow, b, bus[b])' /\ OnItsWay(bus[b])'
  <2>1. CASE bus'[b] = bus[b]
    <3>1. RidersOn(bus[b], aboard[b]) /\ OnItsWay(bus[b]) /\ OnceAboard(X, b, bus[b])
      BY <1>7 DEF KInv
    <3>2. RidersOn(bus[b], aboard[b])'
      <4>1. ServiceEnd(bus[b])' = ServiceEnd(bus[b])
        BY <2>1 DEF ServiceEnd, Limit, TurnOf
      <4> QED
        BY <1>4, <1>5, <2>1, <3>1, <4>1 DEF RidersOn
    <3>3. OnceAboard(RidersNow, b, bus[b])'
      BY <1>5, <1>8, <2>1, <3>1 DEF OnceAboard
    <3>4. OnItsWay(bus[b])'
      BY <2>1, <3>1 DEF OnItsWay
    <3> QED
      BY <3>2, <3>3, <3>4
  <2>2. CASE bus'[b] # bus[b]
    <3>1. /\ bus'[b].phase \in {"DEADHEAD", "TERMINAL_IDLE"}
          /\ load[b] = 0 \/ bus[b].phase = "DEPOT_IDLE"
      BY <1>1, <2>2, DecideBus
    <3>2. \A c \in Cohort : ~(aboard[b][c] > 0)
      BY <3>1, EmptyBus
    <3>3. RidersOn(bus[b], aboard[b])'
      BY <1>4, <1>5, <3>2 DEF RidersOn
    <3>4. OnceAboard(RidersNow, b, bus[b])'
      BY <1>5, <1>8, <3>2 DEF OnceAboard
    <3>5. OnItsWay(bus[b])'
      BY <3>1 DEF OnItsWay
    <3> QED
      BY <3>3, <3>4, <3>5
  <2> QED
    BY <2>1, <2>2
<1>16. day' \in Days
  BY <1>4 DEF KInv
<1> QED
  BY <1>2, <1>10, <1>11, <1>12, <1>13, <1>14, <1>15, <1>16 DEF KInv

-----------------------------------------------------------------------------
(* The kernel *)

\* The invariant holds when a day begins.
LEMMA KInitKInv == KInit => KInv
<1> SUFFICES ASSUME KInit PROVE KInv
  OBVIOUS
<1>1. Inv /\ day \in Days /\ now = 0
  BY InitInv DEF KInit, Init
<1>2. IsFiniteSet(Cohort) /\ IsFiniteSet(Bus) /\ Horizon \in Nat \ {0} /\ Capacity \in Nat \ {0}
  BY <1>1, DayFacts, FleetAssumption, TimeAssumption
<1> DEFINE R == RidersNow
<1>3. /\ R.waiting = waiting /\ R.aboard = aboard /\ R.completed = completed
      /\ R.abandoned = abandoned /\ R.denied = denied /\ R.boardedAt = boardedAt
      /\ R.waited = waited /\ R.rode = rode /\ R.branded = branded /\ R.totals = totals
      /\ R.billed = billed /\ R.load = load /\ R.recent = recentFinished /\ HasFields(R)
  BY DEF RidersNow, HasFields, Names
<1> HIDE DEF R
<1>4. /\ waiting = [c \in Cohort |-> 0] /\ aboard = [b \in Bus |-> [c \in Cohort |-> 0]]
      /\ completed = [c \in Cohort |-> 0] /\ abandoned = [c \in Cohort |-> 0]
      /\ denied = [c \in Cohort |-> FALSE]
      /\ boardedAt = [b \in Bus |-> [c \in Cohort |-> 0]]
      /\ waited = [c \in Cohort |-> [w \in 0 .. Horizon |-> 0]]
      /\ rode = [c \in Cohort |-> [w \in 0 .. Horizon |-> 0]]
      /\ load = [b \in Bus |-> 0]
      /\ branded = 0
  BY DEF KInit, Init
<1>5. /\ totals \in Counters
      /\ totals.generated = 0 /\ totals.waiting = 0 /\ totals.onboard = 0
      /\ totals.completed = 0 /\ totals.abandoned = 0
      /\ billed \in [denied : Nat, abandoned : Nat, unfinished : Nat]
      /\ billed.denied = 0 /\ billed.abandoned = 0 /\ billed.unfinished = 0
  BY DEF KInit, NoTotals, NoCosts, Counters
<1>6. R \in Riders
  <2>1. /\ waiting \in [Cohort -> Nat] /\ aboard \in [Bus -> [Cohort -> Nat]]
        /\ completed \in [Cohort -> Nat] /\ abandoned \in [Cohort -> Nat]
        /\ denied \in [Cohort -> BOOLEAN] /\ boardedAt \in [Bus -> [Cohort -> Nat]]
        /\ branded \in Nat
    BY <1>4
  <2>2. waited \in [Cohort -> [0 .. Horizon -> Nat]] /\ rode \in [Cohort -> [0 .. Horizon -> Nat]]
    BY <1>4
  <2>3. load \in [Bus -> 0 .. Capacity]
    BY <1>2, <1>4
  <2>4. recentFinished \in Seq(Entry)
    BY DEF KInit
  <2> QED
    BY <1>3, <1>5, <2>1, <2>2, <2>3, <2>4, RidersType
<1>7. Counted(R, Came(now))
  <2>1. ASSUME NEW c \in Cohort PROVE Came(now)[c] = 0
    <3>1. Trip(c).tick \in Nat
      BY <1>1, TripType
    <3> QED
      BY <1>1, <3>1 DEF Came
  <2>2. ASSUME NEW c \in Cohort PROVE Riding(aboard, c) = 0
    BY <1>2, <1>4, SumZero DEF Riding
  <2>3. \A c \in Cohort : waiting[c] = 0 /\ completed[c] = 0 /\ abandoned[c] = 0
    BY <1>4
  <2>4. ASSUME NEW b \in Bus PROVE SumFunctionOnSet(aboard[b], Cohort) = 0
    BY <1>2, <1>4, SumZero
  <2>5. \A b \in Bus : load[b] = 0
    BY <1>4
  <2>6. SumFunctionOnSet(Came(now), Cohort) = 0
    BY <1>2, <2>1, SumZero
  <2>7. SumFunctionOnSet(waiting, Cohort) = 0
    BY <1>2, <2>3, SumZero
  <2>8. SumFunctionOnSet(completed, Cohort) = 0
    BY <1>2, <2>3, SumZero
  <2>9. SumFunctionOnSet(abandoned, Cohort) = 0
    BY <1>2, <2>3, SumZero
  <2>10. SumFunctionOnSet(load, Bus) = 0
    BY <1>2, <2>5, SumZero
  <2> QED
    BY <1>3, <1>5, <2>1, <2>2, <2>3, <2>4, <2>5, <2>6, <2>7, <2>8, <2>9, <2>10
       DEF Counted, LoadsCount
<1>8. Booked(R, now)
  <2>1. {c \in Cohort : R.denied[c]} = {}
    BY <1>3, <1>4
  <2>2. Marked(R, R.waiting) = 0
    BY <2>1, SumEmpty DEF Marked
  <2>3. \A c \in Cohort : ~R.denied[c]
    BY <2>1
  <2> QED
    BY <1>3, <1>4, <1>5, <2>2, <2>3 DEF Booked
<1>9. BoardedBefore(R)
  BY <1>1, <1>3, <1>4 DEF BoardedBefore
<1>10. SettledOnce
  BY <1>1, <1>2, <1>5 DEF SettledOnce, KInit
<1>11. ASSUME NEW b \in Bus
       PROVE  RidersOn(bus[b], aboard[b]) /\ OnceAboard(R, b, bus[b]) /\ OnItsWay(bus[b])
  <2>1. \A c \in Cohort : aboard[b][c] = 0
    BY <1>4
  <2>2. bus[b].phase \in {"DEPOT_IDLE", "TERMINAL_IDLE"}
    BY DEF KInit, Init, Vehicle
  <2> QED
    BY <1>3, <2>1, <2>2 DEF RidersOn, OnceAboard, OnItsWay
<1>12. R = RidersNow
  BY DEF R
<1> QED
  BY <1>1, <1>6, <1>7, <1>8, <1>9, <1>10, <1>11, <1>12 DEF KInv

\* A step that changes nothing keeps it.
LEMMA KStutterKeepsKInv == ASSUME KInv, UNCHANGED kvars PROVE KInv'
<1>1. UNCHANGED vars /\ UNCHANGED day /\ UNCHANGED riders
  BY DEF kvars
<1>2. Inv'
  BY <1>1, StepInv DEF KInv
<1>3. now' = now /\ load' = load /\ bus' = bus
  BY <1>1 DEF vars
<1>4. RidersNow' = RidersNow /\ day' = day /\ aboard' = aboard /\ settled' = settled
      /\ billed' = billed /\ totals' = totals
  BY <1>1, <1>3 DEF RidersNow, riders
<1>5. Cohort' = Cohort /\ \A c : Trip(c)' = Trip(c)
  BY <1>4, DayStays
<1>6. Came(now)' = Came(now)
  BY <1>3, <1>5 DEF Came
<1>7. (RidersNow \in Riders)'
  BY <1>4, <1>5 DEF KInv, Riders
<1>8. Counted(RidersNow, Came(now))'
  BY <1>4, <1>5, <1>6 DEF KInv, Counted, LoadsCount
<1>9. Booked(RidersNow, now)'
  BY <1>3, <1>4, <1>5 DEF KInv, Booked, Marked
<1>10. BoardedBefore(RidersNow)' /\ SettledOnce'
  BY <1>3, <1>4, <1>5 DEF KInv, BoardedBefore, SettledOnce
<1>11. \A b \in Bus : RidersOn(bus[b], aboard[b])'
  <2> TAKE b \in Bus
  <2>1. ServiceEnd(bus[b])' = ServiceEnd(bus[b])
    BY <1>3 DEF ServiceEnd, Limit, TurnOf
  <2> QED
    BY <1>3, <1>4, <1>5, <2>1 DEF KInv, RidersOn
<1>12. \A b \in Bus : OnceAboard(RidersNow, b, bus[b])'
  BY <1>3, <1>4, <1>5 DEF KInv, OnceAboard
<1>13. \A b \in Bus : OnItsWay(bus[b])'
  BY <1>3 DEF KInv, OnItsWay
<1> QED
  BY <1>2, <1>4, <1>7, <1>8, <1>9, <1>10, <1>11, <1>12, <1>13 DEF KInv

\* The inductive invariant of the kernel holds at all times: whatever the dispatcher
\* decides, and whichever buses arrive in a tick.
THEOREM KInvariance == KSpec => []KInv
<1>1. KInv /\ [KNext]_kvars => KInv'
  BY KDecideKeepsKInv, KTickKeepsKInv, KStutterKeepsKInv DEF KNext
<1> QED
  BY <1>1, KInitKInv, PTL DEF KSpec

\* The invariant implies that the counters match the tables.
LEMMA KInvCountersMatch == KInv => CountersMatch
<1> SUFFICES ASSUME KInv PROVE CountersMatch
  OBVIOUS
<1> DEFINE OnBuses(c) == SumFunction([b \in Bus |-> aboard[b][c]])
           Expected == [c \in Cohort |-> IF Arrived(c) THEN Trip(c).count ELSE 0]
<1>1. /\ RidersNow.waiting = waiting /\ RidersNow.aboard = aboard
      /\ RidersNow.completed = completed /\ RidersNow.abandoned = abandoned
      /\ RidersNow.load = load /\ RidersNow.totals = totals
  BY DEF RidersNow
<1>2. /\ waiting \in [Cohort -> Nat] /\ aboard \in [Bus -> [Cohort -> Nat]]
      /\ completed \in [Cohort -> Nat] /\ abandoned \in [Cohort -> Nat]
      /\ load \in [Bus -> 0 .. Capacity] /\ totals \in Counters
  BY <1>1 DEF KInv, Riders
<1>3. Counted(RidersNow, Came(now))
  BY DEF KInv
<1>4. Came(now) = Expected
  BY DEF Came, Arrived
<1>5. \A c : OnBuses(c) = Riding(aboard, c)
  <2> TAKE c
  <2>1. DOMAIN [b \in Bus |-> aboard[b][c]] = Bus
    OBVIOUS
  <2> QED
    BY <2>1, SumWhole DEF Riding
<1>6. \A c \in Cohort : waiting[c] + OnBuses(c) + completed[c] + abandoned[c] = Expected[c]
  BY <1>1, <1>3, <1>4, <1>5 DEF Counted
<1>7. \A b \in Bus : load[b] = SumFunction(aboard[b])
  <2> TAKE b \in Bus
  <2>1. DOMAIN aboard[b] = Cohort
    BY <1>2
  <2> QED
    BY <1>1, <1>3, <2>1, SumWhole DEF Counted, LoadsCount
<1>8. /\ SumFunction(waiting) = SumFunctionOnSet(waiting, Cohort)
      /\ SumFunction(completed) = SumFunctionOnSet(completed, Cohort)
      /\ SumFunction(abandoned) = SumFunctionOnSet(abandoned, Cohort)
      /\ SumFunction(load) = SumFunctionOnSet(load, Bus)
      /\ SumFunction(Expected) = SumFunctionOnSet(Expected, Cohort)
  <2>1. /\ DOMAIN waiting = Cohort /\ DOMAIN completed = Cohort /\ DOMAIN abandoned = Cohort
        /\ DOMAIN load = Bus /\ DOMAIN Expected = Cohort
    BY <1>2
  <2> HIDE DEF Expected
  <2> QED
    BY <2>1, SumWhole
<1>9. totals = [generated |-> SumFunction(Expected), waiting |-> SumFunction(waiting),
                onboard |-> SumFunction(load), completed |-> SumFunction(completed),
                abandoned |-> SumFunction(abandoned)]
  <2>1. /\ totals.generated = SumFunction(Expected) /\ totals.waiting = SumFunction(waiting)
        /\ totals.onboard = SumFunction(load) /\ totals.completed = SumFunction(completed)
        /\ totals.abandoned = SumFunction(abandoned)
    BY <1>1, <1>3, <1>4, <1>8 DEF Counted
  <2> HIDE DEF Expected
  <2> QED
    BY <1>2, <2>1 DEF Counters
<1> QED
  BY <1>6, <1>7, <1>9 DEF CountersMatch

\* The counters that the engine updates at each event are at all times what its
\* passenger table says, and no passenger is lost or doubled (engine.rs: check_invariants).
THEOREM CountersAlwaysMatch == KSpec => []CountersMatch
BY KInvariance, KInvCountersMatch, PTL

\* Every passenger aboard has his stop ahead of the bus, on its pattern: nobody is
\* carried past his stop or turned back before it.
THEOREM NobodyCarriedPast == KSpec => []RidersAhead
<1>1. KInv => RidersAhead
  BY DEF KInv, RidersOn, RidersAhead
<1> QED
  BY <1>1, KInvariance, PTL

\* Whoever boards a full-pattern bus leaves nobody of an earlier cohort of his queue
\* waiting.
LEMMA StepInTurn ==
  ASSUME KInv, [KNext]_kvars, NEW b \in Bus, NEW c \in Cohort, NEW d \in Cohort,
         c < d, SameQueue(c, d), aboard'[b][d] > aboard[b][d], bus'[b].pattern = "FULL"
  PROVE  waiting'[c] = 0
<1>1. CASE KTick
  <2>1. PICK R : TickTo(R)
    BY <1>1, TickServes
  <2>2. /\ aboard' = R.aboard /\ waiting' = R.waiting /\ InOrder(R, Fleet1)
    BY <2>1 DEF TickTo, Served
  <2>3. PICK duration : bus' = [x \in Bus |-> AfterTick(Fleet1, Leaving(Fleet1), duration, x)]
    BY <1>1, TickOfFleet DEF Tick, FleetTick
  <2>4. Fleet1[b] \in VehicleType
    BY CompletedGood DEF KInv, Good, Fleet1
  <2>5. bus'[b].pattern = Fleet1[b].pattern
    BY <2>3, <2>4, AfterTickIs
  <2> QED
    BY <2>2, <2>5 DEF InOrder
<1>2. CASE KDecide \/ UNCHANGED kvars
  <2>1. aboard' = aboard
    BY <1>2 DEF KDecide, kvars, riders
  <2>2. aboard[b][d] \in Nat
    BY DEF KInv, Riders, RidersNow
  <2> QED
    BY <2>1, <2>2
<1> QED
  BY <1>1, <1>2 DEF KNext

\* Passengers of one queue board in the order in which they came.
THEOREM ServedInTurn == KSpec => FirstComeFirstServed
<1>1. KInv /\ [KNext]_kvars =>
        [\A b \in Bus, c, d \in Cohort :
           /\ c < d
           /\ SameQueue(c, d)
           /\ aboard'[b][d] > aboard[b][d]
           /\ bus'[b].pattern = "FULL"
           => waiting'[c] = 0]_kvars
  BY StepInTurn
<1> QED
  BY <1>1, KInvariance, PTL DEF KSpec, FirstComeFirstServed

\* The kernel implements the fleet: every step of it is one of the fleet's, whose
\* loads the fleet leaves open, or changes nothing of the fleet.
THEOREM FleetRefined == KSpec => FleetSpec
<1>1. KInit => Init
  BY DEF KInit
<1>2. KInv /\ [KNext]_kvars => [Next]_vars
  <2>1. KInv /\ KTick => Tick
    BY TickOfFleet
  <2>2. KDecide => Decide
    BY DEF KDecide
  <2>3. UNCHANGED kvars => UNCHANGED vars
    BY DEF kvars
  <2> QED
    BY <2>1, <2>2, <2>3 DEF KNext, Next
<1> QED
  BY <1>1, <1>2, KInvariance, PTL DEF KSpec, FleetSpec, Spec
=============================================================================
