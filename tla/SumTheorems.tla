---------------------------- MODULE SumTheorems ----------------------------
(***************************************************************************)
(* What the proofs use of sums over finite sets.  SumFunctionOnSet is      *)
(* defined by recursion on subsets with an arbitrary choice of elements;   *)
(* the theorems below are proved by looking at a smallest set for which    *)
(* they would fail.                                                        *)
(***************************************************************************)
EXTENDS FiniteSetTheorems, TLAPS

(* The element the recursion takes off a set. *)
TakenOff(s) == CHOOSE x \in s : TRUE

(* g is the function that the recursion defines on the subsets of S. *)
IsSumUpTo(g, f, S) ==
  g = [s \in SUBSET S |-> IF s = {} THEN 0
                          ELSE LET x == CHOOSE x \in s : TRUE IN f[x] + g[s \ {x}]]

(* A nonempty collection of subsets of a finite set has a smallest one. *)
LEMMA SmallestSubset ==
  ASSUME NEW S, IsFiniteSet(S), NEW T \in SUBSET (SUBSET S), T # {}
  PROVE  \E U \in T : \A V \in T : V \subseteq U => V = U
<1> DEFINE R == StrictSubsetOrdering(S)
<1>1. IsWellFoundedOn(R, SUBSET S)
  BY FS_StrictSubsetOrderingWellFounded, FS_FiniteSubsetsOfFinite
<1> HIDE DEF R
<1>2. \E U \in T : \A V \in T : <<V, U>> \notin R
  BY <1>1, WFMin
<1> QED BY <1>2 DEF R, StrictSubsetOrdering

LEMMA SumsAgree ==
  ASSUME NEW f, NEW S, IsFiniteSet(S), NEW g, IsSumUpTo(g, f, S),
         NEW T \in SUBSET S, NEW h, IsSumUpTo(h, f, T)
  PROVE  \A U \in SUBSET T : g[U] = h[U]
<1> DEFINE Bad == {U \in SUBSET T : g[U] # h[U]}
<1> SUFFICES ASSUME Bad # {} PROVE FALSE
  OBVIOUS
<1>1. PICK U \in Bad : \A V \in Bad : V \subseteq U => V = U
  <2>1. IsFiniteSet(T) BY FS_Subset
  <2>2. Bad \in SUBSET (SUBSET T) OBVIOUS
  <2> HIDE DEF Bad
  <2> QED BY <2>1, <2>2, SmallestSubset
<1>2. U \subseteq T /\ U \subseteq S /\ g[U] # h[U] BY <1>1
<1>3. U # {} BY <1>2 DEF IsSumUpTo
<1> DEFINE x == TakenOff(U)
<1>4. x \in U BY <1>3 DEF TakenOff
<1>5. g[U] = f[x] + g[U \ {x}] /\ h[U] = f[x] + h[U \ {x}]
  BY <1>2, <1>3 DEF IsSumUpTo, TakenOff
<1>6. U \ {x} \notin Bad BY <1>1, <1>4
<1> QED BY <1>2, <1>5, <1>6

LEMMA SumsExist ==
  ASSUME NEW f, NEW S, IsFiniteSet(S)
  PROVE  \E g : IsSumUpTo(g, f, S)
<1> DEFINE Bad == {U \in SUBSET S : ~ \E g : IsSumUpTo(g, f, U)}
<1> SUFFICES ASSUME Bad # {} PROVE FALSE
  OBVIOUS
<1>1. PICK U \in Bad : \A V \in Bad : V \subseteq U => V = U
  <2>1. Bad \in SUBSET (SUBSET S) OBVIOUS
  <2> HIDE DEF Bad
  <2> QED BY <2>1, SmallestSubset
<1>2. U \subseteq S /\ \A V \in SUBSET U : V # U => \E g : IsSumUpTo(g, f, V)
  BY <1>1
<1> DEFINE G(V) == CHOOSE g : IsSumUpTo(g, f, V)
           H == [s \in SUBSET U |-> IF s = {} THEN 0
                                    ELSE f[TakenOff(s)] + G(s \ {TakenOff(s)})[s \ {TakenOff(s)}]]
<1>3. \A V \in SUBSET U : V # U => IsSumUpTo(G(V), f, V)
  BY <1>2
<1> HIDE DEF G
<1>4. ASSUME NEW V \in SUBSET U, V # U
      PROVE  G(V)[V] = H[V]
  <2>1. CASE V = {}
    BY <1>3, <1>4, <2>1 DEF IsSumUpTo
  <2>2. CASE V # {}
    <3> DEFINE x == TakenOff(V)
    <3>1. x \in V BY <2>2 DEF TakenOff
    <3>2. G(V)[V] = f[x] + G(V)[V \ {x}]
      <4>1. IsSumUpTo(G(V), f, V) BY <1>3, <1>4
      <4> QED BY <4>1, <2>2 DEF IsSumUpTo, TakenOff
    <3>3. G(V)[V \ {x}] = G(V \ {x})[V \ {x}]
      <4>1. IsSumUpTo(G(V), f, V) BY <1>3, <1>4
      <4>2. IsSumUpTo(G(V \ {x}), f, V \ {x}) BY <1>3, <1>4, <3>1
      <4>3. IsFiniteSet(V) BY <1>2, <1>4, FS_Subset
      <4> HIDE DEF x
      <4> QED BY <4>1, <4>2, <4>3, SumsAgree
    <3> QED BY <3>2, <3>3, <2>2
  <2> QED BY <2>1, <2>2
<1>5. IsSumUpTo(H, f, U)
  <2>1. ASSUME NEW s \in SUBSET U, s # {}
        PROVE  H[s] = f[TakenOff(s)] + H[s \ {TakenOff(s)}]
    <3>1. TakenOff(s) \in s BY <2>1 DEF TakenOff
    <3>2. s \ {TakenOff(s)} \in SUBSET U /\ s \ {TakenOff(s)} # U BY <3>1
    <3>3. H[s] = f[TakenOff(s)] + G(s \ {TakenOff(s)})[s \ {TakenOff(s)}] BY <2>1
    <3> HIDE DEF H
    <3> QED BY <3>2, <3>3, <1>4
  <2>2. H[{}] = 0 OBVIOUS
  <2>3. H = [s \in SUBSET U |-> H[s]] OBVIOUS
  <2> HIDE DEF H
  <2>4. \A s \in SUBSET U : H[s] = IF s = {} THEN 0 ELSE f[TakenOff(s)] + H[s \ {TakenOff(s)}]
    BY <2>1, <2>2
  <2> QED BY <2>3, <2>4 DEF IsSumUpTo, TakenOff
<1> QED BY <1>1, <1>5

LEMMA SumIsOfSums ==
  ASSUME NEW f, NEW S, IsFiniteSet(S)
  PROVE  \E g : IsSumUpTo(g, f, S) /\ SumFunctionOnSet(f, S) = g[S]
<1> DEFINE Rec(g) == g = [s \in SUBSET S |->
                            IF s = {} THEN 0
                            ELSE LET x == CHOOSE x \in s : TRUE IN f[x] + g[s \ {x}]]
           G == CHOOSE g : Rec(g)
<1>1. Rec(G)
  <2>1. \E g : IsSumUpTo(g, f, S) BY SumsExist
  <2>2. \E g : Rec(g) BY <2>1 DEF IsSumUpTo
  <2> HIDE DEF Rec
  <2> QED BY <2>2
<1>2. SumFunctionOnSet(f, S) = G[S]
  BY DEF SumFunctionOnSet, FoldFunctionOnSet, MapThenFoldSet
<1> QED BY <1>1, <1>2 DEF IsSumUpTo

LEMMA SumSteps ==
  ASSUME NEW f, NEW S, IsFiniteSet(S), S # {}
  PROVE  /\ TakenOff(S) \in S
         /\ SumFunctionOnSet(f, S)
              = f[TakenOff(S)] + SumFunctionOnSet(f, S \ {TakenOff(S)})
<1> DEFINE x == TakenOff(S)
           T == S \ {x}
<1>1. x \in S BY DEF TakenOff
<1>2. PICK g : IsSumUpTo(g, f, S) /\ SumFunctionOnSet(f, S) = g[S]
  BY SumIsOfSums
<1>3. IsFiniteSet(T) BY FS_Subset
<1>4. PICK h : IsSumUpTo(h, f, T) /\ SumFunctionOnSet(f, T) = h[T]
  BY <1>3, SumIsOfSums
<1>5. g[S] = f[x] + g[T] BY <1>2 DEF IsSumUpTo, TakenOff
<1>6. T \in SUBSET S OBVIOUS
<1> HIDE DEF x, T
<1>7. g[T] = h[T] BY <1>2, <1>4, <1>6, SumsAgree
<1> QED BY <1>1, <1>2, <1>4, <1>5, <1>7 DEF x, T

-----------------------------------------------------------------------------
(* Nothing adds up to zero. *)
THEOREM SumEmpty == \A f : SumFunctionOnSet(f, {}) = 0
<1> TAKE f
<1>1. PICK g : IsSumUpTo(g, f, {}) /\ SumFunctionOnSet(f, {}) = g[{}]
  BY SumIsOfSums, FS_EmptySet
<1> QED BY <1>1 DEF IsSumUpTo

(* Integers add up to an integer. *)
THEOREM SumInt ==
  ASSUME NEW S, IsFiniteSet(S), NEW f, \A x \in S : f[x] \in Int
  PROVE  SumFunctionOnSet(f, S) \in Int
<1> DEFINE Bad == {U \in SUBSET S : SumFunctionOnSet(f, U) \notin Int}
<1> SUFFICES ASSUME Bad # {} PROVE FALSE
  OBVIOUS
<1>1. PICK U \in Bad : \A V \in Bad : V \subseteq U => V = U
  <2>1. Bad \in SUBSET (SUBSET S) OBVIOUS
  <2> HIDE DEF Bad
  <2> QED BY <2>1, SmallestSubset
<1>2. U # {}
  <2>1. SumFunctionOnSet(f, {}) \in Int BY SumEmpty
  <2>2. SumFunctionOnSet(f, U) \notin Int BY <1>1
  <2> HIDE DEF Bad
  <2> QED BY <2>1, <2>2
<1>3. IsFiniteSet(U) BY <1>1, FS_Subset
<1>4. /\ TakenOff(U) \in U
      /\ SumFunctionOnSet(f, U) = f[TakenOff(U)] + SumFunctionOnSet(f, U \ {TakenOff(U)})
  BY <1>2, <1>3, SumSteps
<1>5. U \ {TakenOff(U)} \notin Bad BY <1>1, <1>4
<1> QED BY <1>1, <1>4, <1>5

(* Functions that agree on a set have the same sum over it. *)
THEOREM SumAgree ==
  ASSUME NEW S, IsFiniteSet(S), NEW f, NEW g, \A x \in S : f[x] = g[x]
  PROVE  SumFunctionOnSet(f, S) = SumFunctionOnSet(g, S)
<1> DEFINE Bad == {U \in SUBSET S : SumFunctionOnSet(f, U) # SumFunctionOnSet(g, U)}
<1> SUFFICES ASSUME Bad # {} PROVE FALSE
  OBVIOUS
<1>1. PICK U \in Bad : \A V \in Bad : V \subseteq U => V = U
  <2>1. Bad \in SUBSET (SUBSET S) OBVIOUS
  <2> HIDE DEF Bad
  <2> QED BY <2>1, SmallestSubset
<1>2. U # {} BY <1>1, SumEmpty
<1>3. IsFiniteSet(U) BY <1>1, FS_Subset
<1>4. /\ TakenOff(U) \in U
      /\ SumFunctionOnSet(f, U) = f[TakenOff(U)] + SumFunctionOnSet(f, U \ {TakenOff(U)})
      /\ SumFunctionOnSet(g, U) = g[TakenOff(U)] + SumFunctionOnSet(g, U \ {TakenOff(U)})
  BY <1>2, <1>3, SumSteps
<1>5. U \ {TakenOff(U)} \notin Bad BY <1>1, <1>4
<1> QED BY <1>1, <1>4, <1>5

(* Any element may be the first that is added. *)
THEOREM SumSplit ==
  ASSUME NEW S, IsFiniteSet(S), NEW f, \A x \in S : f[x] \in Int, NEW x \in S
  PROVE  SumFunctionOnSet(f, S) = f[x] + SumFunctionOnSet(f, S \ {x})
<1> DEFINE Bad == {U \in SUBSET S : \E y \in U :
                     SumFunctionOnSet(f, U) # f[y] + SumFunctionOnSet(f, U \ {y})}
<1> SUFFICES ASSUME Bad # {} PROVE FALSE
  OBVIOUS
<1>1. PICK U \in Bad : \A V \in Bad : V \subseteq U => V = U
  <2>1. Bad \in SUBSET (SUBSET S) OBVIOUS
  <2> HIDE DEF Bad
  <2> QED BY <2>1, SmallestSubset
<1>2. PICK y \in U : SumFunctionOnSet(f, U) # f[y] + SumFunctionOnSet(f, U \ {y})
  BY <1>1
<1>3. IsFiniteSet(U) /\ U \in SUBSET S BY <1>1, FS_Subset
<1> DEFINE c == TakenOff(U)
<1>4. c \in U /\ SumFunctionOnSet(f, U) = f[c] + SumFunctionOnSet(f, U \ {c})
  BY <1>2, <1>3, SumSteps
<1> HIDE DEF c
<1>5. y # c BY <1>2, <1>4
<1>6. U \ {c} \notin Bad /\ U \ {y} \notin Bad /\ U \ {c} \in SUBSET S /\ U \ {y} \in SUBSET S
  BY <1>1, <1>3, <1>4
<1>7. SumFunctionOnSet(f, U \ {c}) = f[y] + SumFunctionOnSet(f, (U \ {c}) \ {y})
  BY <1>5, <1>6
<1>8. SumFunctionOnSet(f, U \ {y}) = f[c] + SumFunctionOnSet(f, (U \ {y}) \ {c})
  BY <1>4, <1>5, <1>6
<1>9. (U \ {y}) \ {c} = (U \ {c}) \ {y} OBVIOUS
<1>10. f[y] \in Int /\ f[c] \in Int /\ SumFunctionOnSet(f, (U \ {c}) \ {y}) \in Int
  <2>1. IsFiniteSet((U \ {c}) \ {y}) BY <1>3, FS_Subset
  <2> QED BY <2>1, <1>3, <1>4, SumInt
<1> DEFINE Z == SumFunctionOnSet(f, (U \ {c}) \ {y})
<1>11. SumFunctionOnSet(f, U) = f[c] + (f[y] + Z) BY <1>4, <1>7
<1>12. SumFunctionOnSet(f, U \ {y}) = f[c] + Z BY <1>8, <1>9
<1>13. f[y] \in Int /\ f[c] \in Int /\ Z \in Int BY <1>10
<1> HIDE DEF Z
<1> QED BY <1>2, <1>11, <1>12, <1>13

(* Changing a function at one element changes its sum by the difference. *)
THEOREM SumChange ==
  ASSUME NEW S, IsFiniteSet(S), NEW x \in S,
         NEW f, \A y \in S : f[y] \in Int,
         NEW g, \A y \in S : g[y] \in Int,
         \A y \in S \ {x} : g[y] = f[y]
  PROVE  SumFunctionOnSet(g, S) = SumFunctionOnSet(f, S) - f[x] + g[x]
<1> DEFINE T == S \ {x}
<1>1. IsFiniteSet(T) BY FS_Subset
<1>2. SumFunctionOnSet(g, T) = SumFunctionOnSet(f, T)
  <2>1. \A y \in T : g[y] = f[y] OBVIOUS
  <2> HIDE DEF T
  <2> QED BY <1>1, <2>1, SumAgree
<1>3. SumFunctionOnSet(f, T) \in Int
  <2>1. \A y \in T : f[y] \in Int OBVIOUS
  <2> HIDE DEF T
  <2> QED BY <1>1, <2>1, SumInt
<1>4. SumFunctionOnSet(f, S) = f[x] + SumFunctionOnSet(f, T) BY SumSplit
<1>5. SumFunctionOnSet(g, S) = g[x] + SumFunctionOnSet(g, T) BY SumSplit
<1>6. f[x] \in Int /\ g[x] \in Int OBVIOUS
<1> HIDE DEF T
<1> QED BY <1>2, <1>3, <1>4, <1>5, <1>6

(* The order of two functions is the order of their sums. *)
THEOREM SumMonotone ==
  ASSUME NEW S, IsFiniteSet(S),
         NEW f, \A x \in S : f[x] \in Int,
         NEW g, \A x \in S : g[x] \in Int,
         \A x \in S : f[x] =< g[x]
  PROVE  SumFunctionOnSet(f, S) =< SumFunctionOnSet(g, S)
<1> DEFINE Bad == {U \in SUBSET S :
                     ~ (SumFunctionOnSet(f, U) =< SumFunctionOnSet(g, U))}
<1> SUFFICES ASSUME Bad # {} PROVE FALSE
  OBVIOUS
<1>1. PICK U \in Bad : \A V \in Bad : V \subseteq U => V = U
  <2>1. Bad \in SUBSET (SUBSET S) OBVIOUS
  <2> HIDE DEF Bad
  <2> QED BY <2>1, SmallestSubset
<1>2. U # {}
  <2>1. SumFunctionOnSet(f, {}) =< SumFunctionOnSet(g, {}) BY SumEmpty
  <2>2. ~ (SumFunctionOnSet(f, U) =< SumFunctionOnSet(g, U)) BY <1>1
  <2> HIDE DEF Bad
  <2> QED BY <2>1, <2>2
<1>3. IsFiniteSet(U) /\ U \subseteq S BY <1>1, FS_Subset
<1> DEFINE x == TakenOff(U)
<1>4. /\ x \in U
      /\ SumFunctionOnSet(f, U) = f[x] + SumFunctionOnSet(f, U \ {x})
      /\ SumFunctionOnSet(g, U) = g[x] + SumFunctionOnSet(g, U \ {x})
  BY <1>2, <1>3, SumSteps
<1> HIDE DEF x
<1>5. SumFunctionOnSet(f, U \ {x}) =< SumFunctionOnSet(g, U \ {x})
  BY <1>1, <1>4
<1>6. SumFunctionOnSet(f, U \ {x}) \in Int /\ SumFunctionOnSet(g, U \ {x}) \in Int
  <2>1. IsFiniteSet(U \ {x}) BY <1>3, FS_Subset
  <2> QED BY <2>1, <1>3, SumInt
<1>7. f[x] \in Int /\ g[x] \in Int /\ f[x] =< g[x] BY <1>3, <1>4
<1>8. ~ (SumFunctionOnSet(f, U) =< SumFunctionOnSet(g, U)) BY <1>1
<1> HIDE DEF Bad
<1> QED BY <1>4, <1>5, <1>6, <1>7, <1>8

(* Pointwise sums add up. *)
THEOREM SumPlus ==
  ASSUME NEW S, IsFiniteSet(S),
         NEW f, \A x \in S : f[x] \in Int,
         NEW g, \A x \in S : g[x] \in Int,
         NEW h, \A x \in S : h[x] = f[x] + g[x]
  PROVE  SumFunctionOnSet(h, S) = SumFunctionOnSet(f, S) + SumFunctionOnSet(g, S)
<1> DEFINE Bad == {U \in SUBSET S :
                     SumFunctionOnSet(h, U) # SumFunctionOnSet(f, U) + SumFunctionOnSet(g, U)}
<1> SUFFICES ASSUME Bad # {} PROVE FALSE
  OBVIOUS
<1>1. PICK U \in Bad : \A V \in Bad : V \subseteq U => V = U
  <2>1. Bad \in SUBSET (SUBSET S) OBVIOUS
  <2> HIDE DEF Bad
  <2> QED BY <2>1, SmallestSubset
<1>2. U # {}
  <2>1. SumFunctionOnSet(h, {}) = SumFunctionOnSet(f, {}) + SumFunctionOnSet(g, {})
    BY SumEmpty
  <2>2. SumFunctionOnSet(h, U) # SumFunctionOnSet(f, U) + SumFunctionOnSet(g, U)
    BY <1>1
  <2> HIDE DEF Bad
  <2> QED BY <2>1, <2>2
<1>3. IsFiniteSet(U) /\ U \subseteq S BY <1>1, FS_Subset
<1> DEFINE x == TakenOff(U)
<1>4. /\ x \in U
      /\ SumFunctionOnSet(f, U) = f[x] + SumFunctionOnSet(f, U \ {x})
      /\ SumFunctionOnSet(g, U) = g[x] + SumFunctionOnSet(g, U \ {x})
      /\ SumFunctionOnSet(h, U) = h[x] + SumFunctionOnSet(h, U \ {x})
  BY <1>2, <1>3, SumSteps
<1> HIDE DEF x
<1>5. SumFunctionOnSet(h, U \ {x})
        = SumFunctionOnSet(f, U \ {x}) + SumFunctionOnSet(g, U \ {x})
  BY <1>1, <1>4
<1>6. SumFunctionOnSet(f, U \ {x}) \in Int /\ SumFunctionOnSet(g, U \ {x}) \in Int
  <2>1. IsFiniteSet(U \ {x}) BY <1>3, FS_Subset
  <2> QED BY <2>1, <1>3, SumInt
<1>7. f[x] \in Int /\ g[x] \in Int /\ h[x] = f[x] + g[x] BY <1>3, <1>4
<1>8. SumFunctionOnSet(h, U) # SumFunctionOnSet(f, U) + SumFunctionOnSet(g, U)
  BY <1>1
<1> HIDE DEF Bad
<1> QED BY <1>4, <1>5, <1>6, <1>7, <1>8

(* Elements where the function is zero do not count. *)
THEOREM SumZero ==
  ASSUME NEW S, IsFiniteSet(S), NEW f, \A x \in S : f[x] = 0
  PROVE  SumFunctionOnSet(f, S) = 0
<1> DEFINE z == [x \in S |-> 0]
<1>1. SumFunctionOnSet(f, S) \in Int BY SumInt
<1>2. SumFunctionOnSet(f, S) = SumFunctionOnSet(f, S) + SumFunctionOnSet(f, S)
  BY SumPlus
<1>3. ASSUME NEW n \in Int, n = n + n PROVE n = 0
  BY <1>3
<1> HIDE DEF z
<1> QED BY <1>1, <1>2, <1>3

(* Natural numbers sum to a natural number, at least as large as each. *)
THEOREM SumNat ==
  ASSUME NEW S, IsFiniteSet(S), NEW f, \A x \in S : f[x] \in Nat
  PROVE  /\ SumFunctionOnSet(f, S) \in Nat
         /\ \A x \in S : f[x] =< SumFunctionOnSet(f, S)
<1> DEFINE z == [x \in S |-> 0]
<1>1. ASSUME NEW T \in SUBSET S PROVE SumFunctionOnSet(f, T) \in Nat
  <2>0. IsFiniteSet(T) BY FS_Subset
  <2>1. SumFunctionOnSet(f, T) \in Int BY <2>0, SumInt
  <2>2. SumFunctionOnSet(z, T) = 0 BY <2>0, SumZero
  <2>3. SumFunctionOnSet(z, T) =< SumFunctionOnSet(f, T)
    <3>1. /\ \A x \in T : z[x] \in Int /\ f[x] \in Int
          /\ \A x \in T : z[x] =< f[x]
      OBVIOUS
    <3> HIDE DEF z
    <3> QED BY <2>0, <3>1, SumMonotone
  <2> HIDE DEF z
  <2> QED BY <2>1, <2>2, <2>3
<1>2. ASSUME NEW x \in S PROVE f[x] =< SumFunctionOnSet(f, S)
  <2>1. SumFunctionOnSet(f, S) = f[x] + SumFunctionOnSet(f, S \ {x}) BY SumSplit
  <2>2. SumFunctionOnSet(f, S \ {x}) \in Nat BY <1>1
  <2> QED BY <2>1, <2>2
<1> QED BY <1>1, <1>2

(* The sum over a part of a set is the sum over the whole of it of the     *)
(* function that is zero elsewhere.                                        *)
THEOREM SumPart ==
  ASSUME NEW S, IsFiniteSet(S), NEW T \in SUBSET S,
         NEW f, \A x \in T : f[x] \in Int,
         NEW g, \A x \in T : g[x] = f[x], \A x \in S \ T : g[x] = 0
  PROVE  SumFunctionOnSet(f, T) = SumFunctionOnSet(g, S)
<1> DEFINE Bad == {U \in SUBSET S : SumFunctionOnSet(f, U \cap T) # SumFunctionOnSet(g, U)}
<1>0. S \cap T = T OBVIOUS
<1> SUFFICES ASSUME Bad # {} PROVE FALSE
  <2>1. S \in SUBSET S OBVIOUS
  <2> QED BY <1>0, <2>1
<1>1. PICK U \in Bad : \A V \in Bad : V \subseteq U => V = U
  <2>1. Bad \in SUBSET (SUBSET S) OBVIOUS
  <2> HIDE DEF Bad
  <2> QED BY <2>1, SmallestSubset
<1>2. U # {}
  <2>1. SumFunctionOnSet(f, {}) = SumFunctionOnSet(g, {}) BY SumEmpty
  <2>2. SumFunctionOnSet(f, U \cap T) # SumFunctionOnSet(g, U) BY <1>1
  <2>3. {} \cap T = {} OBVIOUS
  <2> HIDE DEF Bad
  <2> QED BY <2>1, <2>2, <2>3
<1>3. IsFiniteSet(U) /\ U \subseteq S /\ IsFiniteSet(U \cap T)
  <2>1. IsFiniteSet(U) /\ U \subseteq S BY <1>1, FS_Subset
  <2>2. U \cap T \subseteq U OBVIOUS
  <2> QED BY <2>1, <2>2, FS_Subset
<1> DEFINE x == TakenOff(U)
<1>4. x \in U /\ SumFunctionOnSet(g, U) = g[x] + SumFunctionOnSet(g, U \ {x})
  BY <1>2, <1>3, SumSteps
<1> HIDE DEF x
<1>5. SumFunctionOnSet(f, (U \ {x}) \cap T) = SumFunctionOnSet(g, U \ {x})
  BY <1>1, <1>4
<1>6. SumFunctionOnSet(f, U \cap T) # SumFunctionOnSet(g, U)
  BY <1>1
<1> HIDE DEF Bad
<1>7. CASE x \in T
  <2>1. (U \cap T) \ {x} = (U \ {x}) \cap T OBVIOUS
  <2>2. x \in U \cap T /\ \A y \in U \cap T : f[y] \in Int BY <1>4, <1>7
  <2>3. SumFunctionOnSet(f, U \cap T) = f[x] + SumFunctionOnSet(f, (U \cap T) \ {x})
    BY <1>3, <2>2, SumSplit
  <2> QED BY <1>4, <1>5, <1>6, <1>7, <2>1, <2>3
<1>8. CASE x \notin T
  <2>1. (U \ {x}) \cap T = U \cap T BY <1>8
  <2>2. g[x] = 0 BY <1>3, <1>4, <1>8
  <2>3. SumFunctionOnSet(f, U \cap T) \in Int
    <3>1. \A y \in U \cap T : f[y] \in Int OBVIOUS
    <3> QED BY <1>3, <3>1, SumInt
  <2>4. SumFunctionOnSet(g, U) = 0 + SumFunctionOnSet(f, U \cap T)
    BY <1>4, <1>5, <2>1, <2>2
  <2> QED BY <2>3, <2>4, <1>6
<1> QED BY <1>7, <1>8

(* A constant adds up to a multiple of it. *)
THEOREM SumConstant ==
  ASSUME NEW S, IsFiniteSet(S), NEW c \in Int, NEW f, \A x \in S : f[x] = c
  PROVE  SumFunctionOnSet(f, S) = c * Cardinality(S)
<1> DEFINE Bad == {U \in SUBSET S : SumFunctionOnSet(f, U) # c * Cardinality(U)}
<1> SUFFICES ASSUME Bad # {} PROVE FALSE
  OBVIOUS
<1>1. PICK U \in Bad : \A V \in Bad : V \subseteq U => V = U
  <2>1. Bad \in SUBSET (SUBSET S) OBVIOUS
  <2> HIDE DEF Bad
  <2> QED BY <2>1, SmallestSubset
<1>2. U # {}
  <2>1. SumFunctionOnSet(f, {}) = c * Cardinality({}) BY SumEmpty, FS_EmptySet
  <2>2. SumFunctionOnSet(f, U) # c * Cardinality(U) BY <1>1
  <2> HIDE DEF Bad
  <2> QED BY <2>1, <2>2
<1>3. IsFiniteSet(U) /\ U \subseteq S BY <1>1, FS_Subset
<1> DEFINE x == TakenOff(U)
<1>4. x \in U /\ SumFunctionOnSet(f, U) = f[x] + SumFunctionOnSet(f, U \ {x})
  BY <1>2, <1>3, SumSteps
<1> HIDE DEF x
<1>5. SumFunctionOnSet(f, U \ {x}) = c * Cardinality(U \ {x}) BY <1>1, <1>4
<1>6. SumFunctionOnSet(f, U) # c * Cardinality(U) BY <1>1
<1>7. f[x] = c BY <1>3, <1>4
<1>8. Cardinality(U \ {x}) = Cardinality(U) - 1 /\ Cardinality(U) \in Nat
  BY <1>3, <1>4, FS_RemoveElement, FS_CardinalityType
<1> HIDE DEF Bad
<1> DEFINE n == Cardinality(U)
<1>9. c + c * (n - 1) = c * n /\ n \in Nat
  <2>1. n \in Nat BY <1>8
  <2> HIDE DEF n
  <2> QED BY <2>1
<1> QED BY <1>4, <1>5, <1>6, <1>7, <1>8, <1>9

(* The sum of a whole function. *)
THEOREM SumOfAll ==
  ASSUME NEW f PROVE SumFunction(f) = SumFunctionOnSet(f, DOMAIN f)
  BY DEF SumFunction, SumFunctionOnSet, FoldFunction


(* When one element moves by d, so does the sum of a set that has it. *)
THEOREM SumMoves ==
  ASSUME NEW S, IsFiniteSet(S), NEW x, NEW d \in Int,
         NEW f, \A y \in S : f[y] \in Int,
         NEW g, \A y \in S \ {x} : g[y] = f[y], x \in S => g[x] = f[x] + d
  PROVE  SumFunctionOnSet(g, S) = SumFunctionOnSet(f, S) + IF x \in S THEN d ELSE 0
<1>0. SumFunctionOnSet(f, S) \in Int
  BY SumInt
<1>1. CASE x \in S
  <2>1. \A y \in S : g[y] \in Int
    BY <1>1
  <2>2. SumFunctionOnSet(g, S) = SumFunctionOnSet(f, S) - f[x] + g[x]
    BY <1>1, <2>1, SumChange
  <2>3. f[x] \in Int /\ g[x] = f[x] + d
    BY <1>1
  <2> QED BY <1>0, <1>1, <2>2, <2>3
<1>2. CASE x \notin S
  <2>1. \A y \in S : f[y] = g[y]
    BY <1>2
  <2> QED BY <1>0, <1>2, <2>1, SumAgree
<1> QED BY <1>1, <1>2

(* A sum over a part of a set is a sum over the set with zeros outside.    *)
THEOREM SumWhere ==
  ASSUME NEW S, IsFiniteSet(S), NEW T \in SUBSET S,
         NEW f, \A x \in T : f[x] \in Int
  PROVE  SumFunctionOnSet(f, T)
           = SumFunctionOnSet([x \in S |-> IF x \in T THEN f[x] ELSE 0], S)
<1> DEFINE g == [x \in S |-> IF x \in T THEN f[x] ELSE 0]
<1>1. \A x \in T : g[x] = f[x] OBVIOUS
<1>2. \A x \in S \ T : g[x] = 0 OBVIOUS
<1> HIDE DEF g
<1>3. SumFunctionOnSet(f, T) = SumFunctionOnSet(g, S) BY <1>1, <1>2, SumPart
<1> QED BY <1>3 DEF g
=============================================================================
