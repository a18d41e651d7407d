------------------------------ MODULE SetSums ------------------------------
(***************************************************************************)
(* Sums over finite sets: what MapThenSumSet of the community modules      *)
(* returns, for the proofs about the balances, bills and plates of this    *)
(* system.                                                                 *)
(*                                                                         *)
(* MapThenSumSet is a recursive function over the subsets of its set that  *)
(* picks the elements with CHOOSE.  The lemmas show that the recursion     *)
(* defines it (TotalUnfolds), and that the order in which elements are     *)
(* picked does not matter (TotalRemove); the others follow.  They are      *)
(* stated for functions, because no prover here instantiates an operator;  *)
(* an induction is over a set of numbers (SetInduction) for the same       *)
(* reason.                                                                 *)
(***************************************************************************)
EXTENDS Integers, FiniteSets, FiniteSetsExt, FiniteSetTheorems, TLAPS

\* The sum of the values f has on S.
Total(f, S) == MapThenSumSet(LAMBDA x : f[x], S)

Chosen(s) == CHOOSE x \in s : TRUE

\* g is what the recursion of MapThenSumSet defines, on the sets in D.
Obeys(g, f, D) ==
  \A s \in D : g[s] = IF s = {} THEN 0 ELSE f[Chosen(s)] + g[s \ {Chosen(s)}]

IntsOn(f, S) == \A x \in S : f[x] \in Int

------------------------------------------------------------------------------
(* Induction.                                                               *)

\* A set of numbers that has 0, and the successor of each number it has, has
\* them all.
LEMMA SetInduction ==
  ASSUME NEW T, 0 \in T, \A n \in Nat : n \in T => n + 1 \in T
  PROVE  Nat \subseteq T
<1> DEFINE bad == {n \in Nat : n \notin T}
<1> SUFFICES ASSUME bad # {} PROVE FALSE
  OBVIOUS
<1>1. PICK m \in bad : \A n \in bad : ~(<<n, m>> \in OpToRel(<, Nat))
  <2> bad \subseteq Nat
    OBVIOUS
  <2> HIDE DEF bad
  <2> QED BY WFMin, NatLessThanWellFounded
<1>2. m # 0 /\ m - 1 \in Nat
  OBVIOUS
<1>3. m - 1 \in bad
  BY <1>2
<1>4. <<m - 1, m>> \in OpToRel(<, Nat)
  BY <1>2 DEF OpToRel
<1> QED BY <1>1, <1>3, <1>4

\* The same for finite sets, by their cardinality: a family of sets that has the
\* empty set, and each finite set of which it has the set without one of its
\* elements, has every finite set.
LEMMA FiniteSetInduction ==
  ASSUME NEW U, IsFiniteSet(U), NEW F, {} \in F,
         \A s \in SUBSET U : s # {} /\ (\A x \in s : s \ {x} \in F) => s \in F
  PROVE  SUBSET U \subseteq F
<1> DEFINE good == {n \in Nat : \A s \in SUBSET U : Cardinality(s) = n => s \in F}
<1>1. \A s \in SUBSET U : IsFiniteSet(s) /\ Cardinality(s) \in Nat
  BY FS_Subset, FS_CardinalityType
<1>2. 0 \in good
  BY <1>1, FS_EmptySet
<1>3. ASSUME NEW n \in Nat, n \in good PROVE n + 1 \in good
  <2> SUFFICES ASSUME NEW s \in SUBSET U, Cardinality(s) = n + 1 PROVE s \in F
    OBVIOUS
  <2>1. s # {}
    BY FS_EmptySet
  <2>2. ASSUME NEW x \in s PROVE s \ {x} \in F
    <3>1. Cardinality(s \ {x}) = n
      BY <1>1, FS_RemoveElement
    <3> QED BY <3>1, <1>3
  <2> QED BY <2>1, <2>2
<1> HIDE DEF good
<1>4. Nat \subseteq good
  BY <1>2, <1>3, SetInduction
<1> QED BY <1>1, <1>4 DEF good

------------------------------------------------------------------------------
(* The recursion defines a function.                                        *)

\* Of two functions that obey the recursion on the subsets of a finite set, one is
\* the other.
LEMMA RecursionUnique ==
  ASSUME NEW S, IsFiniteSet(S), NEW f, NEW g, NEW h,
         Obeys(g, f, SUBSET S), Obeys(h, f, SUBSET S)
  PROVE  \A s \in SUBSET S : g[s] = h[s]
<1> DEFINE same == {s \in SUBSET S : g[s] = h[s]}
<1>1. {} \in same
  BY DEF Obeys
<1>2. ASSUME NEW s \in SUBSET S, s # {}, \A x \in s : s \ {x} \in same PROVE s \in same
  <2>1. Chosen(s) \in s
    BY <1>2 DEF Chosen
  <2>2. g[s \ {Chosen(s)}] = h[s \ {Chosen(s)}]
    BY <2>1, <1>2
  <2> QED BY <2>2, <1>2 DEF Obeys
<1> HIDE DEF same
<1>3. SUBSET S \subseteq same
  BY <1>1, <1>2, FiniteSetInduction
<1> QED BY <1>3 DEF same

\* There is one, and its values are integers when those of f are.
LEMMA RecursionExists ==
  ASSUME NEW S, IsFiniteSet(S), NEW f, IntsOn(f, S)
  PROVE  \E g \in [SUBSET S -> Int] : Obeys(g, f, SUBSET S)
<1> DEFINE Small(n) == {s \in SUBSET S : Cardinality(s) <= n}
           good == {n \in Nat : \E g \in [Small(n) -> Int] : Obeys(g, f, Small(n))}
<1>1. \A s \in SUBSET S : IsFiniteSet(s) /\ Cardinality(s) \in Nat
  BY FS_Subset, FS_CardinalityType
<1>2. 0 \in good
  <2>1. \A s \in Small(0) : s = {}
    BY <1>1, FS_EmptySet
  <2>2. Obeys([s \in Small(0) |-> 0], f, Small(0))
    BY <2>1 DEF Obeys
  <2>3. [s \in Small(0) |-> 0] \in [Small(0) -> Int]
    OBVIOUS
  <2> QED BY <2>2, <2>3
<1>3. ASSUME NEW n \in Nat, n \in good PROVE n + 1 \in good
  <2>1. PICK g \in [Small(n) -> Int] : Obeys(g, f, Small(n))
    BY <1>3
  <2> DEFINE h == [s \in Small(n + 1) |->
                     IF s = {} THEN 0 ELSE f[Chosen(s)] + g[s \ {Chosen(s)}]]
  <2>2. ASSUME NEW s \in Small(n + 1), s # {}
        PROVE  Chosen(s) \in s /\ s \ {Chosen(s)} \in Small(n)
    <3>1. Chosen(s) \in s
      BY <2>2 DEF Chosen
    <3>2. Cardinality(s \ {Chosen(s)}) = Cardinality(s) - 1
      BY <3>1, <1>1, FS_RemoveElement
    <3> QED BY <3>1, <3>2, <1>1
  <2>3. h \in [Small(n + 1) -> Int]
    BY <2>2 DEF IntsOn
  <2>4. Small(n) \subseteq Small(n + 1)
    BY <1>1
  <2>5. \A s \in Small(n) : h[s] = g[s]
    BY <2>1, <2>4 DEF Obeys
  <2>6. Obeys(h, f, Small(n + 1))
    <3> SUFFICES ASSUME NEW s \in Small(n + 1)
                 PROVE  h[s] = IF s = {} THEN 0 ELSE f[Chosen(s)] + h[s \ {Chosen(s)}]
      BY DEF Obeys
    <3> QED BY <2>2, <2>5
  <2>7. \E i \in [Small(n + 1) -> Int] : Obeys(i, f, Small(n + 1))
    <3> HIDE DEF h
    <3> QED BY <2>3, <2>6
  <2> QED BY <2>7, n + 1 \in Nat
<1>4. Cardinality(S) \in Nat /\ Small(Cardinality(S)) = SUBSET S
  BY <1>1, FS_Subset
<1> HIDE DEF good
<1>5. Nat \subseteq good
  BY <1>2, <1>3, SetInduction
<1> QED BY <1>4, <1>5 DEF good

\* A function that the recursion defines with CHOOSE is the one that obeys it.
\* (The body of a sum over a set, where an operator has been put for f.)
LEMMA ChosenObeys ==
  ASSUME NEW S, IsFiniteSet(S), NEW f, IntsOn(f, S), NEW h,
         (\E g : g = [s \in SUBSET S |->
                        IF s = {} THEN 0 ELSE f[Chosen(s)] + g[s \ {Chosen(s)}]])
           => h = [s \in SUBSET S |->
                     IF s = {} THEN 0 ELSE f[Chosen(s)] + h[s \ {Chosen(s)}]]
  PROVE  Obeys(h, f, SUBSET S)
<1>1. PICK g \in [SUBSET S -> Int] : Obeys(g, f, SUBSET S)
  BY RecursionExists
<1>2. g = [s \in SUBSET S |-> IF s = {} THEN 0 ELSE f[Chosen(s)] + g[s \ {Chosen(s)}]]
  BY <1>1 DEF Obeys
<1> QED BY <1>2 DEF Obeys

\* Total of every subset of S is what any function that obeys the recursion says.
LEMMA TotalObeys ==
  ASSUME NEW S, IsFiniteSet(S), NEW f, IntsOn(f, S), NEW g, Obeys(g, f, SUBSET S)
  PROVE  Total(f, S) = g[S]
<1> DEFINE Recursion(h) ==
      h = [s \in SUBSET S |-> IF s = {} THEN 0 ELSE f[Chosen(s)] + h[s \ {Chosen(s)}]]
<1>1. Total(f, S) = (CHOOSE h : Recursion(h))[S]
  BY DEF Total, MapThenSumSet, MapThenFoldSet, Chosen
<1> DEFINE h == CHOOSE i : Recursion(i)
<1>2. (\E i : Recursion(i)) => Recursion(h)
  <2> HIDE DEF Recursion
  <2> QED OBVIOUS
<1> HIDE DEF h
<1>3. Obeys(h, f, SUBSET S)
  BY <1>2, ChosenObeys
<1>4. h[S] = g[S]
  BY <1>3, RecursionUnique
<1> QED BY <1>1, <1>4 DEF h

------------------------------------------------------------------------------
(* Sums.                                                                    *)

\* The recursion equation of sums.
LEMMA TotalUnfolds ==
  ASSUME NEW S, IsFiniteSet(S), NEW f, IntsOn(f, S)
  PROVE  /\ Total(f, S) \in Int
         /\ Total(f, S) =
              IF S = {} THEN 0 ELSE f[Chosen(S)] + Total(f, S \ {Chosen(S)})
<1>1. PICK g \in [SUBSET S -> Int] : Obeys(g, f, SUBSET S)
  BY RecursionExists
<1>2. \A s \in SUBSET S : Total(f, s) = g[s]
  <2> TAKE s \in SUBSET S
  <2>1. IsFiniteSet(s) /\ IntsOn(f, s)
    BY FS_Subset DEF IntsOn
  <2>2. Obeys(g, f, SUBSET s)
    BY <1>1 DEF Obeys
  <2> QED BY <2>1, <2>2, TotalObeys
<1> QED BY <1>1, <1>2 DEF Obeys

\* The sum over nothing.
LEMMA TotalEmpty == ASSUME NEW f PROVE Total(f, {}) = 0
  BY TotalUnfolds, FS_EmptySet DEF IntsOn

\* A sum may be unfolded at any element.
LEMMA TotalRemove ==
  ASSUME NEW S, IsFiniteSet(S), NEW f, IntsOn(f, S), NEW x \in S
  PROVE  Total(f, S) = f[x] + Total(f, S \ {x})
<1> DEFINE F == {s \in SUBSET S : \A y \in s : Total(f, s) = f[y] + Total(f, s \ {y})}
<1>1. {} \in F
  OBVIOUS
<1>2. ASSUME NEW s \in SUBSET S, s # {}, \A y \in s : s \ {y} \in F PROVE s \in F
  <2> DEFINE c == Chosen(s)
  <2>1. c \in s
    BY <1>2 DEF Chosen
  <2>2. \A t \in SUBSET s : IsFiniteSet(t) /\ IntsOn(f, t)
    BY FS_Subset DEF IntsOn
  <2>3. \A t \in SUBSET s : Total(f, t) \in Int
    BY <2>2, TotalUnfolds
  <2>4. Total(f, s) = f[c] + Total(f, s \ {c})
    BY <2>2, <1>2, TotalUnfolds
  <2> HIDE DEF c
  <2>5. ASSUME NEW y \in s, y # c PROVE Total(f, s) = f[y] + Total(f, s \ {y})
    <3>1. Total(f, s \ {c}) = f[y] + Total(f, (s \ {c}) \ {y})
      BY <2>1, <2>5, <1>2
    <3>2. Total(f, s \ {y}) = f[c] + Total(f, (s \ {y}) \ {c})
      BY <2>1, <2>5, <1>2
    <3>3. (s \ {c}) \ {y} = (s \ {y}) \ {c}
      OBVIOUS
    <3>4. f[c] \in Int /\ f[y] \in Int /\ Total(f, (s \ {y}) \ {c}) \in Int
      BY <2>1, <2>3 DEF IntsOn
    <3> DEFINE rest == Total(f, (s \ {y}) \ {c})
    <3>5. Total(f, s) = f[c] + (f[y] + rest) /\ Total(f, s \ {y}) = f[c] + rest
      BY <2>4, <3>1, <3>2, <3>3
    <3> HIDE DEF rest
    <3> QED BY <3>4, <3>5 DEF rest
  <2> QED BY <2>4, <2>5
<1> HIDE DEF F
<1>3. SUBSET S \subseteq F
  BY <1>1, <1>2, FiniteSetInduction
<1> QED BY <1>3 DEF F

\* What one more element adds.
LEMMA TotalAdd ==
  ASSUME NEW S, IsFiniteSet(S), NEW f, NEW x, x \notin S, IntsOn(f, S \cup {x})
  PROVE  Total(f, S \cup {x}) = Total(f, S) + f[x]
<1>1. IsFiniteSet(S \cup {x}) /\ (S \cup {x}) \ {x} = S
  BY FS_AddElement
<1>2. Total(f, S) \in Int /\ f[x] \in Int
  BY TotalUnfolds DEF IntsOn
<1> QED BY <1>1, <1>2, TotalRemove

\* Sums of the same values are the same.
LEMMA TotalSame ==
  ASSUME NEW S, IsFiniteSet(S), NEW f, NEW g, IntsOn(f, S), \A x \in S : f[x] = g[x]
  PROVE  Total(f, S) = Total(g, S)
<1>1. PICK h \in [SUBSET S -> Int] : Obeys(h, f, SUBSET S)
  BY RecursionExists
<1>2. \A s \in SUBSET S : s # {} => Chosen(s) \in S
  BY DEF Chosen
<1>3. Obeys(h, g, SUBSET S) /\ IntsOn(g, S)
  BY <1>1, <1>2 DEF Obeys, IntsOn
<1> QED BY <1>1, <1>3, TotalObeys

\* The sum over two sets that have nothing in common.
LEMMA TotalUnion ==
  ASSUME NEW S, NEW T, IsFiniteSet(S), IsFiniteSet(T), S \cap T = {},
         NEW f, IntsOn(f, S), IntsOn(f, T)
  PROVE  Total(f, S \cup T) = Total(f, S) + Total(f, T)
<1> DEFINE F == {s \in SUBSET T : Total(f, S \cup s) = Total(f, S) + Total(f, s)}
<1>1. {} \in F
  <2>1. Total(f, S) \in Int /\ S \cup {} = S
    BY TotalUnfolds
  <2> QED BY <2>1, TotalEmpty
<1>2. ASSUME NEW s \in SUBSET T, s # {}, \A x \in s : s \ {x} \in F PROVE s \in F
  <2>1. PICK x : x \in s
    BY <1>2
  <2>2. Total(f, S \cup (s \ {x})) = Total(f, S) + Total(f, s \ {x})
    BY <1>2, <2>1
  <2>3. IsFiniteSet(s) /\ IsFiniteSet(s \ {x}) /\ IsFiniteSet(S \cup s)
    BY FS_Subset, FS_Union, FS_RemoveElement
  <2>4. IntsOn(f, s) /\ IntsOn(f, s \ {x}) /\ IntsOn(f, S \cup s) /\ f[x] \in Int
    BY <2>1 DEF IntsOn
  <2>5. Total(f, s) = f[x] + Total(f, s \ {x})
    BY <2>1, <2>3, <2>4, TotalRemove
  <2>6. (S \cup s) \ {x} = S \cup (s \ {x})
    BY <2>1
  <2>7. Total(f, S \cup s) = f[x] + Total(f, S \cup (s \ {x}))
    BY <2>1, <2>3, <2>4, <2>6, TotalRemove
  <2>8. Total(f, S) \in Int /\ Total(f, s \ {x}) \in Int
    BY <2>3, <2>4, TotalUnfolds
  <2> QED BY <2>2, <2>4, <2>5, <2>7, <2>8
<1> HIDE DEF F
<1>3. SUBSET T \subseteq F
  BY <1>1, <1>2, FiniteSetInduction
<1> QED BY <1>3 DEF F

\* A sum of natural numbers is one, and no smaller than any of its parts.
LEMMA TotalNat ==
  ASSUME NEW S, IsFiniteSet(S), NEW f, \A x \in S : f[x] \in Nat
  PROVE  Total(f, S) \in Nat
<1> DEFINE F == {s \in SUBSET S : Total(f, s) \in Nat}
<1>1. {} \in F
  BY TotalEmpty
<1>2. ASSUME NEW s \in SUBSET S, s # {}, \A x \in s : s \ {x} \in F PROVE s \in F
  <2>1. PICK x : x \in s
    BY <1>2
  <2>2. IsFiniteSet(s) /\ IntsOn(f, s)
    BY FS_Subset DEF IntsOn
  <2>3. Total(f, s) = f[x] + Total(f, s \ {x})
    BY <2>1, <2>2, TotalRemove
  <2> QED BY <2>1, <2>3, <1>2
<1> HIDE DEF F
<1>3. SUBSET S \subseteq F
  BY <1>1, <1>2, FiniteSetInduction
<1> QED BY <1>3 DEF F

LEMMA TotalMonotone ==
  ASSUME NEW T, IsFiniteSet(T), NEW S \in SUBSET T, NEW f, \A x \in T : f[x] \in Nat
  PROVE  Total(f, S) <= Total(f, T)
<1>1. IsFiniteSet(S) /\ IsFiniteSet(T \ S) /\ S \cup (T \ S) = T
  BY FS_Subset
<1>2. IntsOn(f, S) /\ IntsOn(f, T \ S)
  BY DEF IntsOn
<1>3. Total(f, T) = Total(f, S) + Total(f, T \ S)
  BY <1>1, <1>2, TotalUnion
<1> QED BY <1>1, <1>3, TotalNat

\* A sum does not depend on how its elements are named.
LEMMA TotalRenamed ==
  ASSUME NEW S, IsFiniteSet(S), NEW T, NEW b \in Bijection(S, T),
         NEW f, NEW g, IntsOn(f, S), \A x \in S : g[b[x]] = f[x]
  PROVE  Total(g, T) = Total(f, S)
<1> DEFINE Image(s) == {b[x] : x \in s}
           F == {s \in SUBSET S : Total(g, Image(s)) = Total(f, s)}
<1>1. {} \in F
  BY TotalEmpty
<1>0. /\ \A x \in S : b[x] \in T
      /\ \A x, y \in S : b[x] = b[y] => x = y
      /\ \A t \in T : \E x \in S : b[x] = t
  BY DEF Bijection, Injection, Surjection, IsInjective
<1>2. ASSUME NEW s \in SUBSET S, s # {}, \A x \in s : s \ {x} \in F PROVE s \in F
  <2>1. PICK x : x \in s
    BY <1>2
  <2>2. IsFiniteSet(s) /\ IntsOn(f, s)
    BY FS_Subset DEF IntsOn
  <2>3. Total(f, s) = f[x] + Total(f, s \ {x})
    BY <2>1, <2>2, TotalRemove
  <2>4. IsFiniteSet(T)
    BY FS_Bijection DEF ExistsBijection
  <2>5. IsFiniteSet(Image(s)) /\ IntsOn(g, Image(s)) /\ b[x] \in Image(s)
    BY <1>0, <2>1, <2>4, FS_Subset DEF IntsOn
  <2>6. Image(s) \ {b[x]} = Image(s \ {x})
    BY <1>0, <2>1
  <2> HIDE DEF Image
  <2>7. Total(g, Image(s)) = g[b[x]] + Total(g, Image(s \ {x}))
    BY <2>5, <2>6, TotalRemove
  <2> QED BY <2>1, <2>3, <2>7, <1>2
<1>3. SUBSET S \subseteq F
  <2> HIDE DEF F
  <2> QED BY <1>1, <1>2, FiniteSetInduction
<1>4. Image(S) = T
  BY <1>0
<1> QED BY <1>3, <1>4
=============================================================================
