----------------------------- MODULE FiniteSums ------------------------------
(***************************************************************************)
(* Sums of naturals over finite sets, as the library folds them: what a    *)
(* sum is made of, whatever the order it was added up in.                  *)
(***************************************************************************)
EXTENDS Integers, FiniteSets, Functions, FiniteSetTheorems, WellFoundedInduction, TLAPS

\* A set of naturals has a least element.
LEMMA LeastNatural ==
  ASSUME NEW B \in SUBSET Nat, B # {}
  PROVE  \E n \in B : \A m \in B : n <= m
<1>1. PICK n \in B : \A m \in B : ~(<<m, n>> \in OpToRel(<, Nat))
  BY NatLessThanWellFounded, WFMin
<1>2. \A m \in B : ~(m < n)
  BY <1>1 DEF OpToRel
<1> QED BY <1>2

\* A sum as the library defines it: a recursive function on the subsets of its index set.
SumOf(f, S) == FoldFunctionOnSet(+, 0, f, S)
Chosen(S) == CHOOSE x \in S : TRUE
Sums(f, S, g) ==
  g = [s \in SUBSET S |-> IF s = {} THEN 0 ELSE f[Chosen(s)] + g[s \ {Chosen(s)}]]

LEMMA SumIsSums ==
  ASSUME NEW f, NEW S
  PROVE  SumOf(f, S) = (CHOOSE g : Sums(f, S, g))[S]
BY DEF SumOf, FoldFunctionOnSet, MapThenFoldSet, Sums, Chosen

LEMMA FirstIn == ASSUME NEW S, S # {} PROVE Chosen(S) \in S
BY DEF Chosen

\* Removing an element makes a set smaller.
LEMMA Smaller ==
  ASSUME NEW S, IsFiniteSet(S), NEW x \in S
  PROVE  /\ IsFiniteSet(S \ {x}) /\ Cardinality(S \ {x}) \in Nat
         /\ Cardinality(S) = Cardinality(S \ {x}) + 1
<1>1. IsFiniteSet(S \ {x}) /\ Cardinality(S \ {x}) = Cardinality(S) - 1
  BY FS_RemoveElement
<1>2. Cardinality(S) \in Nat /\ Cardinality(S \ {x}) \in Nat
  BY <1>1, FS_CardinalityType
<1> QED BY <1>1, <1>2

\* There is such a function: one that is right up to n elements gives one for n + 1.
LEMMA SumsExist ==
  ASSUME NEW f, NEW S, IsFiniteSet(S)
  PROVE  \E g : Sums(f, S, g)
<1> DEFINE Upto(n) == {s \in SUBSET S : Cardinality(s) <= n}
           Right(n, g) == g = [s \in Upto(n) |-> IF s = {} THEN 0
                                                 ELSE f[Chosen(s)] + g[s \ {Chosen(s)}]]
           Bad == {n \in Nat : ~ \E g : Right(n, g)}
<1>1. \A s \in SUBSET S : IsFiniteSet(s) /\ Cardinality(s) \in Nat
  BY FS_Subset, FS_CardinalityType
<1>2. SUFFICES Bad = {}
  <2>1. Cardinality(S) \in Nat
    BY FS_CardinalityType
  <2>2. PICK g : Right(Cardinality(S), g)
    BY <1>2, <2>1
  <2>3. Upto(Cardinality(S)) = SUBSET S
    BY FS_Subset
  <2> QED BY <2>2, <2>3 DEF Sums
<1>3. SUFFICES ASSUME Bad # {} PROVE FALSE
  OBVIOUS
<1>4. PICK n \in Bad : \A m \in Bad : n <= m
  BY <1>3, LeastNatural
<1>5. n # 0
  <2>1. \A s \in Upto(0) : s = {}
    BY <1>1, FS_EmptySet
  <2>2. Right(0, [s \in Upto(0) |-> 0])
    BY <2>1
  <2> QED BY <2>2
<1>6. n - 1 \in Nat /\ n - 1 \notin Bad
  <2>1. n \in Nat /\ n - 1 \in Nat /\ ~(n <= n - 1)
    BY <1>5
  <2> HIDE DEF Bad
  <2> QED BY <1>4, <2>1
<1>7. PICK g : Right(n - 1, g)
  BY <1>6
<1> DEFINE h == [s \in Upto(n) |-> IF s = {} THEN 0 ELSE f[Chosen(s)] + g[s \ {Chosen(s)}]]
<1>8. \A s \in Upto(n) : s # {} => s \ {Chosen(s)} \in Upto(n - 1) /\ s \ {Chosen(s)} \in Upto(n)
  <2> SUFFICES ASSUME NEW s \in Upto(n), s # {}
               PROVE  s \ {Chosen(s)} \in Upto(n - 1) /\ s \ {Chosen(s)} \in Upto(n)
    OBVIOUS
  <2>1. Cardinality(s) = Cardinality(s \ {Chosen(s)}) + 1 /\ Cardinality(s \ {Chosen(s)}) \in Nat
    BY <1>1, FirstIn, Smaller
  <2> QED BY <2>1
<1>9. \A s \in Upto(n - 1) : g[s] = h[s]
  <2>1. \A s \in Upto(n - 1) : s \in Upto(n)
    BY <1>1
  <2> HIDE DEF Upto
  <2> QED BY <1>7, <2>1
<1>10. Right(n, h)
  <2>1. \A s \in Upto(n) : s # {} => g[s \ {Chosen(s)}] = h[s \ {Chosen(s)}]
    BY <1>8, <1>9
  <2> HIDE DEF Upto
  <2> QED BY <2>1
<1> QED BY <1>4, <1>10

LEMMA SumRec ==
  ASSUME NEW f, NEW S, IsFiniteSet(S)
  PROVE  \E g : Sums(f, S, g) /\ SumOf(f, S) = g[S]
BY SumsExist, SumIsSums

\* Two of them agree where both are defined.
LEMMA SumsAgree ==
  ASSUME NEW f, NEW S, IsFiniteSet(S), NEW T \in SUBSET S, NEW g, NEW h,
         Sums(f, S, g), Sums(f, T, h)
  PROVE  g[T] = h[T]
<1> DEFINE Bad == {n \in Nat : \E s \in SUBSET T : Cardinality(s) = n /\ g[s] # h[s]}
<1>1. \A s \in SUBSET T : IsFiniteSet(s) /\ Cardinality(s) \in Nat
  BY FS_Subset, FS_CardinalityType
<1>2. SUFFICES ASSUME Bad # {} PROVE FALSE
  BY <1>1
<1>3. PICK n \in Bad : \A m \in Bad : n <= m
  BY <1>2, LeastNatural
<1>4. PICK s \in SUBSET T : Cardinality(s) = n /\ g[s] # h[s]
  BY <1>3
<1>5. g[s] = (IF s = {} THEN 0 ELSE f[Chosen(s)] + g[s \ {Chosen(s)}])
  BY DEF Sums
<1>6. h[s] = (IF s = {} THEN 0 ELSE f[Chosen(s)] + h[s \ {Chosen(s)}])
  BY DEF Sums
<1>7. s # {}
  BY <1>4, <1>5, <1>6
<1>8. /\ s \ {Chosen(s)} \in SUBSET T
      /\ Cardinality(s) = Cardinality(s \ {Chosen(s)}) + 1 /\ Cardinality(s \ {Chosen(s)}) \in Nat
  BY <1>1, <1>7, FirstIn, Smaller
<1>9. g[s \ {Chosen(s)}] = h[s \ {Chosen(s)}]
  <2>1. Cardinality(s \ {Chosen(s)}) \in Nat /\ ~(n <= Cardinality(s \ {Chosen(s)}))
    BY <1>4, <1>8
  <2>2. Cardinality(s \ {Chosen(s)}) \notin Bad
    BY <1>3, <2>1
  <2> QED BY <1>8, <2>1, <2>2
<1> QED BY <1>4, <1>5, <1>6, <1>7, <1>9

LEMMA SumStep ==
  ASSUME NEW f, NEW S, IsFiniteSet(S)
  PROVE  SumOf(f, S) = IF S = {} THEN 0 ELSE f[Chosen(S)] + SumOf(f, S \ {Chosen(S)})
<1>1. PICK g : Sums(f, S, g) /\ SumOf(f, S) = g[S]
  BY SumRec
<1>2. g[S] = IF S = {} THEN 0 ELSE f[Chosen(S)] + g[S \ {Chosen(S)}]
  BY <1>1 DEF Sums
<1>3. IsFiniteSet(S \ {Chosen(S)})
  BY FS_Subset
<1>4. PICK h : Sums(f, S \ {Chosen(S)}, h) /\ SumOf(f, S \ {Chosen(S)}) = h[S \ {Chosen(S)}]
  BY <1>3, SumRec
<1>5. g[S \ {Chosen(S)}] = h[S \ {Chosen(S)}]
  BY <1>1, <1>4, SumsAgree
<1> QED BY <1>1, <1>2, <1>4, <1>5

LEMMA SumNat ==
  ASSUME NEW D, NEW f \in [D -> Nat], NEW S \in SUBSET D, IsFiniteSet(S)
  PROVE  SumOf(f, S) \in Nat
<1> DEFINE Bad == {n \in Nat : \E s \in SUBSET S : Cardinality(s) = n /\ SumOf(f, s) \notin Nat}
<1>1. \A s \in SUBSET S : IsFiniteSet(s) /\ Cardinality(s) \in Nat
  BY FS_Subset, FS_CardinalityType
<1>2. SUFFICES ASSUME Bad # {} PROVE FALSE
  BY <1>1
<1>3. PICK n \in Bad : \A m \in Bad : n <= m
  BY <1>2, LeastNatural
<1>4. PICK s \in SUBSET S : Cardinality(s) = n /\ SumOf(f, s) \notin Nat
  BY <1>3
<1>5. SumOf(f, s) = IF s = {} THEN 0 ELSE f[Chosen(s)] + SumOf(f, s \ {Chosen(s)})
  BY <1>1, SumStep
<1>6. s # {}
  BY <1>4, <1>5
<1>7. /\ s \ {Chosen(s)} \in SUBSET S /\ f[Chosen(s)] \in Nat
      /\ Cardinality(s) = Cardinality(s \ {Chosen(s)}) + 1 /\ Cardinality(s \ {Chosen(s)}) \in Nat
  BY <1>1, <1>6, FirstIn, Smaller
<1>8. SumOf(f, s \ {Chosen(s)}) \in Nat
  <2>1. Cardinality(s \ {Chosen(s)}) \in Nat /\ ~(n <= Cardinality(s \ {Chosen(s)}))
    BY <1>4, <1>7
  <2>2. Cardinality(s \ {Chosen(s)}) \notin Bad
    BY <1>3, <2>1
  <2> QED BY <1>7, <2>1, <2>2
<1> QED BY <1>4, <1>5, <1>6, <1>7, <1>8

\* The order does not matter: any element may be taken out.
LEMMA SumRemove ==
  ASSUME NEW D, NEW f \in [D -> Nat], NEW S \in SUBSET D, IsFiniteSet(S), NEW x \in S
  PROVE  SumOf(f, S) = f[x] + SumOf(f, S \ {x})
<1> DEFINE Bad == {n \in Nat : \E s \in SUBSET S : Cardinality(s) = n
                                 /\ \E y \in s : SumOf(f, s) # f[y] + SumOf(f, s \ {y})}
<1>1. \A s \in SUBSET S : IsFiniteSet(s) /\ Cardinality(s) \in Nat
  BY FS_Subset, FS_CardinalityType
<1>2. SUFFICES ASSUME Bad # {} PROVE FALSE
  BY <1>1
<1>3. PICK n \in Bad : \A m \in Bad : n <= m
  BY <1>2, LeastNatural
<1>4. PICK s \in SUBSET S : Cardinality(s) = n
                             /\ \E y \in s : SumOf(f, s) # f[y] + SumOf(f, s \ {y})
  BY <1>3
<1>5. PICK y \in s : SumOf(f, s) # f[y] + SumOf(f, s \ {y})
  BY <1>4
<1> DEFINE c == Chosen(s)
<1>6. c \in s /\ c \in D /\ y \in D
  BY <1>5, FirstIn
<1>7. SumOf(f, s) = f[c] + SumOf(f, s \ {c})
  BY <1>1, <1>5, SumStep
<1>8. c # y
  BY <1>5, <1>7
<1> HIDE DEF c
<1>9. /\ Cardinality(s) = Cardinality(s \ {c}) + 1 /\ Cardinality(s \ {c}) \in Nat
      /\ Cardinality(s) = Cardinality(s \ {y}) + 1 /\ Cardinality(s \ {y}) \in Nat
  BY <1>1, <1>5, <1>6, Smaller
<1>10. SumOf(f, s \ {c}) = f[y] + SumOf(f, (s \ {c}) \ {y})
  <2>1. Cardinality(s \ {c}) \in Nat /\ ~(n <= Cardinality(s \ {c}))
    BY <1>4, <1>9
  <2>2. Cardinality(s \ {c}) \notin Bad
    BY <1>3, <2>1
  <2>3. s \ {c} \in SUBSET S /\ y \in s \ {c}
    BY <1>5, <1>8
  <2> QED BY <2>1, <2>2, <2>3
<1>11. SumOf(f, s \ {y}) = f[c] + SumOf(f, (s \ {y}) \ {c})
  <2>1. Cardinality(s \ {y}) \in Nat /\ ~(n <= Cardinality(s \ {y}))
    BY <1>4, <1>9
  <2>2. Cardinality(s \ {y}) \notin Bad
    BY <1>3, <2>1
  <2>3. s \ {y} \in SUBSET S /\ c \in s \ {y}
    BY <1>6, <1>8
  <2> QED BY <2>1, <2>2, <2>3
<1>12. (s \ {y}) \ {c} = (s \ {c}) \ {y}
  OBVIOUS
<1>13. /\ f[c] \in Nat /\ f[y] \in Nat /\ SumOf(f, (s \ {c}) \ {y}) \in Nat
  <2>1. (s \ {c}) \ {y} \in SUBSET D /\ IsFiniteSet((s \ {c}) \ {y})
    BY <1>1
  <2> QED BY <1>6, <2>1, SumNat
<1> QED BY <1>5, <1>7, <1>10, <1>11, <1>12, <1>13

LEMMA SumSubset ==
  ASSUME NEW D, NEW f \in [D -> Nat], NEW S \in SUBSET D, IsFiniteSet(S), NEW T \in SUBSET S
  PROVE  SumOf(f, T) <= SumOf(f, S)
<1> DEFINE Bad == {n \in Nat : \E s \in SUBSET S : Cardinality(s) = n /\ T \subseteq s
                                                   /\ ~(SumOf(f, T) <= SumOf(f, s))}
<1>1. \A s \in SUBSET S : IsFiniteSet(s) /\ Cardinality(s) \in Nat /\ SumOf(f, s) \in Nat
  BY FS_Subset, FS_CardinalityType, SumNat
<1>2. SUFFICES ASSUME Bad # {} PROVE FALSE
  BY <1>1
<1>3. PICK n \in Bad : \A m \in Bad : n <= m
  BY <1>2, LeastNatural
<1>4. PICK s \in SUBSET S : Cardinality(s) = n /\ T \subseteq s /\ ~(SumOf(f, T) <= SumOf(f, s))
  BY <1>3
<1>5. s # T
  BY <1>1, <1>4
<1>6. PICK x \in s : x \notin T
  BY <1>4, <1>5
<1>7. SumOf(f, s) = f[x] + SumOf(f, s \ {x}) /\ f[x] \in Nat
  BY <1>1, SumRemove
<1>8. Cardinality(s) = Cardinality(s \ {x}) + 1 /\ Cardinality(s \ {x}) \in Nat
  BY <1>1, Smaller
<1>9. SumOf(f, T) <= SumOf(f, s \ {x})
  BY <1>3, <1>4, <1>6, <1>8
<1> QED BY <1>1, <1>4, <1>7, <1>9

LEMMA SumSplit ==
  ASSUME NEW D, NEW f \in [D -> Nat], NEW S \in SUBSET D, IsFiniteSet(S), NEW T \in SUBSET S
  PROVE  SumOf(f, S) = SumOf(f, T) + SumOf(f, S \ T)
<1> DEFINE Bad == {n \in Nat : \E s \in SUBSET S : Cardinality(s) = n /\ T \subseteq s
                                 /\ SumOf(f, s) # SumOf(f, T) + SumOf(f, s \ T)}
<1>1. \A s \in SUBSET S : IsFiniteSet(s) /\ Cardinality(s) \in Nat /\ SumOf(f, s) \in Nat
  BY FS_Subset, FS_CardinalityType, SumNat
<1>2. SUFFICES ASSUME Bad # {} PROVE FALSE
  BY <1>1
<1>3. PICK n \in Bad : \A m \in Bad : n <= m
  BY <1>2, LeastNatural
<1>4. PICK s \in SUBSET S : /\ Cardinality(s) = n /\ T \subseteq s
                            /\ SumOf(f, s) # SumOf(f, T) + SumOf(f, s \ T)
  BY <1>3
<1>5. s # T
  <2>1. T \ T = {} /\ SumOf(f, {}) = 0 /\ SumOf(f, T) \in Nat
    BY <1>1, SumStep
  <2> QED BY <1>4, <2>1
<1>6. PICK x \in s : x \notin T
  BY <1>4, <1>5
<1>7. /\ SumOf(f, s) = f[x] + SumOf(f, s \ {x}) /\ f[x] \in Nat
      /\ SumOf(f, s \ T) = f[x] + SumOf(f, (s \ T) \ {x})
  <2>1. s \in SUBSET D /\ s \ T \in SUBSET D /\ IsFiniteSet(s) /\ IsFiniteSet(s \ T) /\ x \in s \ T
    BY <1>1, <1>6
  <2> QED BY <2>1, SumRemove
<1>8. Cardinality(s) = Cardinality(s \ {x}) + 1 /\ Cardinality(s \ {x}) \in Nat
  BY <1>1, Smaller
<1>9. SumOf(f, s \ {x}) = SumOf(f, T) + SumOf(f, (s \ {x}) \ T)
  <2>1. Cardinality(s \ {x}) \in Nat /\ ~(n <= Cardinality(s \ {x}))
    BY <1>4, <1>8
  <2>2. Cardinality(s \ {x}) \notin Bad
    BY <1>3, <2>1
  <2>3. s \ {x} \in SUBSET S /\ T \subseteq s \ {x}
    BY <1>4, <1>6
  <2> QED BY <2>1, <2>2, <2>3
<1>10. (s \ {x}) \ T = (s \ T) \ {x}
  OBVIOUS
<1>11. SumOf(f, T) \in Nat /\ SumOf(f, (s \ T) \ {x}) \in Nat
  BY <1>1
<1>12. SumOf(f, s) = f[x] + (SumOf(f, T) + SumOf(f, (s \ T) \ {x}))
  BY <1>7, <1>9, <1>10
<1>13. SumOf(f, s) = SumOf(f, T) + SumOf(f, s \ T)
  BY <1>7, <1>11, <1>12
<1> QED BY <1>4, <1>13

==============================================================================
