----------------------------- MODULE FoldTheorems -----------------------------
(***************************************************************************)
(* Facts about the folds of the community modules, which are recursive     *)
(* functions.  That such a function is what its definition says, and what  *)
(* it computes, is proved by induction in the form of the least            *)
(* counterexample: a non-empty set of finite sets has a least one.         *)
(***************************************************************************)
EXTENDS FiniteSetsExt, FiniteSetTheorems, WellFoundedInduction, TLAPS

LEMMA LeastSet ==
  ASSUME NEW T, T # {}, \A s \in T : IsFiniteSet(s)
  PROVE  \E s \in T : \A u \in T : u \subseteq s => u = s
<1> DEFINE S == UNION T
<1>1. T \subseteq FiniteSubsetsOf(S)
  BY DEF FiniteSubsetsOf
<1>2. \E s \in T : \A u \in T : <<u, s>> \notin StrictSubsetOrdering(S)
  BY <1>1, FS_StrictSubsetOrderingWellFounded, WFMin
<1>3. \A s \in T : \A u \in T : u \subseteq s /\ u # s => <<u, s>> \in StrictSubsetOrdering(S)
  BY DEF StrictSubsetOrdering
<1> QED BY <1>2, <1>3

LEMMA LeastNumber ==
  ASSUME NEW T \in SUBSET Nat, T # {}
  PROVE  \E n \in T : \A m \in T : n <= m
<1> DEFINE sets == {0..n : n \in T}
<1>1. \A n \in T : n \in Int /\ 0..n \in SUBSET Nat /\ IsFiniteSet(0..n)
  BY FS_Interval
<1>2. \A n \in T : 0..n \in sets
  OBVIOUS
<1>3. sets # {} /\ \A s \in sets : IsFiniteSet(s)
  BY <1>1, <1>2
<1>4. \E s \in sets : \A u \in sets : u \subseteq s => u = s
  <2> HIDE DEF sets
  <2> QED BY <1>3, LeastSet
<1>5. PICK n \in T : \A u \in sets : u \subseteq 0..n => u = 0..n
  BY <1>4
<1> HIDE DEF sets
<1>6. \A m \in T : 0..m \subseteq 0..n => 0..m = 0..n
  BY <1>2, <1>5
<1>7. \A m \in T : /\ m \in Nat /\ n \in Nat
                  /\ m < n => n \in 0..n /\ n \notin 0..m /\ 0..m \subseteq 0..n
  OBVIOUS
<1>8. \A m \in T : ~(m < n)
  BY <1>6, <1>7
<1> QED BY <1>7, <1>8

LEMMA AllNumbers ==
  ASSUME NEW T, 0 \in T, \A n \in Nat : n \in T => n + 1 \in T
  PROVE  Nat \subseteq T
<1> SUFFICES ASSUME Nat \ T # {} PROVE FALSE
  OBVIOUS
<1>1. PICK n \in Nat \ T : \A m \in Nat \ T : n <= m
  BY LeastNumber
<1>2. n # 0 /\ n - 1 \in Nat /\ n - 1 \in T
  BY <1>1
<1> QED BY <1>1, <1>2

-------------------------------------------------------------------------------
(***************************************************************************)
(* Sums of the values of a function on a finite set.                       *)
(***************************************************************************)
First(s) == CHOOSE x \in s : TRUE
SumStep(g, f, s) == IF s = {} THEN 0 ELSE f[First(s)] + g[s \ {First(s)}]
SumsOn(g, f, D) == g = [s \in D |-> SumStep(g, f, s)]
Sums(g, f, S)   == SumsOn(g, f, SUBSET S)

LEMMA FirstIsElement == \A s : s # {} => First(s) \in s
BY DEF First

LEMMA SumByDefinition ==
  ASSUME NEW f, NEW S
  PROVE  SumFunctionOnSet(f, S) = (CHOOSE g : Sums(g, f, S))[S]
BY DEF SumFunctionOnSet, FoldFunctionOnSet, MapThenFoldSet, Sums, SumsOn, SumStep, First

\* There is only one function of sums.
LEMMA SumsAgree ==
  ASSUME NEW f, NEW S, IsFiniteSet(S), NEW U \in SUBSET S,
         NEW g, Sums(g, f, S), NEW h, Sums(h, f, U)
  PROVE  g[U] = h[U]
<1> DEFINE T == {s \in SUBSET U : g[s] # h[s]}
<1> SUFFICES ASSUME T # {} PROVE FALSE
  OBVIOUS
<1>1. \A s \in T : IsFiniteSet(s)
  BY FS_Subset
<1>2. PICK s \in T : \A u \in T : u \subseteq s => u = s
  <2> HIDE DEF T
  <2> QED BY <1>1, LeastSet
<1>3. g[s] = SumStep(g, f, s) /\ h[s] = SumStep(h, f, s)
  BY DEF Sums, SumsOn
<1>4. s # {}
  BY <1>2, <1>3 DEF SumStep
<1>5. First(s) \in s
  BY <1>4, FirstIsElement
<1>6. g[s \ {First(s)}] = h[s \ {First(s)}]
  BY <1>2, <1>5
<1> QED BY <1>2, <1>3, <1>6 DEF SumStep

\* There is one, made for one size of the sets after the other.
LEMMA SumsExist ==
  ASSUME NEW f, NEW S, IsFiniteSet(S)
  PROVE  \E g : Sums(g, f, S)
<1> DEFINE D(n) == {s \in SUBSET S : Cardinality(s) <= n}
           T == {n \in Nat : \E g : SumsOn(g, f, D(n))}
<1>1. \A s \in SUBSET S : IsFiniteSet(s) /\ Cardinality(s) \in Nat
  BY FS_Subset, FS_CardinalityType
<1>2. 0 \in T
  <2> DEFINE g == [s \in D(0) |-> 0]
  <2>1. \A s \in D(0) : s = {}
    BY <1>1, FS_EmptySet
  <2>2. SumsOn(g, f, D(0))
    BY <2>1 DEF Sums, SumsOn, SumStep
  <2> QED BY <2>2
<1>3. ASSUME NEW n \in Nat, n \in T
      PROVE  n + 1 \in T
  <2>1. PICK h : SumsOn(h, f, D(n))
    BY <1>3
  <2> DEFINE g == [s \in D(n + 1) |-> SumStep(h, f, s)]
  <2>2. ASSUME NEW s \in D(n + 1), s # {}
        PROVE  g[s \ {First(s)}] = h[s \ {First(s)}]
    <3> DEFINE u == s \ {First(s)}
    <3>1. First(s) \in s
      BY <2>2, FirstIsElement
    <3>2. IsFiniteSet(s) /\ Cardinality(s) \in Nat /\ Cardinality(s) <= n + 1
      BY <1>1
    <3>3. Cardinality(u) = Cardinality(s) - 1
      BY <3>1, <3>2, FS_RemoveElement
    <3>4. u \in D(n) /\ u \in D(n + 1)
      BY <3>2, <3>3
    <3> HIDE DEF u
    <3>5. h[u] = SumStep(h, f, u)
      BY <2>1, <3>4 DEF Sums, SumsOn
    <3> QED BY <3>4, <3>5 DEF u
  <2>3. \A s \in D(n + 1) : SumStep(h, f, s) = SumStep(g, f, s)
    BY <2>2 DEF SumStep
  <2>4. SumsOn(g, f, D(n + 1))
    BY <2>3 DEF Sums, SumsOn
  <2>5. \E k : SumsOn(k, f, D(n + 1))
    <3> HIDE DEF g
    <3> QED BY <2>4
  <2> HIDE DEF g, D
  <2> QED BY <2>5
<1>4. Cardinality(S) \in T
  <2> HIDE DEF T
  <2> QED BY <1>1, <1>2, <1>3, AllNumbers
<1>5. D(Cardinality(S)) = SUBSET S
  BY FS_Subset
<1> QED BY <1>4, <1>5 DEF Sums

\* The sum of a set is what its definition says: one element and the sum of the rest.
LEMMA SumUnfolds ==
  ASSUME NEW f, NEW S, IsFiniteSet(S)
  PROVE  SumFunctionOnSet(f, S) =
           IF S = {} THEN 0 ELSE f[First(S)] + SumFunctionOnSet(f, S \ {First(S)})
<1> DEFINE Chosen(U) == CHOOSE g : Sums(g, f, U)
<1>1. \A U \in SUBSET S : Sums(Chosen(U), f, U)
  BY FS_Subset, SumsExist
<1> HIDE DEF Chosen
<1>2. \A U \in SUBSET S : Chosen(S)[U] = SumFunctionOnSet(f, U)
  <2>1. \A U \in SUBSET S : Chosen(S)[U] = Chosen(U)[U]
    <3> SUFFICES ASSUME NEW U \in SUBSET S PROVE Chosen(S)[U] = Chosen(U)[U]
      OBVIOUS
    <3>1. Sums(Chosen(S), f, S) /\ Sums(Chosen(U), f, U)
      BY <1>1
    <3> DEFINE g == Chosen(S)
               h == Chosen(U)
    <3>2. Sums(g, f, S) /\ Sums(h, f, U)
      BY <3>1
    <3> HIDE DEF g, h
    <3>3. g[U] = h[U]
      BY <3>2, SumsAgree
    <3> QED BY <3>3 DEF g, h
  <2> QED BY <2>1, SumByDefinition DEF Chosen
<1>3. Chosen(S)[S] = SumStep(Chosen(S), f, S)
  BY <1>1 DEF Sums, SumsOn
<1> QED BY <1>2, <1>3 DEF SumStep

\* The sum of naturals is a natural.
LEMMA SumType ==
  ASSUME NEW f, NEW S, IsFiniteSet(S), \A x \in S : f[x] \in Nat
  PROVE  SumFunctionOnSet(f, S) \in Nat
<1> DEFINE T == {s \in SUBSET S : SumFunctionOnSet(f, s) \notin Nat}
<1> SUFFICES ASSUME T # {} PROVE FALSE
  OBVIOUS
<1>1. \A s \in T : IsFiniteSet(s)
  BY FS_Subset
<1>2. PICK s \in T : \A u \in T : u \subseteq s => u = s
  <2> HIDE DEF T
  <2> QED BY <1>1, LeastSet
<1>3. SumFunctionOnSet(f, s) =
        IF s = {} THEN 0 ELSE f[First(s)] + SumFunctionOnSet(f, s \ {First(s)})
  BY <1>1, SumUnfolds
<1>4. s # {}
  BY <1>3
<1>5. First(s) \in s
  BY <1>4, FirstIsElement
<1>6. SumFunctionOnSet(f, s \ {First(s)}) \in Nat
  BY <1>2, <1>5
<1> QED BY <1>3, <1>4, <1>5, <1>6

\* Any element may come first.
LEMMA SumRemoves ==
  ASSUME NEW f, NEW S, IsFiniteSet(S), \A x \in S : f[x] \in Nat, NEW y \in S
  PROVE  SumFunctionOnSet(f, S) = f[y] + SumFunctionOnSet(f, S \ {y})
<1> DEFINE T == {s \in SUBSET S :
                   \E x \in s : SumFunctionOnSet(f, s) # f[x] + SumFunctionOnSet(f, s \ {x})}
<1> SUFFICES ASSUME T # {} PROVE FALSE
  OBVIOUS
<1>1. \A s \in T : IsFiniteSet(s)
  BY FS_Subset
<1>2. PICK s \in T : \A u \in T : u \subseteq s => u = s
  <2> HIDE DEF T
  <2> QED BY <1>1, LeastSet
<1>3. PICK x \in s : SumFunctionOnSet(f, s) # f[x] + SumFunctionOnSet(f, s \ {x})
  OBVIOUS
<1>4. PICK z : z = First(s)
  OBVIOUS
<1>5. z \in s
  BY <1>3, <1>4, FirstIsElement
<1>6. SumFunctionOnSet(f, s) = f[z] + SumFunctionOnSet(f, s \ {z})
  BY <1>1, <1>3, <1>4, SumUnfolds
<1>7. x # z
  BY <1>3, <1>6
<1>8. PICK u : u = (s \ {x}) \ {z}
  OBVIOUS
<1>9. SumFunctionOnSet(f, s \ {z}) = f[x] + SumFunctionOnSet(f, u)
  <2>1. s \ {z} \in SUBSET S /\ s \ {z} \notin T
    BY <1>2, <1>5
  <2>2. x \in s \ {z} /\ (s \ {z}) \ {x} = u
    BY <1>7, <1>8
  <2> QED BY <2>1, <2>2
<1>10. SumFunctionOnSet(f, s \ {x}) = f[z] + SumFunctionOnSet(f, u)
  <2>1. s \ {x} \in SUBSET S /\ s \ {x} \notin T
    BY <1>2
  <2>2. z \in s \ {x} /\ (s \ {x}) \ {z} = u
    BY <1>5, <1>7, <1>8
  <2> QED BY <2>1, <2>2
<1>11. f[x] \in Nat /\ f[z] \in Nat /\ SumFunctionOnSet(f, u) \in Nat
  <2>1. IsFiniteSet(u) /\ u \subseteq S
    BY <1>1, <1>8, FS_Subset
  <2> QED BY <1>5, <2>1, SumType
<1> QED BY <1>3, <1>6, <1>9, <1>10, <1>11

\* The empty sum, and the sum with one element more.
LEMMA SumAdds ==
  ASSUME NEW f, NEW S, IsFiniteSet(S), \A x \in S : f[x] \in Nat
  PROVE  /\ SumFunctionOnSet(f, {}) = 0
         /\ \A y : y \notin S /\ f[y] \in Nat =>
              SumFunctionOnSet(f, S \cup {y}) = SumFunctionOnSet(f, S) + f[y]
<1>1. SumFunctionOnSet(f, {}) = 0
  BY FS_EmptySet, SumUnfolds
<1>2. ASSUME NEW y, y \notin S, f[y] \in Nat
      PROVE  SumFunctionOnSet(f, S \cup {y}) = SumFunctionOnSet(f, S) + f[y]
  <2>1. IsFiniteSet(S \cup {y}) /\ (S \cup {y}) \ {y} = S
    BY <1>2, FS_AddElement
  <2>2. SumFunctionOnSet(f, S \cup {y}) = f[y] + SumFunctionOnSet(f, S)
    BY <1>2, <2>1, SumRemoves
  <2> QED BY <1>2, <2>2, SumType
<1> QED BY <1>1, <1>2

\* A part sums to no more than the whole.
LEMMA SumOfPart ==
  ASSUME NEW f, NEW S, IsFiniteSet(S), \A x \in S : f[x] \in Nat, NEW U \in SUBSET S
  PROVE  SumFunctionOnSet(f, U) <= SumFunctionOnSet(f, S)
<1> DEFINE T == {s \in SUBSET S :
                   U \subseteq s /\ ~(SumFunctionOnSet(f, U) <= SumFunctionOnSet(f, s))}
<1> SUFFICES ASSUME T # {} PROVE FALSE
  OBVIOUS
<1>1. \A s \in T : IsFiniteSet(s)
  BY FS_Subset
<1>2. PICK s \in T : \A u \in T : u \subseteq s => u = s
  <2> HIDE DEF T
  <2> QED BY <1>1, LeastSet
<1>3. \A u \in SUBSET S : SumFunctionOnSet(f, u) \in Nat
  BY FS_Subset, SumType
<1>4. PICK x \in s : x \notin U
  <2>1. U # s
    BY <1>3
  <2> QED BY <2>1
<1>5. SumFunctionOnSet(f, s) = f[x] + SumFunctionOnSet(f, s \ {x})
  BY <1>1, SumRemoves
<1>6. SumFunctionOnSet(f, U) <= SumFunctionOnSet(f, s \ {x})
  <2>1. s \ {x} \notin T
    BY <1>2, <1>4
  <2> QED BY <1>4, <2>1
<1> QED BY <1>3, <1>5, <1>6

\* Two functions are summed one after the other.
LEMMA SumOfSums ==
  ASSUME NEW S, IsFiniteSet(S), NEW f, NEW g, NEW h,
         \A x \in S : f[x] \in Nat /\ g[x] \in Nat /\ h[x] = f[x] + g[x]
  PROVE  SumFunctionOnSet(h, S) = SumFunctionOnSet(f, S) + SumFunctionOnSet(g, S)
<1> DEFINE T == {s \in SUBSET S :
                   SumFunctionOnSet(h, s) # SumFunctionOnSet(f, s) + SumFunctionOnSet(g, s)}
<1> SUFFICES ASSUME T # {} PROVE FALSE
  OBVIOUS
<1>1. \A s \in T : IsFiniteSet(s)
  BY FS_Subset
<1>2. PICK s \in T : \A u \in T : u \subseteq s => u = s
  <2> HIDE DEF T
  <2> QED BY <1>1, LeastSet
<1>3. s # {}
  <2>1. s = {} => /\ SumFunctionOnSet(f, s) = 0 /\ SumFunctionOnSet(g, s) = 0
                  /\ SumFunctionOnSet(h, s) = 0
    BY FS_EmptySet, SumUnfolds
  <2>2. SumFunctionOnSet(h, s) # SumFunctionOnSet(f, s) + SumFunctionOnSet(g, s)
    OBVIOUS
  <2> QED BY <2>1, <2>2
<1>4. PICK x \in s : x \in S
  BY <1>3
<1>5. h[x] \in Nat /\ \A y \in S : h[y] \in Nat
  OBVIOUS
<1>6. /\ SumFunctionOnSet(f, s) = f[x] + SumFunctionOnSet(f, s \ {x})
      /\ SumFunctionOnSet(g, s) = g[x] + SumFunctionOnSet(g, s \ {x})
      /\ SumFunctionOnSet(h, s) = h[x] + SumFunctionOnSet(h, s \ {x})
  <2>1. IsFiniteSet(s) /\ \A y \in s : f[y] \in Nat /\ g[y] \in Nat /\ h[y] \in Nat
    BY <1>1
  <2> QED BY <2>1, SumRemoves
<1>7. SumFunctionOnSet(h, s \ {x}) = SumFunctionOnSet(f, s \ {x}) + SumFunctionOnSet(g, s \ {x})
  <2>1. s \ {x} \notin T
    BY <1>2
  <2> QED BY <2>1
<1>8. SumFunctionOnSet(f, s \ {x}) \in Nat /\ SumFunctionOnSet(g, s \ {x}) \in Nat
  <2>1. IsFiniteSet(s \ {x}) /\ s \ {x} \subseteq S
    BY <1>1, FS_Subset
  <2> QED BY <2>1, SumType
<1> QED BY <1>4, <1>6, <1>7, <1>8
===============================================================================
