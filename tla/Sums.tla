--------------------------------- MODULE Sums ---------------------------------
(***************************************************************************)
(* What the proofs about shares and rewards need to know of sums: the fold *)
(* SumFunctionOnSet of the community module Functions adds up a function's *)
(* values on a finite set, in whatever order it picks the elements.        *)
(*                                                                         *)
(* Its recursion is a CHOOSE of a function on all subsets.  That there is  *)
(* one, and what it computes, is shown with a minimal counterexample       *)
(* (WFMin), which takes a set where the induction theorems take a          *)
(* predicate.                                                              *)
(***************************************************************************)
EXTENDS Functions, Naturals, FiniteSets, FiniteSetTheorems, WellFoundedInduction, TLAPS

\* The element the fold takes next
Pick(s) == CHOOSE x \in s : TRUE

\* What the fold computes for every subset of S, by recursion
IsTable(g, f, S) ==
    g = [s \in SUBSET S |-> IF s = {} THEN 0 ELSE f[Pick(s)] + g[s \ {Pick(s)}]]

Table(f, S) == CHOOSE g : IsTable(g, f, S)

\* The fold looks its result up in the table.
LEMMA SumIsTable == ASSUME NEW f, NEW S PROVE SumFunctionOnSet(f, S) = Table(f, S)[S]
  BY DEF SumFunctionOnSet, FoldFunctionOnSet, MapThenFoldSet, Table, IsTable, Pick

\* It takes an element of the set,
LEMMA PickIn == ASSUME NEW s, s # {} PROVE Pick(s) \in s
  BY DEF Pick

\* An entry of a table
LEMMA TableAt == ASSUME NEW g, NEW f, NEW S, IsTable(g, f, S), NEW s \in SUBSET S
  PROVE g[s] = IF s = {} THEN 0 ELSE f[Pick(s)] + g[s \ {Pick(s)}]
  BY DEF IsTable

\* A set of finite sets has a minimal one
LEMMA Minimal ==
    ASSUME NEW S, NEW T, T \subseteq SUBSET S, IsFiniteSet(S), T # {}
    PROVE  \E m \in T : \A s \in T : s \subseteq m => s = m
<1>1. IsWellFoundedOn(StrictSubsetOrdering(S), FiniteSubsetsOf(S))
  BY FS_StrictSubsetOrderingWellFounded
<1>2. T \subseteq FiniteSubsetsOf(S)
  BY FS_Subset DEF FiniteSubsetsOf
<1>3. \E x \in T : \A y \in T : ~ (<<y, x>> \in StrictSubsetOrdering(S))
  BY <1>1, <1>2, WFMin
<1>. QED  BY <1>3 DEF StrictSubsetOrdering

\* and leaves a smaller set.
LEMMA Smaller == ASSUME NEW s, IsFiniteSet(s), s # {}
  PROVE Pick(s) \in s /\ IsFiniteSet(s \ {Pick(s)}) /\ s \ {Pick(s)} # s
  BY PickIn, FS_Subset

\* Two tables agree where both are defined.
LEMMA TablesAgree ==
    ASSUME NEW f, NEW S, NEW T, NEW g, NEW h, IsTable(g, f, S), IsTable(h, f, T),
           NEW U, U \subseteq S, U \subseteq T, IsFiniteSet(U)
    PROVE  g[U] = h[U]
<1>. DEFINE Bad == {s \in SUBSET U : g[s] # h[s]}
<1>. SUFFICES ASSUME Bad # {} PROVE FALSE
  OBVIOUS
<1>1. PICK m \in Bad : \A s \in Bad : s \subseteq m => s = m
  <2>. HIDE DEF Bad
  <2>1. Bad \subseteq SUBSET U
    BY DEF Bad
  <2>. QED  BY <2>1, Minimal
<1>2. m \subseteq U /\ IsFiniteSet(m) /\ g[m] # h[m]
  BY FS_Subset
<1>3. m # {}
  BY <1>2, TableAt
<1>4. m \ {Pick(m)} \in SUBSET U /\ m \ {Pick(m)} # m
  BY <1>2, <1>3, Smaller
<1>5. m \ {Pick(m)} \notin Bad
  BY <1>1, <1>4
<1>6. g[m \ {Pick(m)}] = h[m \ {Pick(m)}]
  BY <1>4, <1>5
<1>. QED  BY <1>2, <1>3, <1>4, <1>6, TableAt

\* Every finite set has a table.
LEMMA TableExists ==
    ASSUME NEW f, NEW S, IsFiniteSet(S)
    PROVE  IsTable(Table(f, S), f, S)
<1>. DEFINE Bad == {s \in SUBSET S : ~ \E g : IsTable(g, f, s)}
<1>. SUFFICES ASSUME Bad # {} PROVE FALSE
  BY DEF Table
<1>1. PICK m \in Bad : \A s \in Bad : s \subseteq m => s = m
  <2>. HIDE DEF Bad
  <2>1. Bad \subseteq SUBSET S
    BY DEF Bad
  <2>. QED  BY <2>1, Minimal
<1>. DEFINE V(s) == Table(f, s)[s]
            G == [s \in SUBSET m |-> IF s = m /\ s # {} THEN f[Pick(s)] + V(s \ {Pick(s)})
                                     ELSE V(s)]
<1>2. IsFiniteSet(m)
  BY FS_Subset
<1>3. ASSUME NEW s, s \subseteq m, s # m PROVE IsTable(Table(f, s), f, s)
  <2>1. s \notin Bad
    BY <1>1, <1>3
  <2>2. \E g : IsTable(g, f, s)
    BY <2>1, <1>3
  <2>. QED  BY <2>2 DEF Table
<1>4. ASSUME NEW s, s \subseteq m, s # m, s # {}
      PROVE  V(s) = f[Pick(s)] + V(s \ {Pick(s)})
  <2>. DEFINE t == s \ {Pick(s)}
  <2>1. t \subseteq s /\ t # m /\ IsFiniteSet(t) /\ IsFiniteSet(s)
    BY <1>2, <1>4, FS_Subset
  <2>2. IsTable(Table(f, s), f, s) /\ IsTable(Table(f, t), f, t)
    BY <1>3, <1>4, <2>1
  <2>3. Table(f, s)[t] = Table(f, t)[t]
    BY <2>1, <2>2, TablesAgree
  <2>4. Table(f, s)[s] = f[Pick(s)] + Table(f, s)[t]
    BY <1>4, <2>2, TableAt
  <2>. QED  BY <2>3, <2>4
<1>5. m # {} => V({}) = 0
  BY <1>3, TableAt
<1>6. m # {} => IsTable(G, f, m)
  <2>. SUFFICES ASSUME m # {}, NEW s \in SUBSET m
                PROVE  G[s] = IF s = {} THEN 0 ELSE f[Pick(s)] + G[s \ {Pick(s)}]
    <3>1. G = [s \in SUBSET m |-> G[s]]
      OBVIOUS
    <3>. HIDE DEF G
    <3>. QED  BY <3>1 DEF IsTable
  <2>1. CASE s = {}
    BY <2>1, <1>5
  <2>2. CASE s # {}
    <3>1. s \ {Pick(s)} \in SUBSET m /\ s \ {Pick(s)} # m
      BY <2>2, <1>2, FS_Subset, Smaller
    <3>2. G[s \ {Pick(s)}] = V(s \ {Pick(s)})
      BY <3>1
    <3>3. G[s] = f[Pick(s)] + V(s \ {Pick(s)})
      BY <2>2, <1>4
    <3>. HIDE DEF G, V
    <3>. QED  BY <2>2, <3>2, <3>3
  <2>. QED  BY <2>1, <2>2
<1>7. m = {} => IsTable([s \in SUBSET m |-> 0], f, m)
  BY DEF IsTable
<1>. HIDE DEF G
<1>. QED  BY <1>6, <1>7

\* The sum by recursion, which its definition suggests
LEMMA SumStep ==
    ASSUME NEW f, NEW S, IsFiniteSet(S)
    PROVE  SumFunctionOnSet(f, S) =
               IF S = {} THEN 0 ELSE f[Pick(S)] + SumFunctionOnSet(f, S \ {Pick(S)})
<1>1. IsTable(Table(f, S), f, S)
  BY TableExists
<1>2. CASE S = {}
  BY <1>1, <1>2, TableAt, SumIsTable
<1>3. CASE S # {}
  <2>. DEFINE T == S \ {Pick(S)}
  <2>1. T \subseteq S /\ IsFiniteSet(T)
    BY FS_Subset
  <2>2. IsTable(Table(f, T), f, T)
    BY <2>1, TableExists
  <2>3. Table(f, S)[T] = Table(f, T)[T]
    BY <1>1, <2>1, <2>2, TablesAgree
  <2>4. Table(f, S)[S] = f[Pick(S)] + Table(f, S)[T]
    BY <1>1, <1>3, TableAt
  <2>5. SumFunctionOnSet(f, S) = Table(f, S)[S] /\ SumFunctionOnSet(f, T) = Table(f, T)[T]
    BY SumIsTable
  <2>. QED  BY <1>3, <2>3, <2>4, <2>5
<1>. QED  BY <1>2, <1>3

\* There is nothing to add.
LEMMA SumEmpty == ASSUME NEW f PROVE SumFunctionOnSet(f, {}) = 0
  BY SumStep, FS_EmptySet

\* A sum of naturals is one.
LEMMA SumType ==
    ASSUME NEW f, NEW S, IsFiniteSet(S), \A x \in S : f[x] \in Nat
    PROVE  SumFunctionOnSet(f, S) \in Nat
<1>. DEFINE Bad == {s \in SUBSET S : SumFunctionOnSet(f, s) \notin Nat}
<1>. SUFFICES ASSUME Bad # {} PROVE FALSE
  OBVIOUS
<1>1. PICK m \in Bad : \A s \in Bad : s \subseteq m => s = m
  <2>. HIDE DEF Bad
  <2>1. Bad \subseteq SUBSET S
    BY DEF Bad
  <2>. QED  BY <2>1, Minimal
<1>2. IsFiniteSet(m) /\ m \subseteq S
  BY FS_Subset
<1>3. m # {}
  BY SumEmpty
<1>4. Pick(m) \in m /\ m \ {Pick(m)} \in SUBSET S /\ m \ {Pick(m)} # m
  BY <1>2, <1>3, Smaller
<1>5. SumFunctionOnSet(f, m \ {Pick(m)}) \in Nat
  BY <1>1, <1>4
<1>6. SumFunctionOnSet(f, m) = f[Pick(m)] + SumFunctionOnSet(f, m \ {Pick(m)})
  BY <1>2, <1>3, SumStep
<1>. QED  BY <1>2, <1>4, <1>5, <1>6

\* The order of addition does not matter: any element can be taken out.
LEMMA SumRemove ==
    ASSUME NEW f, NEW S, IsFiniteSet(S), \A x \in S : f[x] \in Nat, NEW e \in S
    PROVE  SumFunctionOnSet(f, S) = f[e] + SumFunctionOnSet(f, S \ {e})
<1>. DEFINE Splits(s, x) == SumFunctionOnSet(f, s) = f[x] + SumFunctionOnSet(f, s \ {x})
            Bad == {s \in SUBSET S : \E x \in s : ~Splits(s, x)}
<1>. SUFFICES ASSUME Bad # {} PROVE FALSE
  OBVIOUS
<1>1. PICK m \in Bad : \A s \in Bad : s \subseteq m => s = m
  <2>. HIDE DEF Bad
  <2>1. Bad \subseteq SUBSET S
    BY DEF Bad
  <2>. QED  BY <2>1, Minimal
<1>2. IsFiniteSet(m) /\ m \subseteq S
  BY FS_Subset
<1>3. PICK x \in m : SumFunctionOnSet(f, m) # f[x] + SumFunctionOnSet(f, m \ {x})
  BY <1>1
<1>. DEFINE p == Pick(m)
            r == m \ {p}
<1>4. p \in m /\ r \in SUBSET S /\ r # m /\ IsFiniteSet(r) /\ IsFiniteSet(m \ {x})
  BY <1>2, <1>3, Smaller, FS_Subset
<1>5. SumFunctionOnSet(f, m) = f[p] + SumFunctionOnSet(f, r)
  BY <1>2, <1>3, SumStep
<1>6. x # p
  BY <1>3, <1>5
<1>7. SumFunctionOnSet(f, r) = f[x] + SumFunctionOnSet(f, r \ {x})
  <2>1. r \notin Bad
    BY <1>1, <1>4
  <2>. QED  BY <2>1, <1>3, <1>4, <1>6
<1>8. SumFunctionOnSet(f, m \ {x}) = f[p] + SumFunctionOnSet(f, (m \ {x}) \ {p})
  <2>1. m \ {x} \notin Bad
    BY <1>1, <1>3
  <2>. QED  BY <2>1, <1>2, <1>4, <1>6
<1>9. (m \ {x}) \ {p} = r \ {x}
  OBVIOUS
<1>10. SumFunctionOnSet(f, r \ {x}) \in Nat
  <2>1. IsFiniteSet(r \ {x}) /\ \A y \in r \ {x} : f[y] \in Nat
    BY <1>2, <1>4, FS_Subset
  <2>. QED  BY <2>1, SumType
<1>11. f[x] \in Nat /\ f[p] \in Nat
  BY <1>2, <1>4
<1>12. SumFunctionOnSet(f, m \ {x}) = f[p] + SumFunctionOnSet(f, r \ {x})
  BY <1>8, <1>9, Zenon
<1>13. SumFunctionOnSet(f, m) = f[p] + (f[x] + SumFunctionOnSet(f, r \ {x}))
  BY <1>5, <1>7, Zenon
<1>14. \A a, b, c \in Nat : a + (b + c) = b + (a + c)
  OBVIOUS
<1>15. f[p] + (f[x] + SumFunctionOnSet(f, r \ {x})) = f[x] + (f[p] + SumFunctionOnSet(f, r \ {x}))
  BY <1>10, <1>11, <1>14
<1>. QED  BY <1>3, <1>12, <1>13, <1>15, Zenon

\* One more element
LEMMA SumAdd ==
    ASSUME NEW f, NEW S, IsFiniteSet(S), NEW e, e \notin S, \A x \in S \cup {e} : f[x] \in Nat
    PROVE  SumFunctionOnSet(f, S \cup {e}) = f[e] + SumFunctionOnSet(f, S)
<1>1. IsFiniteSet(S \cup {e}) /\ (S \cup {e}) \ {e} = S
  BY FS_AddElement
<1>. QED  BY <1>1, SumRemove

\* Functions that are nowhere greater have no greater sum.
LEMMA SumMonotone ==
    ASSUME NEW f, NEW g, NEW S, IsFiniteSet(S),
           \A x \in S : f[x] \in Nat /\ g[x] \in Nat /\ f[x] <= g[x]
    PROVE  SumFunctionOnSet(f, S) <= SumFunctionOnSet(g, S)
<1>. DEFINE Bad == {s \in SUBSET S : ~(SumFunctionOnSet(f, s) <= SumFunctionOnSet(g, s))}
<1>. SUFFICES ASSUME Bad # {} PROVE FALSE
  OBVIOUS
<1>1. PICK m \in Bad : \A s \in Bad : s \subseteq m => s = m
  <2>. HIDE DEF Bad
  <2>1. Bad \subseteq SUBSET S
    BY DEF Bad
  <2>. QED  BY <2>1, Minimal
<1>2. IsFiniteSet(m) /\ m \subseteq S
  BY FS_Subset
<1>3. m # {}
  BY SumEmpty
<1>4. Pick(m) \in m /\ m \ {Pick(m)} \in SUBSET S /\ m \ {Pick(m)} # m /\ IsFiniteSet(m \ {Pick(m)})
  BY <1>2, <1>3, Smaller
<1>5. SumFunctionOnSet(f, m \ {Pick(m)}) <= SumFunctionOnSet(g, m \ {Pick(m)})
  BY <1>1, <1>4
<1>6. /\ SumFunctionOnSet(f, m) = f[Pick(m)] + SumFunctionOnSet(f, m \ {Pick(m)})
      /\ SumFunctionOnSet(g, m) = g[Pick(m)] + SumFunctionOnSet(g, m \ {Pick(m)})
  BY <1>2, <1>3, SumStep
<1>7. SumFunctionOnSet(f, m \ {Pick(m)}) \in Nat /\ SumFunctionOnSet(g, m \ {Pick(m)}) \in Nat
  BY <1>4, SumType
<1>. QED  BY <1>2, <1>4, <1>5, <1>6, <1>7

\* Only the values on the set matter.
LEMMA SumSame ==
    ASSUME NEW f, NEW g, NEW S, IsFiniteSet(S), \A x \in S : f[x] = g[x]
    PROVE  SumFunctionOnSet(f, S) = SumFunctionOnSet(g, S)
<1>. DEFINE Bad == {s \in SUBSET S : SumFunctionOnSet(f, s) # SumFunctionOnSet(g, s)}
<1>. SUFFICES ASSUME Bad # {} PROVE FALSE
  OBVIOUS
<1>1. PICK m \in Bad : \A s \in Bad : s \subseteq m => s = m
  <2>. HIDE DEF Bad
  <2>1. Bad \subseteq SUBSET S
    BY DEF Bad
  <2>. QED  BY <2>1, Minimal
<1>2. IsFiniteSet(m) /\ m \subseteq S
  BY FS_Subset
<1>3. m # {}
  BY SumEmpty
<1>4. Pick(m) \in m /\ m \ {Pick(m)} \in SUBSET S /\ m \ {Pick(m)} # m
  BY <1>2, <1>3, Smaller
<1>5. SumFunctionOnSet(f, m \ {Pick(m)}) = SumFunctionOnSet(g, m \ {Pick(m)})
  BY <1>1, <1>4
<1>6. /\ SumFunctionOnSet(f, m) = f[Pick(m)] + SumFunctionOnSet(f, m \ {Pick(m)})
      /\ SumFunctionOnSet(g, m) = g[Pick(m)] + SumFunctionOnSet(g, m \ {Pick(m)})
  BY <1>2, <1>3, SumStep
<1>. QED  BY <1>2, <1>4, <1>5, <1>6

\* Elements that add nothing can be left out.
LEMMA SumSupport ==
    ASSUME NEW f, NEW S, IsFiniteSet(S), \A x \in S : f[x] \in Nat
    PROVE  SumFunctionOnSet(f, S) = SumFunctionOnSet(f, {x \in S : f[x] > 0})
<1>. DEFINE P(s) == {x \in s : f[x] > 0}
            Bad == {s \in SUBSET S : SumFunctionOnSet(f, s) # SumFunctionOnSet(f, P(s))}
<1>. SUFFICES ASSUME Bad # {} PROVE FALSE
  OBVIOUS
<1>1. PICK m \in Bad : \A s \in Bad : s \subseteq m => s = m
  <2>. HIDE DEF Bad
  <2>1. Bad \subseteq SUBSET S
    BY DEF Bad
  <2>. QED  BY <2>1, Minimal
<1>2. m \subseteq S /\ IsFiniteSet(m) /\ SumFunctionOnSet(f, m) # SumFunctionOnSet(f, P(m))
  BY FS_Subset
<1>3. m # {}
  <2>1. P({}) = {}
    OBVIOUS
  <2>. QED  BY <1>2, <2>1
<1>4. PICK e \in m : TRUE
  BY <1>3
<1>. DEFINE r == m \ {e}
<1>5. r \in SUBSET S /\ r # m
  BY <1>2, <1>4
<1>6. SumFunctionOnSet(f, r) = SumFunctionOnSet(f, P(r))
  BY <1>1, <1>5
<1>7. SumFunctionOnSet(f, m) = f[e] + SumFunctionOnSet(f, r)
  BY <1>2, <1>4, SumRemove
<1>8. CASE f[e] > 0
  <2>1. e \in P(m) /\ P(r) = P(m) \ {e} /\ IsFiniteSet(P(m)) /\ \A x \in P(m) : f[x] \in Nat
    BY <1>2, <1>4, <1>8, FS_Subset
  <2>. HIDE DEF P
  <2>2. SumFunctionOnSet(f, P(m)) = f[e] + SumFunctionOnSet(f, P(m) \ {e})
    BY <2>1, SumRemove
  <2>. QED  BY <1>2, <1>6, <1>7, <2>1, <2>2
<1>9. CASE ~(f[e] > 0)
  <2>1. f[e] = 0 /\ SumFunctionOnSet(f, r) \in Nat
    BY <1>2, <1>4, <1>5, <1>9, SumType, FS_Subset
  <2>2. P(r) = P(m)
    BY <2>1
  <2>3. SumFunctionOnSet(f, P(m)) = SumFunctionOnSet(f, P(r))
    BY <2>2
  <2>4. SumFunctionOnSet(f, m) = SumFunctionOnSet(f, r)
    BY <1>7, <2>1
  <2>. QED  BY <1>2, <1>6, <2>3, <2>4, Zenon
<1>. QED  BY <1>8, <1>9

\* A sum over distinct names of the elements is the sum over the elements.
LEMMA SumRenamed ==
    ASSUME NEW f, NEW g, NEW h, NEW S, IsFiniteSet(S),
           \A x \in S : g[x] \in Nat /\ f[h[x]] = g[x],
           \A x, y \in S : h[x] = h[y] => x = y
    PROVE  SumFunctionOnSet(f, {h[x] : x \in S}) = SumFunctionOnSet(g, S)
<1>. DEFINE N(s) == {h[x] : x \in s}
            Bad == {s \in SUBSET S : SumFunctionOnSet(f, N(s)) # SumFunctionOnSet(g, s)}
<1>. SUFFICES ASSUME Bad # {} PROVE FALSE
  OBVIOUS
<1>1. PICK m \in Bad : \A s \in Bad : s \subseteq m => s = m
  <2>. HIDE DEF Bad
  <2>1. Bad \subseteq SUBSET S
    BY DEF Bad
  <2>. QED  BY <2>1, Minimal
<1>2. m \subseteq S /\ IsFiniteSet(m) /\ SumFunctionOnSet(f, N(m)) # SumFunctionOnSet(g, m)
  BY FS_Subset
<1>3. m # {}
  <2>1. N({}) = {}
    OBVIOUS
  <2>. QED  BY <1>2, <2>1, SumEmpty
<1>4. PICK e \in m : TRUE
  BY <1>3
<1>. DEFINE r == m \ {e}
<1>5. r \in SUBSET S /\ r # m
  BY <1>2, <1>4
<1>6. SumFunctionOnSet(f, N(r)) = SumFunctionOnSet(g, r)
  BY <1>1, <1>5
<1>7. SumFunctionOnSet(g, m) = g[e] + SumFunctionOnSet(g, r)
  BY <1>2, <1>4, SumRemove
<1>8. SumFunctionOnSet(f, N(m)) = f[h[e]] + SumFunctionOnSet(f, N(r))
  <2>1. h[e] \in N(m) /\ N(r) = N(m) \ {h[e]}
    BY <1>2, <1>4
  <2>2. IsFiniteSet(N(m))
    <3>. DEFINE k == [x \in m |-> h[x]]
    <3>1. k \in Surjection(m, N(m))
      BY DEF Surjection
    <3>. QED  BY <1>2, <3>1, FS_Surjection
  <2>3. \A x \in N(m) : f[x] \in Nat
    BY <1>2
  <2>. HIDE DEF N
  <2>. QED  BY <2>1, <2>2, <2>3, SumRemove
<1>. QED  BY <1>2, <1>4, <1>6, <1>7, <1>8
================================================================================
