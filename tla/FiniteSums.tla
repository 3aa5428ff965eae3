----------------------------- MODULE FiniteSums -----------------------------
(***************************************************************************)
(* What a sum over a finite set is: the community modules define           *)
(* SumFunctionOnSet by a recursion that removes a chosen element; these    *)
(* lemmas say that the order does not matter and what one changed term     *)
(* does to it.  Each induction is by a smallest counterexample.            *)
(***************************************************************************)
EXTENDS Integers, FiniteSets, Functions, FiniteSetTheorems, WellFoundedInduction, TLAPS

Picked(s) == CHOOSE x \in s : TRUE

\* g adds up f over every subset of S, one picked element at a time.
Adds(g, f, S) ==
    g = [s \in SUBSET S |-> IF s = {} THEN 0 ELSE f[Picked(s)] + g[s \ {Picked(s)}]]

\* A non-empty family of subsets of a finite set has a smallest member.
LEMMA SmallestSubset ==
    ASSUME NEW S, IsFiniteSet(S), NEW Bad \in SUBSET (SUBSET S), Bad # {}
    PROVE  \E T \in Bad : \A U \in SUBSET T : U \in Bad => U = T
<1>1. Bad \subseteq FiniteSubsetsOf(S)
  BY FS_Subset DEF FiniteSubsetsOf
<1>2. PICK T \in Bad : \A U \in Bad : <<U, T>> \notin StrictSubsetOrdering(S)
  <2>1. IsWellFoundedOn(StrictSubsetOrdering(S), FiniteSubsetsOf(S))
    BY FS_StrictSubsetOrderingWellFounded
  <2> HIDE DEF StrictSubsetOrdering
  <2> QED
    BY <1>1, <2>1, WFMin
<1> QED
  BY <1>2 DEF StrictSubsetOrdering

LEMMA PickedIn == ASSUME NEW s, s # {} PROVE Picked(s) \in s
  BY DEF Picked

\* Every non-empty set of naturals has a least member: what an induction on a
\* number comes to.
LEMMA LeastOf ==
    ASSUME NEW S \in SUBSET Nat, S # {}
    PROVE  \E m \in S : \A n \in S : m <= n
<1>1. PICK m \in S : \A n \in S : <<n, m>> \notin OpToRel(<, Nat)
  BY NatLessThanWellFounded, WFMin
<1>2. m \in Nat /\ \A n \in S : n \in Nat /\ ~(n < m)
  BY <1>1 DEF OpToRel
<1>3. \A n \in S : m <= n
  BY <1>2
<1> QED
  BY <1>3

\* A non-empty finite set of integers has a greatest member.
LEMMA GreatestOf ==
    ASSUME NEW S, IsFiniteSet(S), S # {}, \A x \in S : x \in Int
    PROVE  \E m \in S : \A n \in S : n <= m
<1> DEFINE Bad == {T \in SUBSET S : T # {} /\ \A m \in T : \E n \in T : ~(n <= m)}
<1> SUFFICES ASSUME Bad # {} PROVE FALSE
  <2>1. S \notin Bad
    OBVIOUS
  <2> QED
    BY <2>1
<1>1. PICK T \in Bad : \A U \in SUBSET T : U \in Bad => U = T
  <2> HIDE DEF Bad
  <2>1. Bad \in SUBSET (SUBSET S)
    BY DEF Bad
  <2> QED
    BY <2>1, SmallestSubset
<1>2. PICK x \in T : TRUE
  OBVIOUS
<1> DEFINE U == T \ {x}
<1>3. T \subseteq Int /\ \A m \in T : \E n \in T : ~(n <= m)
  OBVIOUS
<1>4. U # {}
  BY <1>2, <1>3
<1>5. U \in SUBSET T /\ U # T /\ U \in SUBSET S
  BY <1>2
<1>6. U \notin Bad
  BY <1>1, <1>5
<1>7. PICK m \in U : \A n \in U : n <= m
  BY <1>4, <1>5, <1>6
<1>8. m \in Int /\ x \in Int /\ m \in T
  BY <1>2, <1>3, <1>7
<1>9. CASE x <= m
  <2>1. \A n \in T : n <= m
    BY <1>7, <1>9
  <2> QED
    BY <1>3, <1>8, <2>1
<1>10. CASE m <= x
  <2>1. \A n \in T : n <= x
    BY <1>3, <1>7, <1>8, <1>10
  <2> QED
    BY <1>2, <1>3, <2>1
<1> QED
  BY <1>8, <1>9, <1>10

LEMMA AddsAt ==
    ASSUME NEW S, NEW f, NEW g, Adds(g, f, S), NEW s \in SUBSET S
    PROVE  g[s] = IF s = {} THEN 0 ELSE f[Picked(s)] + g[s \ {Picked(s)}]
<1> DEFINE G == [t \in SUBSET S |-> IF t = {} THEN 0 ELSE f[Picked(t)] + g[t \ {Picked(t)}]]
<1>1. g = G
  BY DEF Adds
<1>2. G[s] = IF s = {} THEN 0 ELSE f[Picked(s)] + g[s \ {Picked(s)}]
  OBVIOUS
<1> HIDE DEF G
<1> QED
  BY <1>1, <1>2

\* Two such functions agree wherever both are defined.
LEMMA AddsUnique ==
    ASSUME NEW S, IsFiniteSet(S), NEW T \in SUBSET S, NEW f, NEW g, NEW h,
           Adds(g, f, S), Adds(h, f, T)
    PROVE  \A u \in SUBSET T : g[u] = h[u]
<1> DEFINE Bad == {u \in SUBSET T : g[u] # h[u]}
<1> SUFFICES ASSUME Bad # {} PROVE FALSE
  OBVIOUS
<1>1. IsFiniteSet(T)
  BY FS_Subset
<1>2. PICK u \in Bad : \A v \in SUBSET u : v \in Bad => v = u
  <2> HIDE DEF Bad
  <2>1. Bad \in SUBSET (SUBSET T)
    BY DEF Bad
  <2> QED
    BY <1>1, <2>1, SmallestSubset
<1>3. u \in SUBSET T /\ u \in SUBSET S /\ g[u] # h[u]
  OBVIOUS
<1>4. u # {}
  BY <1>3, AddsAt, ZenonT(40)
<1> DEFINE v == u \ {Picked(u)}
<1>5. v \in SUBSET T /\ v \in SUBSET u /\ v # u
  BY <1>3, <1>4, PickedIn
<1>6. g[v] = h[v]
  BY <1>2, <1>5
<1>7. g[u] = f[Picked(u)] + g[v] /\ h[u] = f[Picked(u)] + h[v]
  BY <1>3, <1>4, AddsAt
<1> QED
  BY <1>3, <1>6, <1>7

LEMMA SumIsChosen ==
    ASSUME NEW f, NEW S
    PROVE  SumFunctionOnSet(f, S) = (CHOOSE g : Adds(g, f, S))[S]
  BY DEF SumFunctionOnSet, FoldFunctionOnSet, MapThenFoldSet, Adds, Picked

LEMMA SumOfAdds ==
    ASSUME NEW f, NEW S, IsFiniteSet(S), NEW h, Adds(h, f, S)
    PROVE  SumFunctionOnSet(f, S) = h[S]
<1> DEFINE g == CHOOSE g : Adds(g, f, S)
<1>1. Adds(g, f, S)
  OBVIOUS
<1>2. SumFunctionOnSet(f, S) = g[S]
  BY SumIsChosen
<1> HIDE DEF g
<1> QED
  BY <1>1, <1>2, AddsUnique

\* The recursion over a finite set has a solution.
LEMMA AddsExists ==
    ASSUME NEW S, IsFiniteSet(S), NEW f
    PROVE  \A T \in SUBSET S : \E g : Adds(g, f, T)
<1> DEFINE Bad == {T \in SUBSET S : ~ \E g : Adds(g, f, T)}
<1> SUFFICES ASSUME Bad # {} PROVE FALSE
  OBVIOUS
<1>1. PICK T \in Bad : \A U \in SUBSET T : U \in Bad => U = T
  <2> HIDE DEF Bad
  <2>1. Bad \in SUBSET (SUBSET S)
    BY DEF Bad
  <2> QED
    BY <2>1, SmallestSubset
<1>2. T \in SUBSET S /\ ~ \E g : Adds(g, f, T)
  OBVIOUS
<1>3. \A U \in SUBSET T : U # T => IsFiniteSet(U) /\ \E g : Adds(g, f, U)
  BY <1>1, <1>2, FS_Subset
<1> HIDE DEF Bad
<1> DEFINE val(s) == SumFunctionOnSet(f, s)
           step(s) == IF s = {} THEN 0 ELSE f[Picked(s)] + val(s \ {Picked(s)})
           G == [s \in SUBSET T |-> step(s)]
<1>4. \A s \in SUBSET T : s # T => val(s) = step(s)
  <2> SUFFICES ASSUME NEW s \in SUBSET T, s # T PROVE val(s) = step(s)
    OBVIOUS
  <2>1. PICK h : Adds(h, f, s)
    BY <1>3
  <2>2. IsFiniteSet(s) /\ val(s) = h[s]
    BY <1>3, <2>1, SumOfAdds
  <2>3. CASE s = {}
    BY <2>1, <2>2, <2>3, AddsAt
  <2>4. CASE s # {}
    <3> DEFINE v == s \ {Picked(s)}
    <3>1. v \in SUBSET T /\ v \in SUBSET s /\ v # T
      BY <2>4, PickedIn
    <3>2. PICK k : Adds(k, f, v)
      BY <1>3, <3>1
    <3>3. IsFiniteSet(v) /\ val(v) = k[v]
      BY <1>3, <3>1, <3>2, SumOfAdds
    <3>4. h[v] = k[v]
      BY <2>1, <2>2, <3>1, <3>2, AddsUnique
    <3>5. h[s] = f[Picked(s)] + h[v]
      BY <2>1, <2>4, AddsAt
    <3> QED
      BY <2>2, <2>4, <3>3, <3>4, <3>5
  <2> QED
    BY <2>3, <2>4
<1>5. \A s \in SUBSET T : G[s] = IF s = {} THEN 0 ELSE f[Picked(s)] + G[s \ {Picked(s)}]
  <2> SUFFICES ASSUME NEW s \in SUBSET T, s # {}
               PROVE  G[s] = f[Picked(s)] + G[s \ {Picked(s)}]
    OBVIOUS
  <2> DEFINE v == s \ {Picked(s)}
  <2>1. v \in SUBSET T /\ v # T
    BY PickedIn
  <2>2. G[v] = val(v)
    BY <1>4, <2>1
  <2>3. G[s] = f[Picked(s)] + val(v)
    OBVIOUS
  <2> QED
    BY <2>2, <2>3
<1>6. Adds(G, f, T)
  <2> DEFINE H == [s \in SUBSET T |-> IF s = {} THEN 0 ELSE f[Picked(s)] + G[s \ {Picked(s)}]]
  <2>1. DOMAIN G = SUBSET T /\ DOMAIN H = SUBSET T
    OBVIOUS
  <2>2. \A s \in SUBSET T : G[s] = H[s]
    BY <1>5
  <2>3. G = [s \in SUBSET T |-> G[s]] /\ H = [s \in SUBSET T |-> H[s]]
    OBVIOUS
  <2>4. G = H
    <3> HIDE DEF G, H
    <3> QED
      BY <2>2, <2>3
  <2> QED
    BY <2>4 DEF Adds
<1> QED
  BY <1>2, <1>6

\* A sum is what any function that adds f up says, for every subset at once.
LEMMA SumStep ==
    ASSUME NEW S, IsFiniteSet(S), NEW f, NEW s \in SUBSET S
    PROVE  SumFunctionOnSet(f, s) =
             IF s = {} THEN 0
             ELSE f[Picked(s)] + SumFunctionOnSet(f, s \ {Picked(s)})
<1>1. PICK g : Adds(g, f, S)
  BY AddsExists
<1>2. \A t \in SUBSET S : SumFunctionOnSet(f, t) = g[t]
  <2> TAKE t \in SUBSET S
  <2>1. PICK h : Adds(h, f, t)
    BY AddsExists
  <2>2. IsFiniteSet(t)
    BY FS_Subset
  <2> QED
    BY <1>1, <2>1, <2>2, SumOfAdds, AddsUnique
<1>3. s \ {Picked(s)} \in SUBSET S
  OBVIOUS
<1>4. g[s] = IF s = {} THEN 0 ELSE f[Picked(s)] + g[s \ {Picked(s)}]
  BY <1>1, AddsAt
<1>5. /\ SumFunctionOnSet(f, s) = g[s]
      /\ SumFunctionOnSet(f, s \ {Picked(s)}) = g[s \ {Picked(s)}]
  BY <1>2, <1>3
<1> QED
  BY <1>4, <1>5

\* A sum of integers is an integer.
LEMMA SumType ==
    ASSUME NEW S, IsFiniteSet(S), NEW f \in [S -> Int]
    PROVE  \A s \in SUBSET S : SumFunctionOnSet(f, s) \in Int
<1> DEFINE Bad == {s \in SUBSET S : SumFunctionOnSet(f, s) \notin Int}
<1> SUFFICES ASSUME Bad # {} PROVE FALSE
  OBVIOUS
<1>1. PICK s \in Bad : \A u \in SUBSET s : u \in Bad => u = s
  <2> HIDE DEF Bad
  <2>1. Bad \in SUBSET (SUBSET S)
    BY DEF Bad
  <2> QED
    BY <2>1, SmallestSubset
<1>2. s \in SUBSET S /\ SumFunctionOnSet(f, s) \notin Int
  OBVIOUS
<1>3. s # {}
  <2>1. s = {} => SumFunctionOnSet(f, s) = 0
    BY <1>2, SumStep
  <2> QED
    BY <1>2, <2>1
<1> DEFINE u == s \ {Picked(s)}
<1>4. u \in SUBSET s /\ u # s /\ u \in SUBSET S /\ Picked(s) \in S
  BY <1>2, <1>3, PickedIn
<1>5. SumFunctionOnSet(f, u) \in Int
  BY <1>1, <1>4
<1>6. SumFunctionOnSet(f, s) = f[Picked(s)] + SumFunctionOnSet(f, u)
  BY <1>2, <1>3, SumStep
<1> QED
  BY <1>2, <1>4, <1>5, <1>6

\* Any element may be taken out first.
LEMMA SumRemove ==
    ASSUME NEW S, IsFiniteSet(S), NEW f \in [S -> Int]
    PROVE  \A s \in SUBSET S : \A x \in s :
             SumFunctionOnSet(f, s) = f[x] + SumFunctionOnSet(f, s \ {x})
<1> DEFINE sum(s) == SumFunctionOnSet(f, s)
           Bad == {s \in SUBSET S : \E x \in s : sum(s) # f[x] + sum(s \ {x})}
<1> SUFFICES ASSUME Bad # {} PROVE FALSE
  OBVIOUS
<1>1. PICK s \in Bad : \A u \in SUBSET s : u \in Bad => u = s
  <2> HIDE DEF Bad
  <2>1. Bad \in SUBSET (SUBSET S)
    BY DEF Bad
  <2> QED
    BY <2>1, SmallestSubset
<1>2. s \in SUBSET S
  OBVIOUS
<1>3. PICK x \in s : sum(s) # f[x] + sum(s \ {x})
  OBVIOUS
<1> DEFINE c == Picked(s)
           u == s \ {c}
           v == s \ {x}
           w == s \ {c, x}
<1>4. c \in s /\ sum(s) = f[c] + sum(u)
  BY <1>2, <1>3, PickedIn, SumStep
<1>5. c # x
  BY <1>3, <1>4
<1>6. u \notin Bad /\ v \notin Bad /\ u \in SUBSET S /\ v \in SUBSET S /\ w \in SUBSET S
  BY <1>1, <1>2, <1>3, <1>4, SMTT(20)
<1>7. x \in u /\ c \in v /\ u \ {x} = w /\ v \ {c} = w
  BY <1>3, <1>4, <1>5
<1>8. sum(u) = f[x] + sum(w) /\ sum(v) = f[c] + sum(w)
  BY <1>6, <1>7
<1>9. f[c] \in Int /\ f[x] \in Int /\ sum(w) \in Int
  BY <1>2, <1>3, <1>4, <1>6, SumType
<1> QED
  BY <1>3, <1>4, <1>8, <1>9

\* What is not in the set does not count.
LEMMA SumOutside ==
    ASSUME NEW S, IsFiniteSet(S), NEW f \in [S -> Int], NEW g \in [S -> Int],
           NEW T \in SUBSET S, \A x \in T : f[x] = g[x]
    PROVE  \A s \in SUBSET T : SumFunctionOnSet(f, s) = SumFunctionOnSet(g, s)
<1> DEFINE Bad == {s \in SUBSET T : SumFunctionOnSet(f, s) # SumFunctionOnSet(g, s)}
<1> SUFFICES ASSUME Bad # {} PROVE FALSE
  OBVIOUS
<1>1. PICK s \in Bad : \A u \in SUBSET s : u \in Bad => u = s
  <2> HIDE DEF Bad
  <2>1. Bad \in SUBSET (SUBSET S)
    BY DEF Bad
  <2> QED
    BY <2>1, SmallestSubset
<1>2. s \in SUBSET T /\ s \in SUBSET S /\ SumFunctionOnSet(f, s) # SumFunctionOnSet(g, s)
  OBVIOUS
<1>3. s # {}
  BY <1>2, SumStep
<1> DEFINE u == s \ {Picked(s)}
<1>4. u \in SUBSET s /\ u # s /\ u \in SUBSET T /\ Picked(s) \in T
  BY <1>2, <1>3, PickedIn
<1>5. SumFunctionOnSet(f, u) = SumFunctionOnSet(g, u)
  BY <1>1, <1>4
<1>6. /\ SumFunctionOnSet(f, s) = f[Picked(s)] + SumFunctionOnSet(f, u)
      /\ SumFunctionOnSet(g, s) = g[Picked(s)] + SumFunctionOnSet(g, u)
  BY <1>2, <1>3, SumStep
<1> QED
  BY <1>2, <1>4, <1>5, <1>6

\* Changing one term changes the sum by as much.
LEMMA SumMove ==
    ASSUME NEW S, IsFiniteSet(S), NEW f \in [S -> Int], NEW g \in [S -> Int], NEW x \in S,
           \A y \in S \ {x} : f[y] = g[y]
    PROVE  SumFunctionOnSet(g, S) = SumFunctionOnSet(f, S) + (g[x] - f[x])
<1> DEFINE T == S \ {x}
<1>1. T \in SUBSET S /\ f[x] \in Int /\ g[x] \in Int
  OBVIOUS
<1>2. SumFunctionOnSet(f, T) = SumFunctionOnSet(g, T)
  BY <1>1, SumOutside
<1>3. /\ SumFunctionOnSet(f, S) = f[x] + SumFunctionOnSet(f, T)
      /\ SumFunctionOnSet(g, S) = g[x] + SumFunctionOnSet(g, T)
  BY <1>1, SumRemove
<1>4. SumFunctionOnSet(f, T) \in Int
  BY <1>1, SumType
<1> QED
  BY <1>1, <1>2, <1>3, <1>4

\* The sum over a set that one element may join or leave, or whose term there
\* may change.
LEMMA SumChange ==
    ASSUME NEW S, IsFiniteSet(S), NEW f \in [S -> Int], NEW g \in [S -> Int],
           NEW T \in SUBSET S, NEW U \in SUBSET S, NEW x \in S,
           \A y \in S \ {x} : (y \in T <=> y \in U) /\ (y \in T => f[y] = g[y])
    PROVE  SumFunctionOnSet(g, U)
             = SumFunctionOnSet(f, T) + (IF x \in U THEN g[x] ELSE 0)
                                      - (IF x \in T THEN f[x] ELSE 0)
<1> DEFINE R == T \ {x}
<1>1. R \in SUBSET S /\ R = U \ {x} /\ \A y \in R : f[y] = g[y]
  OBVIOUS
<1>2. /\ SumFunctionOnSet(f, R) = SumFunctionOnSet(g, R)
      /\ SumFunctionOnSet(f, R) \in Int /\ SumFunctionOnSet(g, R) \in Int
  BY <1>1, SumOutside, SumType
<1>3. SumFunctionOnSet(f, T) = SumFunctionOnSet(f, R) + (IF x \in T THEN f[x] ELSE 0)
  <2>1. CASE x \in T
    <3>1. SumFunctionOnSet(f, T) = f[x] + SumFunctionOnSet(f, T \ {x}) /\ f[x] \in Int
      BY <2>1, SumRemove
    <3> QED
      BY <1>2, <2>1, <3>1
  <2>2. CASE x \notin T
    <3>1. R = T
      BY <2>2
    <3> QED
      BY <1>2, <2>2, <3>1, SMTT(20)
  <2> QED
    BY <2>1, <2>2
<1>4. SumFunctionOnSet(g, U) = SumFunctionOnSet(g, R) + (IF x \in U THEN g[x] ELSE 0)
  <2>1. CASE x \in U
    <3>1. SumFunctionOnSet(g, U) = g[x] + SumFunctionOnSet(g, U \ {x}) /\ g[x] \in Int
      BY <2>1, SumRemove
    <3>2. SumFunctionOnSet(g, U \ {x}) = SumFunctionOnSet(g, R)
      BY <1>1
    <3> HIDE DEF R
    <3> QED
      BY <1>2, <2>1, <3>1, <3>2
  <2>2. CASE x \notin U
    <3>1. R = U
      BY <1>1, <2>2
    <3> HIDE DEF R
    <3> QED
      BY <1>2, <2>2, <3>1
  <2> QED
    BY <2>1, <2>2
<1>5. f[x] \in Int /\ g[x] \in Int
  OBVIOUS
<1> QED
  BY <1>2, <1>3, <1>4, <1>5

\* What one term loses and another gains leaves the sum as it was.
LEMMA SumTransfer ==
    ASSUME NEW S, IsFiniteSet(S), NEW f \in [S -> Int], NEW g \in [S -> Int],
           NEW x \in S, NEW y \in S, x # y,
           f[x] + f[y] = g[x] + g[y],
           \A z \in S \ {x, y} : f[z] = g[z]
    PROVE  SumFunctionOnSet(g, S) = SumFunctionOnSet(f, S)
<1>1. PICK m \in [S -> Int] : m[x] = g[x] /\ \A z \in S \ {x} : m[z] = f[z]
  <2>1. [f EXCEPT ![x] = g[x]] \in [S -> Int]
    OBVIOUS
  <2> QED
    BY <2>1
<1>2. SumFunctionOnSet(m, S) = SumFunctionOnSet(f, S) + (m[x] - f[x])
  <2>1. \A z \in S \ {x} : f[z] = m[z]
    BY <1>1
  <2> QED
    BY <2>1, SumMove
<1>3. SumFunctionOnSet(g, S) = SumFunctionOnSet(m, S) + (g[y] - m[y])
  <2>1. \A z \in S \ {y} : m[z] = g[z]
    BY <1>1
  <2> QED
    BY <2>1, SumMove
<1>4. /\ SumFunctionOnSet(f, S) \in Int
      /\ f[x] \in Int /\ f[y] \in Int /\ g[x] \in Int /\ g[y] \in Int /\ m[y] = f[y]
  BY <1>1, SumType
<1> QED
  BY <1>1, <1>2, <1>3, <1>4

\* Nothing but zeroes adds up to zero.
LEMMA SumZero ==
    ASSUME NEW S, IsFiniteSet(S), NEW f \in [S -> Int], \A x \in S : f[x] = 0
    PROVE  \A s \in SUBSET S : SumFunctionOnSet(f, s) = 0
<1> DEFINE Bad == {s \in SUBSET S : SumFunctionOnSet(f, s) # 0}
<1> SUFFICES ASSUME Bad # {} PROVE FALSE
  OBVIOUS
<1>1. PICK s \in Bad : \A u \in SUBSET s : u \in Bad => u = s
  <2> HIDE DEF Bad
  <2>1. Bad \in SUBSET (SUBSET S)
    BY DEF Bad
  <2> QED
    BY <2>1, SmallestSubset
<1>2. s \in SUBSET S /\ SumFunctionOnSet(f, s) # 0
  OBVIOUS
<1>3. s # {}
  BY <1>2, SumStep
<1> DEFINE u == s \ {Picked(s)}
<1>4. u \in SUBSET s /\ u # s /\ u \in SUBSET S /\ Picked(s) \in S
  BY <1>2, <1>3, PickedIn
<1>5. SumFunctionOnSet(f, u) = 0
  BY <1>1, <1>4
<1>6. SumFunctionOnSet(f, s) = f[Picked(s)] + SumFunctionOnSet(f, u)
  BY <1>2, <1>3, SumStep
<1> QED
  BY <1>2, <1>4, <1>5, <1>6

=============================================================================
