-------------------------------- MODULE Sums --------------------------------
(***************************************************************************)
(* What the proofs need of SumFunctionOnSet and SumFunction, the sums of   *)
(* the community modules: the sum over a finite set unfolds at any of its  *)
(* elements, and what follows from that for updates, orders and zeros.     *)
(*                                                                         *)
(* A fact about every subset of a finite set is proved by taking a least   *)
(* counterexample: the strict subsets of a finite set are well-founded.    *)
(***************************************************************************)
EXTENDS Integers, Functions, FiniteSets, FiniteSetTheorems,
        WellFoundedInduction, TLAPS

Any(s) == CHOOSE x \in s : TRUE

\* g sums f over every subset of S.
SumsOver(f, S, g) ==
    g = [s \in SUBSET S |-> IF s = {} THEN 0 ELSE f[Any(s)] + g[s \ {Any(s)}]]

\* A nonempty set of subsets of a finite set has a least member: the principle
\* every lemma below is proved with.
LEMMA LeastSubset ==
    ASSUME NEW S, IsFiniteSet(S), NEW Q, Q \subseteq SUBSET S, Q # {}
    PROVE  \E T \in Q : \A U \in Q : ~(U \subseteq T /\ U # T)
<1>1. IsWellFoundedOn(StrictSubsetOrdering(S), FiniteSubsetsOf(S))
  BY FS_StrictSubsetOrderingWellFounded
<1>2. IsWellFoundedOn(StrictSubsetOrdering(S), SUBSET S)
  BY <1>1, FS_FiniteSubsetsOfFinite
<1>3. \E T \in Q : \A U \in Q : ~(<<U, T>> \in StrictSubsetOrdering(S))
  BY <1>2, WFMin
<1> QED BY <1>3 DEF StrictSubsetOrdering

\* The library's sum is the value at S of a function that sums over subsets.
LEMMA SumIsChosen ==
    ASSUME NEW f, NEW S
    PROVE  SumFunctionOnSet(f, S) = (CHOOSE g : SumsOver(f, S, g))[S]
BY DEF SumFunctionOnSet, FoldFunctionOnSet, MapThenFoldSet, SumsOver, Any

\* Two functions that sum over subsets agree where both are defined.
LEMMA SumsAgree ==
    ASSUME NEW f, NEW S, NEW T, IsFiniteSet(T), T \subseteq S,
           NEW g, SumsOver(f, S, g), NEW h, SumsOver(f, T, h)
    PROVE  g[T] = h[T]
<1> DEFINE Q == {s \in SUBSET T : g[s] # h[s]}
<1> SUFFICES ASSUME Q # {} PROVE FALSE
  OBVIOUS
<1>1. PICK s \in Q : \A r \in Q : ~(r \subseteq s /\ r # s)
  <2>1. Q \subseteq SUBSET T
    OBVIOUS
  <2> HIDE DEF Q
  <2> QED BY <2>1, LeastSubset
<1>2. g[s] = (IF s = {} THEN 0 ELSE f[Any(s)] + g[s \ {Any(s)}])
  <2>1. s \in SUBSET S
    BY <1>1
  <2> QED BY <2>1 DEF SumsOver
<1>3. h[s] = (IF s = {} THEN 0 ELSE f[Any(s)] + h[s \ {Any(s)}])
  <2>1. s \in SUBSET T
    BY <1>1
  <2> QED BY <2>1 DEF SumsOver
<1>4. s # {}
  BY <1>1, <1>2, <1>3
<1>5. Any(s) \in s
  BY <1>4 DEF Any
<1>6. s \ {Any(s)} \notin Q
  BY <1>1, <1>5
<1>7. g[s \ {Any(s)}] = h[s \ {Any(s)}]
  BY <1>1, <1>6
<1> QED BY <1>1, <1>2, <1>3, <1>7

\* Over a finite set there is one.
LEMMA SumsExist ==
    ASSUME NEW f, NEW S, IsFiniteSet(S)
    PROVE  \E g : SumsOver(f, S, g)
<1> DEFINE Q == {s \in SUBSET S : ~\E g : SumsOver(f, s, g)}
<1> SUFFICES ASSUME Q # {} PROVE FALSE
  OBVIOUS
<1>1. PICK T \in Q : \A r \in Q : ~(r \subseteq T /\ r # T)
  <2>1. Q \subseteq SUBSET S
    OBVIOUS
  <2> HIDE DEF Q
  <2> QED BY <2>1, LeastSubset
<1> DEFINE V(s) == (CHOOSE g : SumsOver(f, s, g))[s]
           g == [s \in SUBSET T |-> IF s = {} THEN 0
                                    ELSE f[Any(s)] + V(s \ {Any(s)})]
<1>2. ASSUME NEW s \in SUBSET T, s # {} PROVE g[s \ {Any(s)}] = V(s \ {Any(s)})
  <2> DEFINE r == s \ {Any(s)}
             h == CHOOSE h : SumsOver(f, r, h)
  <2>1. Any(s) \in s
    BY <1>2 DEF Any
  <2>2. r \in SUBSET S /\ r \notin Q /\ r \in SUBSET T
    BY <1>1, <2>1
  <2>3. SumsOver(f, r, h)
    <3>1. \E k : SumsOver(f, r, k)
      BY <2>2
    <3> QED BY <3>1
  <2>4. h[r] = (IF r = {} THEN 0 ELSE f[Any(r)] + h[r \ {Any(r)}])
    <3> HIDE DEF h, r
    <3> QED BY <2>3 DEF SumsOver
  <2>5. CASE r = {}
    BY <2>2, <2>4, <2>5
  <2>6. CASE r # {}
    <3> DEFINE q == r \ {Any(r)}
               k == CHOOSE k : SumsOver(f, q, k)
    <3>1. Any(r) \in r
      BY <2>6 DEF Any
    <3>2. q \in SUBSET S /\ q \notin Q
      BY <1>1, <2>1, <2>2, <3>1
    <3>3. SumsOver(f, q, k)
      <4>1. \E j : SumsOver(f, q, j)
        BY <3>2
      <4> QED BY <4>1
    <3>4. h[q] = k[q]
      <4>1. IsFiniteSet(q)
        BY <3>2, FS_Subset
      <4>2. q \subseteq r
        OBVIOUS
      <4> HIDE DEF h, k, q, r
      <4> QED BY <2>3, <3>3, <4>1, <4>2, SumsAgree
    <3> QED BY <2>2, <2>4, <2>6, <3>4
  <2> QED BY <2>5, <2>6
<1>3. SumsOver(f, T, g)
  <2> HIDE DEF V
  <2> QED BY <1>2 DEF SumsOver
<1> QED BY <1>1, <1>3

-----------------------------------------------------------------------------
\* The sum over nothing is 0.
LEMMA SumEmpty ==
    ASSUME NEW f
    PROVE  SumFunctionOnSet(f, {}) = 0
<1>1. PICK g : SumsOver(f, {}, g)
  BY SumsExist, FS_EmptySet
<1>2. SumsOver(f, {}, CHOOSE h : SumsOver(f, {}, h))
  BY <1>1
<1> DEFINE h == CHOOSE h : SumsOver(f, {}, h)
<1>3. h[{}] = 0
  <2> HIDE DEF h
  <2>1. SumsOver(f, {}, h)
    BY <1>2 DEF h
  <2> QED BY <2>1 DEF SumsOver
<1> QED BY <1>3, SumIsChosen

\* The sum over a nonempty set, taken apart at the element it starts with.
LEMMA SumAny ==
    ASSUME NEW f, NEW S, IsFiniteSet(S), S # {}
    PROVE  /\ Any(S) \in S
           /\ SumFunctionOnSet(f, S)
                = f[Any(S)] + SumFunctionOnSet(f, S \ {Any(S)})
<1> DEFINE r == S \ {Any(S)}
           g == CHOOSE g : SumsOver(f, S, g)
           h == CHOOSE h : SumsOver(f, r, h)
<1>1. Any(S) \in S
  BY DEF Any
<1>2. IsFiniteSet(r)
  BY FS_Subset
<1>3. SumsOver(f, S, g)
  <2>1. \E k : SumsOver(f, S, k)
    BY SumsExist
  <2> QED BY <2>1
<1>4. SumsOver(f, r, h)
  <2>1. \E k : SumsOver(f, r, k)
    <3> HIDE DEF r
    <3> QED BY <1>2, SumsExist
  <2> QED BY <2>1
<1>5. g[S] = f[Any(S)] + g[r]
  <2> HIDE DEF g
  <2> QED BY <1>3 DEF SumsOver
<1>6. g[r] = h[r]
  <2>1. r \subseteq S
    OBVIOUS
  <2> HIDE DEF g, h, r
  <2> QED BY <1>2, <1>3, <1>4, <2>1, SumsAgree
<1>7. SumFunctionOnSet(f, S) = g[S] /\ SumFunctionOnSet(f, r) = h[r]
  BY SumIsChosen
<1> QED BY <1>1, <1>5, <1>6, <1>7
\* Sums of integers are integers, of naturals naturals.
LEMMA SumType ==
    ASSUME NEW S, IsFiniteSet(S), NEW f
    PROVE  /\ (\A x \in S : f[x] \in Int) => SumFunctionOnSet(f, S) \in Int
           /\ (\A x \in S : f[x] \in Nat) => SumFunctionOnSet(f, S) \in Nat
<1>1. ASSUME NEW N, N = Int \/ N = Nat, \A x \in S : f[x] \in N
      PROVE  SumFunctionOnSet(f, S) \in N
  <2> DEFINE Q == {s \in SUBSET S : SumFunctionOnSet(f, s) \notin N}
  <2> SUFFICES ASSUME Q # {} PROVE FALSE
    OBVIOUS
  <2>1. PICK T \in Q : \A r \in Q : ~(r \subseteq T /\ r # T)
    <3>1. Q \subseteq SUBSET S
      OBVIOUS
    <3> HIDE DEF Q
    <3> QED BY <3>1, LeastSubset
  <2>2. IsFiniteSet(T)
    BY <2>1, FS_Subset
  <2>3. T # {}
    <3>1. SumFunctionOnSet(f, {}) = 0 /\ 0 \in N
      BY <1>1, SumEmpty
    <3>2. SumFunctionOnSet(f, T) \notin N
      BY <2>1
    <3> QED BY <3>1, <3>2
  <2>4. /\ Any(T) \in T
        /\ SumFunctionOnSet(f, T) = f[Any(T)] + SumFunctionOnSet(f, T \ {Any(T)})
    BY <2>2, <2>3, SumAny
  <2>5. SumFunctionOnSet(f, T \ {Any(T)}) \in N
    BY <2>1, <2>4
  <2>6. f[Any(T)] \in N
    BY <1>1, <2>1, <2>4
  <2> HIDE DEF Q
  <2>7. SumFunctionOnSet(f, T) \in N
    BY <1>1, <2>4, <2>5, <2>6
  <2> QED BY <2>1, <2>7 DEF Q
<1> QED BY <1>1

\* A sum can be taken apart at any element, not only where the library starts.
LEMMA SumElement ==
    ASSUME NEW S, IsFiniteSet(S), NEW f, \A x \in S : f[x] \in Int, NEW x \in S
    PROVE  SumFunctionOnSet(f, S) = f[x] + SumFunctionOnSet(f, S \ {x})
<1> DEFINE Total(s) == SumFunctionOnSet(f, s)
           Q == {s \in SUBSET S : \E y \in s : Total(s) # f[y] + Total(s \ {y})}
<1> SUFFICES ASSUME Q # {} PROVE FALSE
  OBVIOUS
<1>1. PICK T \in Q : \A r \in Q : ~(r \subseteq T /\ r # T)
  <2>1. Q \subseteq SUBSET S
    OBVIOUS
  <2> HIDE DEF Q
  <2> QED BY <2>1, LeastSubset
<1>2. PICK y \in T : Total(T) # f[y] + Total(T \ {y})
  BY <1>1
<1> DEFINE c == Any(T)
<1>3. c \in T /\ Total(T) = f[c] + Total(T \ {c})
  <2>1. IsFiniteSet(T)
    BY <1>1, FS_Subset
  <2> QED BY <1>2, <2>1, SumAny
<1>4. c # y
  BY <1>2, <1>3
<1>5. T \ {c} \notin Q /\ T \ {y} \notin Q
  BY <1>1, <1>2, <1>3
<1>6. Total(T \ {c}) = f[y] + Total((T \ {c}) \ {y})
  BY <1>1, <1>2, <1>4, <1>5
<1>7. Total(T \ {y}) = f[c] + Total((T \ {y}) \ {c})
  BY <1>1, <1>3, <1>4, <1>5
<1>8. (T \ {c}) \ {y} = (T \ {y}) \ {c}
  OBVIOUS
<1>9. f[c] \in Int /\ f[y] \in Int /\ Total((T \ {y}) \ {c}) \in Int
  <2>1. T \in SUBSET S
    BY <1>1
  <2>2. IsFiniteSet((T \ {y}) \ {c}) /\ (T \ {y}) \ {c} \subseteq S
    BY <2>1, FS_Subset
  <2>3. \A z \in (T \ {y}) \ {c} : f[z] \in Int
    BY <2>2
  <2>4. Total((T \ {y}) \ {c}) \in Int
    BY <2>2, <2>3, SumType
  <2> QED BY <1>2, <1>3, <2>1, <2>4
<1>10. /\ Total(T) = f[c] + Total(T \ {c})
       /\ Total(T \ {c}) = f[y] + Total((T \ {y}) \ {c})
       /\ Total(T) # f[y] + Total(T \ {y})
  BY <1>2, <1>3, <1>6, <1>8
<1>11. ASSUME NEW a \in Int, NEW b \in Int, NEW t \in Int
       PROVE  a + (b + t) = b + (a + t)
  OBVIOUS
<1>12. f[c] + (f[y] + Total((T \ {y}) \ {c})) = f[y] + (f[c] + Total((T \ {y}) \ {c}))
  <2> HIDE DEF Total, c
  <2> QED BY <1>9, <1>11
<1> HIDE DEF Total, Q, c
<1> QED BY <1>7, <1>10, <1>12

\* The order of two functions is the order of their sums.
LEMMA SumMonotone ==
    ASSUME NEW S, IsFiniteSet(S), NEW f, NEW g,
           \A x \in S : f[x] \in Int /\ g[x] \in Int /\ f[x] <= g[x]
    PROVE  SumFunctionOnSet(f, S) <= SumFunctionOnSet(g, S)
<1> DEFINE Q == {s \in SUBSET S : ~(SumFunctionOnSet(f, s) <= SumFunctionOnSet(g, s))}
<1> SUFFICES ASSUME Q # {} PROVE FALSE
  OBVIOUS
<1>1. PICK T \in Q : \A r \in Q : ~(r \subseteq T /\ r # T)
  <2>1. Q \subseteq SUBSET S
    OBVIOUS
  <2> HIDE DEF Q
  <2> QED BY <2>1, LeastSubset
<1>2. T \in SUBSET S /\ IsFiniteSet(T)
  BY <1>1, FS_Subset
<1>3. T # {}
  <2>1. SumFunctionOnSet(f, {}) <= SumFunctionOnSet(g, {})
    <3>1. SumFunctionOnSet(f, {}) = 0 /\ SumFunctionOnSet(g, {}) = 0
      BY SumEmpty
    <3> QED BY <3>1
  <2>2. ~(SumFunctionOnSet(f, T) <= SumFunctionOnSet(g, T))
    BY <1>1
  <2> QED BY <2>1, <2>2
<1> DEFINE c == Any(T)  r == T \ {c}
<1>4. /\ c \in T
      /\ SumFunctionOnSet(f, T) = f[c] + SumFunctionOnSet(f, r)
      /\ SumFunctionOnSet(g, T) = g[c] + SumFunctionOnSet(g, r)
  BY <1>2, <1>3, SumAny
<1>5. SumFunctionOnSet(f, r) <= SumFunctionOnSet(g, r)
  BY <1>1, <1>2, <1>4
<1>6. f[c] \in Int /\ g[c] \in Int /\ f[c] <= g[c]
  BY <1>2, <1>4
<1>7. SumFunctionOnSet(f, r) \in Int /\ SumFunctionOnSet(g, r) \in Int
  <2>1. IsFiniteSet(r) /\ r \subseteq S
    BY <1>2, FS_Subset
  <2>2. \A x \in r : f[x] \in Int /\ g[x] \in Int
    BY <2>1
  <2> HIDE DEF r
  <2> QED BY <2>1, <2>2, SumType
<1>8. ~(SumFunctionOnSet(f, T) <= SumFunctionOnSet(g, T))
  BY <1>1
<1> HIDE DEF c, r, Q
<1> QED BY <1>4, <1>5, <1>6, <1>7, <1>8

\* The sum of a linear combination is that of the sums.
LEMMA SumLinear ==
    ASSUME NEW S, IsFiniteSet(S), NEW k \in Int, NEW f, NEW g, NEW h,
           \A x \in S : f[x] \in Int /\ g[x] \in Int /\ h[x] = f[x] + k * g[x]
    PROVE  SumFunctionOnSet(h, S) = SumFunctionOnSet(f, S) + k * SumFunctionOnSet(g, S)
<1> DEFINE Linear(s) == SumFunctionOnSet(h, s)
                          = SumFunctionOnSet(f, s) + k * SumFunctionOnSet(g, s)
           Q == {s \in SUBSET S : ~Linear(s)}
<1> SUFFICES ASSUME Q # {} PROVE FALSE
  OBVIOUS
<1>1. PICK T \in Q : \A r \in Q : ~(r \subseteq T /\ r # T)
  <2>1. Q \subseteq SUBSET S
    OBVIOUS
  <2> HIDE DEF Q
  <2> QED BY <2>1, LeastSubset
<1>2. T \in SUBSET S /\ IsFiniteSet(T)
  BY <1>1, FS_Subset
<1>3. T # {}
  <2>1. Linear({})
    BY SumEmpty
  <2> HIDE DEF Linear
  <2> QED BY <1>1, <2>1
<1> DEFINE c == Any(T)  r == T \ {c}
<1>4. /\ c \in T
      /\ SumFunctionOnSet(f, T) = f[c] + SumFunctionOnSet(f, r)
      /\ SumFunctionOnSet(g, T) = g[c] + SumFunctionOnSet(g, r)
      /\ SumFunctionOnSet(h, T) = h[c] + SumFunctionOnSet(h, r)
  BY <1>2, <1>3, SumAny
<1>5. Linear(r)
  <2>1. r \in SUBSET S /\ r \subseteq T /\ r # T
    BY <1>2, <1>4
  <2> HIDE DEF r, Linear
  <2> QED BY <1>1, <2>1
<1>6. f[c] \in Int /\ g[c] \in Int /\ h[c] = f[c] + k * g[c]
  BY <1>2, <1>4
<1>7. SumFunctionOnSet(f, r) \in Int /\ SumFunctionOnSet(g, r) \in Int
  <2>1. IsFiniteSet(r) /\ r \subseteq S
    BY <1>2, FS_Subset
  <2>2. \A x \in r : f[x] \in Int /\ g[x] \in Int
    BY <2>1
  <2> HIDE DEF r
  <2> QED BY <2>1, <2>2, SumType
<1>8. ASSUME NEW p \in Int, NEW q \in Int, NEW m \in Int, NEW n \in Int
      PROVE  (p + k * q) + (m + k * n) = (p + m) + k * (q + n)
  BY SMT
<1>9. ~Linear(T)
  BY <1>1
<1>10. SumFunctionOnSet(h, r) = SumFunctionOnSet(f, r) + k * SumFunctionOnSet(g, r)
  BY <1>5
<1> HIDE DEF c, r, Q
<1>11. SumFunctionOnSet(h, T)
          = (f[c] + SumFunctionOnSet(f, r)) + k * (g[c] + SumFunctionOnSet(g, r))
  BY <1>4, <1>6, <1>7, <1>8, <1>10
<1> QED BY <1>4, <1>9, <1>11

\* Functions that agree on a set have the same sum over it.
LEMMA SumEqual ==
    ASSUME NEW S, IsFiniteSet(S), NEW f, NEW g,
           \A x \in S : f[x] \in Int /\ f[x] = g[x]
    PROVE  SumFunctionOnSet(f, S) = SumFunctionOnSet(g, S)
<1>1. SumFunctionOnSet(f, S) <= SumFunctionOnSet(g, S)
  BY SumMonotone
<1>2. SumFunctionOnSet(g, S) <= SumFunctionOnSet(f, S)
  <2>1. \A x \in S : g[x] \in Int /\ f[x] \in Int /\ g[x] <= f[x]
    OBVIOUS
  <2> QED BY <2>1, SumMonotone
<1>3. SumFunctionOnSet(f, S) \in Int /\ SumFunctionOnSet(g, S) \in Int
  <2>1. \A x \in S : f[x] \in Int
    OBVIOUS
  <2>2. \A x \in S : g[x] \in Int
    OBVIOUS
  <2> QED BY <2>1, <2>2, SumType
<1> QED BY <1>1, <1>2, <1>3

\* Two functions that agree but at x have sums that differ as they do there.
LEMMA SumChange ==
    ASSUME NEW S, IsFiniteSet(S), NEW f, NEW g, NEW x \in S,
           \A y \in S : f[y] \in Int /\ g[y] \in Int,
           \A y \in S : y # x => g[y] = f[y]
    PROVE  SumFunctionOnSet(g, S) = SumFunctionOnSet(f, S) - f[x] + g[x]
<1>1. IsFiniteSet(S \ {x})
  BY FS_Subset
<1>2. SumFunctionOnSet(f, S) = f[x] + SumFunctionOnSet(f, S \ {x})
  BY SumElement
<1>3. SumFunctionOnSet(g, S) = g[x] + SumFunctionOnSet(g, S \ {x})
  BY SumElement
<1>4. SumFunctionOnSet(f, S \ {x}) = SumFunctionOnSet(g, S \ {x})
  <2>1. \A y \in S \ {x} : f[y] \in Int /\ f[y] = g[y]
    OBVIOUS
  <2> QED BY <1>1, <2>1, SumEqual
<1>5. SumFunctionOnSet(f, S \ {x}) \in Int
  <2>1. \A y \in S \ {x} : f[y] \in Int
    OBVIOUS
  <2> QED BY <1>1, <2>1, SumType
<1> QED BY <1>2, <1>3, <1>4, <1>5

\* Nothing in a sum of naturals is more than the sum.
LEMMA SumBounds ==
    ASSUME NEW S, IsFiniteSet(S), NEW f, \A y \in S : f[y] \in Nat, NEW x \in S
    PROVE  f[x] <= SumFunctionOnSet(f, S)
<1>1. SumFunctionOnSet(f, S) = f[x] + SumFunctionOnSet(f, S \ {x})
  <2>1. \A y \in S : f[y] \in Int
    OBVIOUS
  <2> QED BY <2>1, SumElement
<1>2. SumFunctionOnSet(f, S \ {x}) \in Nat
  <2>1. IsFiniteSet(S \ {x}) /\ \A y \in S \ {x} : f[y] \in Nat
    BY FS_Subset
  <2> QED BY <2>1, SumType
<1> QED BY <1>1, <1>2

\* A sum of zeros is 0.
LEMMA SumZero ==
    ASSUME NEW S, IsFiniteSet(S), NEW f, \A x \in S : f[x] = 0
    PROVE  SumFunctionOnSet(f, S) = 0
<1> DEFINE Q == {s \in SUBSET S : SumFunctionOnSet(f, s) # 0}
<1> SUFFICES ASSUME Q # {} PROVE FALSE
  OBVIOUS
<1>1. PICK T \in Q : \A r \in Q : ~(r \subseteq T /\ r # T)
  <2>1. Q \subseteq SUBSET S
    OBVIOUS
  <2> HIDE DEF Q
  <2> QED BY <2>1, LeastSubset
<1>2. IsFiniteSet(T)
  BY <1>1, FS_Subset
<1>3. T # {}
  BY <1>1, SumEmpty
<1>4. /\ Any(T) \in T
      /\ SumFunctionOnSet(f, T) = f[Any(T)] + SumFunctionOnSet(f, T \ {Any(T)})
  BY <1>2, <1>3, SumAny
<1>5. SumFunctionOnSet(f, T \ {Any(T)}) = 0
  BY <1>1, <1>4
<1> QED BY <1>1, <1>4, <1>5

-----------------------------------------------------------------------------
\* The same of whole functions.

\* The sum of a function is an integer or a natural number as its values are.
LEMMA TotalType ==
    ASSUME NEW D, IsFiniteSet(D)
    PROVE  /\ \A f \in [D -> Int] : SumFunction(f) \in Int
           /\ \A f \in [D -> Nat] : SumFunction(f) \in Nat
<1>1. ASSUME NEW f \in [D -> Int] PROVE SumFunction(f) \in Int
  <2>1. \A x \in D : f[x] \in Int
    OBVIOUS
  <2> QED BY <2>1, SumType DEF SumFunction
<1>2. ASSUME NEW f \in [D -> Nat] PROVE SumFunction(f) \in Nat
  <2>1. \A x \in D : f[x] \in Nat
    OBVIOUS
  <2> QED BY <2>1, SumType DEF SumFunction
<1> QED BY <1>1, <1>2

\* A new value at x changes the total by what it differs from the old one.
LEMMA TotalUpdate ==
    ASSUME NEW D, IsFiniteSet(D), NEW f \in [D -> Int], NEW x \in D, NEW v \in Int
    PROVE  SumFunction([f EXCEPT ![x] = v]) = SumFunction(f) - f[x] + v
<1> DEFINE g == [f EXCEPT ![x] = v]
<1>1. /\ DOMAIN f = D /\ DOMAIN g = D
      /\ g[x] = v
      /\ \A y \in D : f[y] \in Int /\ g[y] \in Int
      /\ \A y \in D : y # x => g[y] = f[y]
  OBVIOUS
<1> HIDE DEF g
<1>2. SumFunctionOnSet(g, D) = SumFunctionOnSet(f, D) - f[x] + g[x]
  BY <1>1, SumChange
<1>3. SumFunction(g) = SumFunction(f) - f[x] + v
  BY <1>1, <1>2 DEF SumFunction
<1> QED BY <1>3 DEF g

\* No value of a function to the naturals is more than its total, so a total of 0
\* is one of zeros.
LEMMA TotalBounds ==
    ASSUME NEW D, IsFiniteSet(D), NEW f \in [D -> Nat], NEW x \in D
    PROVE  f[x] <= SumFunction(f)
<1>1. \A y \in D : f[y] \in Nat
  OBVIOUS
<1> QED BY <1>1, SumBounds DEF SumFunction

\* The total of nothing but zeros is 0.
LEMMA TotalZero ==
    ASSUME NEW D, IsFiniteSet(D)
    PROVE  SumFunction([x \in D |-> 0]) = 0
<1> DEFINE f == [x \in D |-> 0]
<1>1. DOMAIN f = D /\ \A x \in D : f[x] = 0
  OBVIOUS
<1> HIDE DEF f
<1>2. SumFunctionOnSet(f, D) = 0
  BY <1>1, SumZero
<1>3. SumFunction(f) = 0
  BY <1>1, <1>2 DEF SumFunction
<1> QED BY <1>3 DEF f

\* Functions that agree but at x have totals that differ as they do there.
LEMMA TotalChange ==
    ASSUME NEW D, IsFiniteSet(D), NEW f \in [D -> Int], NEW g \in [D -> Int], NEW x \in D,
           \A y \in D : y # x => g[y] = f[y]
    PROVE  SumFunction(g) = SumFunction(f) - f[x] + g[x]
<1>1. DOMAIN f = D /\ DOMAIN g = D /\ \A y \in D : f[y] \in Int /\ g[y] \in Int
  OBVIOUS
<1> QED BY <1>1, SumChange DEF SumFunction

\* The order of two functions is the order of their totals.
LEMMA TotalMonotone ==
    ASSUME NEW D, IsFiniteSet(D), NEW f \in [D -> Int], NEW g \in [D -> Int],
           \A x \in D : f[x] <= g[x]
    PROVE  SumFunction(f) <= SumFunction(g)
<1>1. DOMAIN f = D /\ DOMAIN g = D
      /\ \A x \in D : f[x] \in Int /\ g[x] \in Int /\ f[x] <= g[x]
  OBVIOUS
<1> QED BY <1>1, SumMonotone DEF SumFunction

\* The total of a linear combination is that of the totals.
LEMMA TotalLinear ==
    ASSUME NEW D, IsFiniteSet(D), NEW k \in Int, NEW f \in [D -> Int],
           NEW g \in [D -> Int], NEW h \in [D -> Int],
           \A x \in D : h[x] = f[x] + k * g[x]
    PROVE  SumFunction(h) = SumFunction(f) + k * SumFunction(g)
<1>1. DOMAIN f = D /\ DOMAIN g = D /\ DOMAIN h = D
      /\ \A x \in D : f[x] \in Int /\ g[x] \in Int /\ h[x] = f[x] + k * g[x]
  OBVIOUS
<1> QED BY <1>1, SumLinear DEF SumFunction

\* The sum over a part is the sum over the whole of what is zero outside the part.
LEMMA SumOfPart ==
    ASSUME NEW T, IsFiniteSet(T), NEW S, NEW f, \A x \in T : f[x] \in Int,
           S \subseteq T
    PROVE  SumFunctionOnSet(f, S)
             = SumFunction([x \in T |-> IF x \in S THEN f[x] ELSE 0])
<1> DEFINE g == [x \in T |-> IF x \in S THEN f[x] ELSE 0]
           Q == {s \in SUBSET T : SumFunctionOnSet(f, s \cap S) # SumFunctionOnSet(g, s)}
<1>1. Q = {}
  <2> SUFFICES ASSUME Q # {} PROVE FALSE
    OBVIOUS
  <2>1. PICK s \in Q : \A r \in Q : ~(r \subseteq s /\ r # s)
    <3>1. Q \subseteq SUBSET T
      OBVIOUS
    <3> HIDE DEF Q
    <3> QED BY <3>1, LeastSubset
  <2>2. s \in SUBSET T /\ IsFiniteSet(s) /\ IsFiniteSet(s \cap S)
    BY <2>1, FS_Subset
  <2>3. s # {}
    <3>1. ASSUME s = {} PROVE FALSE
      <4>1. s \cap S = {}
        BY <3>1
      <4>2. SumFunctionOnSet(f, {}) = 0 /\ SumFunctionOnSet(g, {}) = 0
        BY SumEmpty
      <4> QED BY <2>1, <3>1, <4>1, <4>2
    <3> QED BY <3>1
  <2>4. PICK x \in s : TRUE
    BY <2>3
  <2> DEFINE r == s \ {x}
  <2>5. SumFunctionOnSet(f, r \cap S) = SumFunctionOnSet(g, r)
    <3>1. r \in SUBSET T /\ r \subseteq s /\ r # s
      BY <2>2, <2>4
    <3>2. r \notin Q
      BY <2>1, <3>1
    <3> QED BY <3>1, <3>2
  <2>6. SumFunctionOnSet(g, s) = g[x] + SumFunctionOnSet(g, r)
    <3>1. \A y \in s : g[y] \in Int
      BY <2>2
    <3> HIDE DEF g
    <3> QED BY <2>2, <2>4, <3>1, SumElement
  <2>7. SumFunctionOnSet(f, s \cap S) = g[x] + SumFunctionOnSet(f, r \cap S)
    <3>1. CASE x \in S
      <4>1. x \in s \cap S /\ r \cap S = (s \cap S) \ {x} /\ g[x] = f[x]
        BY <2>2, <2>4, <3>1
      <4>2. \A y \in s \cap S : f[y] \in Int
        BY <2>2
      <4>3. SumFunctionOnSet(f, s \cap S) = f[x] + SumFunctionOnSet(f, (s \cap S) \ {x})
        BY <2>2, <4>1, <4>2, SumElement
      <4> HIDE DEF g, r
      <4> QED BY <4>1, <4>3
    <3>2. CASE x \notin S
      <4>1. r \cap S = s \cap S /\ g[x] = 0
        BY <2>2, <2>4, <3>2
      <4>2. \A y \in s \cap S : f[y] \in Int
        BY <2>2
      <4>3. SumFunctionOnSet(f, s \cap S) \in Int
        BY <2>2, <4>2, SumType
      <4>4. SumFunctionOnSet(f, r \cap S) = SumFunctionOnSet(f, s \cap S)
        BY <4>1
      <4> HIDE DEF g, r
      <4> QED BY <4>1, <4>3, <4>4
    <3> QED BY <3>1, <3>2
  <2>8. s \notin Q
    <3> HIDE DEF g, r
    <3> QED BY <2>5, <2>6, <2>7
  <2> QED BY <2>1, <2>8
<1>2. T \cap S = S /\ DOMAIN g = T
  OBVIOUS
<1>3. T \in SUBSET T
  OBVIOUS
<1>4. SumFunctionOnSet(f, T \cap S) = SumFunctionOnSet(g, T)
  BY <1>1, <1>3
<1>5. SumFunctionOnSet(f, S) = SumFunction(g)
  <2> HIDE DEF g, Q
  <2> QED BY <1>2, <1>4 DEF SumFunction
<1> QED BY <1>5

=============================================================================
