-------------------------- MODULE FiniteSums_proofs --------------------------
(***************************************************************************)
(* What the proofs need to know of least numbers, and of sums over finite  *)
(* sets as the Functions module defines them: by a recursive function that *)
(* takes the elements in an order CHOOSE fixes.  Each lemma speaks of any  *)
(* function and any set, and is proved by the least size at which it could *)
(* fail.                                                                   *)
(***************************************************************************)
EXTENDS Integers, FiniteSets, Functions, FiniteSetTheorems, WellFoundedInduction, TLAPS

(* A non-empty set of natural numbers has a least element. *)
LEMMA LeastNatural ==
  ASSUME NEW T \in SUBSET Nat, T # {}
  PROVE  \E m \in T : \A k \in T : m <= k
<1>1. PICK m \in T : \A k \in T : ~ (<<k, m>> \in OpToRel(<, Nat))
  BY NatLessThanWellFounded, WFMin
<1>2. \A k \in T : ~ (k < m)
  BY <1>1 DEF OpToRel
<1> QED
  BY <1>2

(* Of the numbers from 0 on there is a first one that is not in Out, or    *)
(* the first c are all in it.                                              *)
LEMMA FirstNotIn ==
  ASSUME NEW c \in Nat, NEW Out
  PROVE  \E n \in 0 .. c : (\A j \in 0 .. n - 1 : j \in Out) /\ (n < c => n \notin Out)
<1> DEFINE Stay == {k \in 0 .. c : k < c => k \notin Out}
<1>1. c \in Stay /\ Stay \in SUBSET Nat
  OBVIOUS
<1>2. PICK n \in Stay : \A k \in Stay : n <= k
  <2> HIDE DEF Stay
  <2> QED BY <1>1, LeastNatural
<1>3. n \in 0 .. c /\ (n < c => n \notin Out)
  OBVIOUS
<1>4. ASSUME NEW j \in 0 .. n - 1  PROVE j \in Out
  <2>1. j \in 0 .. c /\ j < c /\ ~ (n <= j)
    BY <1>3
  <2>2. j \notin Stay
    BY <1>2, <2>1
  <2> QED BY <2>1, <2>2
<1> QED BY <1>3, <1>4

(* The element a fold takes first. *)
Pick(s) == CHOOSE x \in s : TRUE

(* The equation a fold's function satisfies, on the sets in D. *)
Folds(g, f, D) == g = [s \in D |-> IF s = {} THEN 0 ELSE f[Pick(s)] + g[s \ {Pick(s)}]]

FoldsBelow(g, f, S) == Folds(g, f, SUBSET S)

(* The element taken first is one of the set, and the rest is smaller.     *)
LEMMA PickOne ==
  ASSUME NEW s, s # {}, IsFiniteSet(s)
  PROVE  /\ Pick(s) \in s
         /\ IsFiniteSet(s \ {Pick(s)})
         /\ Cardinality(s) \in Nat \ {0}
         /\ Cardinality(s \ {Pick(s)}) = Cardinality(s) - 1
<1>1. Pick(s) \in s
  BY DEF Pick
<1>2. Cardinality(s) \in Nat /\ Cardinality(s) # 0
  BY FS_CardinalityType, FS_EmptySet
<1> QED BY <1>1, <1>2, FS_RemoveElement

(* There is such a function for every finite set. *)
LEMMA FoldExists ==
  ASSUME NEW f, NEW S, IsFiniteSet(S)
  PROVE  \E g : Folds(g, f, SUBSET S)
<1> DEFINE D(n) == {s \in SUBSET S : Cardinality(s) <= n}
           Bad == {n \in Nat : ~ \E g : Folds(g, f, D(n))}
<1>1. \A s \in SUBSET S : IsFiniteSet(s) /\ Cardinality(s) \in Nat
  BY FS_Subset, FS_CardinalityType
<1>2. 0 \notin Bad
  <2> DEFINE g == [s \in D(0) |-> 0]
  <2>1. \A s \in D(0) : s = {}
    BY <1>1, FS_EmptySet
  <2>2. Folds(g, f, D(0))
    BY <2>1 DEF Folds
  <2> QED BY <2>2
<1>3. ASSUME NEW m \in Nat, m \notin Bad
      PROVE  m + 1 \notin Bad
  <2>1. PICK g : Folds(g, f, D(m))
    BY <1>3
  <2> DEFINE h == [s \in D(m + 1) |-> IF s = {} THEN 0 ELSE f[Pick(s)] + g[s \ {Pick(s)}]]
  <2>2. ASSUME NEW s \in D(m + 1), s # {}
        PROVE  h[s \ {Pick(s)}] = g[s \ {Pick(s)}]
    <3> DEFINE t == s \ {Pick(s)}
    <3>1. t \in D(m) /\ t \in D(m + 1)
      BY <1>1, <2>2, PickOne
    <3> HIDE DEF D
    <3>2. g[t] = IF t = {} THEN 0 ELSE f[Pick(t)] + g[t \ {Pick(t)}]
      BY <2>1, <3>1 DEF Folds
    <3> QED BY <3>1, <3>2
  <2>3. Folds(h, f, D(m + 1))
    <3> HIDE DEF D
    <3>1. h = [s \in D(m + 1) |-> IF s = {} THEN 0 ELSE f[Pick(s)] + h[s \ {Pick(s)}]]
      BY <2>2
    <3> QED BY <3>1 DEF Folds
  <2> QED BY <2>3
<1>4. Bad = {}
  <2> SUFFICES ASSUME Bad # {}  PROVE FALSE
    OBVIOUS
  <2>1. PICK m \in Bad : \A k \in Bad : m <= k
    <3>1. Bad \in SUBSET Nat
      OBVIOUS
    <3> HIDE DEF Bad
    <3> QED BY <3>1, LeastNatural
  <2> HIDE DEF Bad
  <2>2. m \in Nat
    BY DEF Bad
  <2>3. m # 0 /\ m - 1 \in Nat /\ m - 1 \notin Bad
    BY <1>2, <2>1, <2>2
  <2> QED BY <1>3, <2>1, <2>2, <2>3
<1>5. Cardinality(S) \in Nat /\ D(Cardinality(S)) = SUBSET S
  BY FS_Subset, FS_CardinalityType
<1> QED BY <1>4, <1>5

(* Two such functions agree where both are defined. *)
LEMMA FoldUnique ==
  ASSUME NEW f, NEW S, NEW T, NEW g, NEW h, NEW s,
         IsFiniteSet(S), T \in SUBSET S, s \in SUBSET T,
         FoldsBelow(g, f, S), FoldsBelow(h, f, T)
  PROVE  g[s] = h[s]
<1> DEFINE Bad == {n \in Nat : \E r \in SUBSET T : Cardinality(r) = n /\ g[r] # h[r]}
<1>1. \A r \in SUBSET T : r \in SUBSET S /\ IsFiniteSet(r) /\ Cardinality(r) \in Nat
  BY FS_Subset, FS_CardinalityType
<1>2. /\ \A r \in SUBSET S : g[r] = IF r = {} THEN 0 ELSE f[Pick(r)] + g[r \ {Pick(r)}]
      /\ \A r \in SUBSET T : h[r] = IF r = {} THEN 0 ELSE f[Pick(r)] + h[r \ {Pick(r)}]
  BY DEF Folds, FoldsBelow
<1>3. SUFFICES ASSUME Bad # {}  PROVE FALSE
  BY <1>1
<1>4. PICK m \in Bad : \A k \in Bad : m <= k
  <2>1. Bad \in SUBSET Nat
    OBVIOUS
  <2> HIDE DEF Bad
  <2> QED BY <1>3, <2>1, LeastNatural
<1>5. PICK r \in SUBSET T : Cardinality(r) = m /\ g[r] # h[r]
  OBVIOUS
<1>6. r # {}
  BY <1>1, <1>2, <1>5
<1> DEFINE t == r \ {Pick(r)}
<1>7. t \in SUBSET T /\ Cardinality(t) = m - 1 /\ m \in Nat \ {0}
  BY <1>1, <1>5, <1>6, PickOne
<1>8. m - 1 \notin Bad /\ m - 1 \in Nat
  <2> HIDE DEF Bad
  <2>1. ~(m <= m - 1) /\ m - 1 \in Nat
    BY <1>7
  <2> QED BY <1>4, <2>1
<1>9. g[t] = h[t]
  BY <1>7, <1>8
<1> QED BY <1>1, <1>2, <1>5, <1>6, <1>9

(* The sum takes one element and sums the rest. *)
LEMMA SumStep ==
  ASSUME NEW f, NEW S, IsFiniteSet(S)
  PROVE  SumFunctionOnSet(f, S) =
           IF S = {} THEN 0 ELSE f[Pick(S)] + SumFunctionOnSet(f, S \ {Pick(S)})
<1> DEFINE The(T) == CHOOSE g : Folds(g, f, SUBSET T)
<1>1. \A T : SumFunctionOnSet(f, T) = The(T)[T]
  BY DEF SumFunctionOnSet, FoldFunctionOnSet, MapThenFoldSet, Pick, Folds
<1>2. ASSUME NEW T \in SUBSET S  PROVE Folds(The(T), f, SUBSET T)
  <2>1. \E g : Folds(g, f, SUBSET T)
    BY FoldExists, FS_Subset
  <2> QED BY <2>1
<1> HIDE DEF The
<1>3. The(S)[S] = IF S = {} THEN 0 ELSE f[Pick(S)] + The(S)[S \ {Pick(S)}]
  BY <1>2 DEF Folds
<1> DEFINE T == S \ {Pick(S)}
<1>4. T \in SUBSET S /\ T \in SUBSET T /\ S \in SUBSET S
  OBVIOUS
<1>5. Folds(The(S), f, SUBSET S) /\ Folds(The(T), f, SUBSET T)
  BY <1>2, <1>4
<1> HIDE DEF T
<1>6. \A s \in SUBSET T : The(S)[s] = The(T)[s]
  <2> DEFINE g == The(S)
             h == The(T)
  <2>1. FoldsBelow(g, f, S) /\ FoldsBelow(h, f, T)
    BY <1>5 DEF FoldsBelow
  <2> HIDE DEF g, h
  <2>2. ASSUME NEW s \in SUBSET T  PROVE g[s] = h[s]
    BY <1>4, <2>1, FoldUnique, Z3
  <2> QED BY <2>2 DEF g, h
<1>7. The(S)[T] = SumFunctionOnSet(f, T)
  BY <1>1, <1>4, <1>6
<1>8. The(S)[S] = SumFunctionOnSet(f, S)
  BY <1>1
<1> QED BY <1>3, <1>7, <1>8 DEF T

(* Nothing adds up to zero. *)
LEMMA SumEmpty ==
  ASSUME NEW f
  PROVE  SumFunctionOnSet(f, {}) = 0
BY SumStep, FS_EmptySet

(* A sum stays among numbers that adding does not lead out of.             *)
LEMMA SumClosed ==
  ASSUME NEW f, NEW S, IsFiniteSet(S),
         NEW C, 0 \in C, \A a, b \in C : a + b \in C, \A x \in S : f[x] \in C
  PROVE  SumFunctionOnSet(f, S) \in C
<1> DEFINE Bad == {n \in Nat : \E s \in SUBSET S : Cardinality(s) = n /\ SumFunctionOnSet(f, s) \notin C}
<1>1. \A s \in SUBSET S : IsFiniteSet(s) /\ Cardinality(s) \in Nat
  BY FS_Subset, FS_CardinalityType
<1>2. SUFFICES ASSUME Bad # {}  PROVE FALSE
  BY <1>1
<1>3. PICK m \in Bad : \A k \in Bad : m <= k
  <2>1. Bad \in SUBSET Nat
    OBVIOUS
  <2> HIDE DEF Bad
  <2> QED BY <1>2, <2>1, LeastNatural
<1>4. PICK s \in SUBSET S : Cardinality(s) = m /\ SumFunctionOnSet(f, s) \notin C
  OBVIOUS
<1>5. s # {}
  BY <1>4, SumEmpty
<1> DEFINE t == s \ {Pick(s)}
<1>6. t \in SUBSET S /\ Cardinality(t) = m - 1 /\ m \in Nat \ {0} /\ Pick(s) \in S
  BY <1>1, <1>4, <1>5, PickOne
<1>7. m - 1 \notin Bad /\ m - 1 \in Nat
  <2> HIDE DEF Bad
  <2>1. ~(m <= m - 1) /\ m - 1 \in Nat
    BY <1>6
  <2> QED BY <1>3, <2>1
<1>8. SumFunctionOnSet(f, t) \in C
  BY <1>6, <1>7
<1>9. SumFunctionOnSet(f, s) = f[Pick(s)] + SumFunctionOnSet(f, t)
  BY <1>1, <1>5, SumStep
<1> QED BY <1>4, <1>6, <1>8, <1>9

(* Integers add up to an integer. *)
LEMMA SumInt ==
  ASSUME NEW f, NEW S, IsFiniteSet(S), \A x \in S : f[x] \in Int
  PROVE  SumFunctionOnSet(f, S) \in Int
<1>1. 0 \in Int /\ \A a, b \in Int : a + b \in Int
  OBVIOUS
<1> QED BY <1>1, SumClosed

(* The order does not matter: any element can be the one taken.            *)
LEMMA SumTake ==
  ASSUME NEW f, NEW S, IsFiniteSet(S), \A x \in S : f[x] \in Int, NEW a \in S
  PROVE  SumFunctionOnSet(f, S) = f[a] + SumFunctionOnSet(f, S \ {a})
<1> DEFINE Sum(s) == SumFunctionOnSet(f, s)
           Fails(s) == \E x \in s : Sum(s) # f[x] + Sum(s \ {x})
           Bad == {n \in Nat : \E s \in SUBSET S : Cardinality(s) = n /\ Fails(s)}
<1>1. \A s \in SUBSET S : IsFiniteSet(s) /\ Cardinality(s) \in Nat
  BY FS_Subset, FS_CardinalityType
<1>2. SUFFICES ASSUME Bad # {}  PROVE FALSE
  <2>1. S \in SUBSET S /\ Cardinality(S) \in Nat
    BY <1>1
  <2> QED BY <2>1
<1>3. PICK m \in Bad : \A k \in Bad : m <= k
  <2>1. Bad \in SUBSET Nat
    OBVIOUS
  <2> HIDE DEF Bad
  <2> QED BY <1>2, <2>1, LeastNatural
<1>4. PICK s \in SUBSET S : Cardinality(s) = m /\ Fails(s)
  OBVIOUS
<1>5. PICK x \in s : Sum(s) # f[x] + Sum(s \ {x})
  BY <1>4
<1> DEFINE p == Pick(s)
<1>6. /\ p \in s /\ p \in S /\ x \in S /\ IsFiniteSet(s)
      /\ Cardinality(s \ {p}) = m - 1 /\ m \in Nat \ {0}
  BY <1>1, <1>4, <1>5, PickOne
<1>7. Sum(s) = f[p] + Sum(s \ {p})
  BY <1>1, <1>5, SumStep
<1>8. x # p
  BY <1>5, <1>7
<1>9. m - 1 \notin Bad /\ m - 1 \in Nat
  <2> HIDE DEF Bad
  <2>1. ~(m <= m - 1) /\ m - 1 \in Nat
    BY <1>6
  <2> QED BY <1>3, <2>1
<1> DEFINE u == s \ {p}
           v == s \ {x}
           w == s \ {p, x}
<1>10. ~Fails(u) /\ u \in SUBSET S /\ v \in SUBSET S /\ w \in SUBSET S
  BY <1>6, <1>9
<1>11. x \in u /\ u \ {x} = w /\ p \in v /\ v \ {p} = w
  BY <1>5, <1>6, <1>8
<1>12. Sum(u) = f[x] + Sum(w)
  BY <1>10, <1>11
<1>13. Cardinality(v) = Cardinality(u)
  BY <1>5, <1>6, FS_RemoveElement
<1>14. ~Fails(v)
  <2>1. Cardinality(v) = m - 1
    BY <1>6, <1>13
  <2> QED BY <1>9, <1>10, <2>1
<1>15. Sum(v) = f[p] + Sum(w)
  BY <1>11, <1>14
<1>16. Sum(w) \in Int /\ f[p] \in Int /\ f[x] \in Int
  BY <1>1, <1>6, <1>10, SumInt
<1>17. Sum(s) = f[p] + (f[x] + Sum(w)) /\ Sum(s) # f[x] + (f[p] + Sum(w))
  BY <1>5, <1>7, <1>12, <1>15
<1> HIDE DEF Sum, p, w
<1> QED BY <1>16, <1>17

(* Only the values on the set count. *)
LEMMA SumSame ==
  ASSUME NEW f, NEW g, NEW S, IsFiniteSet(S), \A x \in S : f[x] = g[x]
  PROVE  SumFunctionOnSet(f, S) = SumFunctionOnSet(g, S)
<1> DEFINE Differ(s) == SumFunctionOnSet(f, s) # SumFunctionOnSet(g, s)
           Bad == {n \in Nat : \E s \in SUBSET S : Cardinality(s) = n /\ Differ(s)}
<1>1. \A s \in SUBSET S : IsFiniteSet(s) /\ Cardinality(s) \in Nat
  BY FS_Subset, FS_CardinalityType
<1>2. SUFFICES ASSUME Bad # {}  PROVE FALSE
  <2>1. S \in SUBSET S /\ Cardinality(S) \in Nat
    BY <1>1
  <2> QED BY <2>1
<1>3. PICK m \in Bad : \A k \in Bad : m <= k
  <2>1. Bad \in SUBSET Nat
    OBVIOUS
  <2> HIDE DEF Bad
  <2> QED BY <1>2, <2>1, LeastNatural
<1>4. PICK s \in SUBSET S : Cardinality(s) = m /\ Differ(s)
  OBVIOUS
<1>5. s # {}
  BY <1>4, SumEmpty
<1> DEFINE t == s \ {Pick(s)}
<1>6. t \in SUBSET S /\ Cardinality(t) = m - 1 /\ m \in Nat \ {0} /\ Pick(s) \in S
  BY <1>1, <1>4, <1>5, PickOne
<1>7. m - 1 \notin Bad /\ m - 1 \in Nat
  <2> HIDE DEF Bad
  <2>1. ~(m <= m - 1) /\ m - 1 \in Nat
    BY <1>6
  <2> QED BY <1>3, <2>1
<1>8. ~Differ(t)
  BY <1>6, <1>7
<1>9. /\ SumFunctionOnSet(f, s) = f[Pick(s)] + SumFunctionOnSet(f, t)
      /\ SumFunctionOnSet(g, s) = g[Pick(s)] + SumFunctionOnSet(g, t)
  BY <1>1, <1>5, SumStep
<1> QED BY <1>4, <1>6, <1>8, <1>9

(* Terms of one sign add up to a number of that sign. *)
LEMMA SumSign ==
  ASSUME NEW f, NEW S, IsFiniteSet(S)
  PROVE  /\ (\A x \in S : f[x] \in Nat) => SumFunctionOnSet(f, S) \in Nat
         /\ (\A x \in S : f[x] \in Int /\ f[x] <= 0) =>
              SumFunctionOnSet(f, S) \in Int /\ SumFunctionOnSet(f, S) <= 0
<1>1. 0 \in Nat /\ \A a, b \in Nat : a + b \in Nat
  OBVIOUS
<1>2. ASSUME \A x \in S : f[x] \in Nat
      PROVE  SumFunctionOnSet(f, S) \in Nat
  BY <1>1, <1>2, SumClosed
<1> DEFINE C == {n \in Int : n <= 0}
<1>3. 0 \in C /\ \A a, b \in C : a + b \in C
  OBVIOUS
<1>4. ASSUME \A x \in S : f[x] \in Int /\ f[x] <= 0
      PROVE  SumFunctionOnSet(f, S) \in C
  <2>1. \A x \in S : f[x] \in C
    BY <1>4
  <2> HIDE DEF C
  <2> QED BY <1>3, <2>1, SumClosed
<1> QED BY <1>2, <1>4

(* One more term. *)
LEMMA SumAdds ==
  ASSUME NEW f, NEW g, NEW S, NEW a, IsFiniteSet(S), a \notin S,
         \A x \in S : f[x] \in Int /\ g[x] = f[x], g[a] \in Int
  PROVE  /\ SumFunctionOnSet(g, S \cup {a}) = SumFunctionOnSet(f, S) + g[a]
         /\ SumFunctionOnSet(f, S) \in Int
<1> DEFINE T == S \cup {a}
<1>1. IsFiniteSet(T) /\ a \in T /\ T \ {a} = S /\ \A x \in T : g[x] \in Int
  BY FS_AddElement
<1> HIDE DEF T
<1>2. SumFunctionOnSet(g, T) = g[a] + SumFunctionOnSet(g, S)
  BY <1>1, SumTake
<1>3. SumFunctionOnSet(g, S) = SumFunctionOnSet(f, S)
  BY SumSame
<1>4. SumFunctionOnSet(f, S) \in Int
  BY SumInt
<1> QED BY <1>2, <1>3, <1>4 DEF T

(* One term of a sum may change. *)
ChangesAt(f, g, S, a) ==
  /\ a \in S /\ IsFiniteSet(S)
  /\ \A x \in S : f[x] \in Int /\ (x # a => g[x] = f[x])
  /\ g[a] \in Int

(* Without the term, and with it changed. *)
LEMMA SumMoves ==
  ASSUME NEW f, NEW g, NEW S, NEW a, ChangesAt(f, g, S, a)
  PROVE  /\ SumFunctionOnSet(g, S \ {a}) = SumFunctionOnSet(f, S) - f[a]
         /\ SumFunctionOnSet(g, S) = SumFunctionOnSet(f, S) - f[a] + g[a]
         /\ SumFunctionOnSet(f, S) \in Int
<1>0. /\ a \in S /\ IsFiniteSet(S) /\ g[a] \in Int
      /\ \A x \in S : f[x] \in Int /\ (x # a => g[x] = f[x])
  BY DEF ChangesAt
<1> DEFINE T == S \ {a}
<1>1. IsFiniteSet(T) /\ \A x \in T : x \in S /\ x # a
  BY <1>0, FS_Subset
<1>2. SumFunctionOnSet(f, S) = f[a] + SumFunctionOnSet(f, T)
  BY <1>0, SumTake
<1>3. \A x \in S : g[x] \in Int
  BY <1>0
<1>4. SumFunctionOnSet(g, S) = g[a] + SumFunctionOnSet(g, T)
  BY <1>0, <1>3, SumTake
<1> HIDE DEF T
<1>5. SumFunctionOnSet(g, T) = SumFunctionOnSet(f, T)
  BY <1>0, <1>1, SumSame
<1>6. SumFunctionOnSet(f, T) \in Int
  BY <1>0, <1>1, SumInt
<1>7. SumFunctionOnSet(f, S) \in Int /\ f[a] \in Int
  BY <1>0, SumInt
<1> QED BY <1>0, <1>2, <1>4, <1>5, <1>6, <1>7 DEF T

(* The sum over two sets with nothing in common. *)
LEMMA SumUnion ==
  ASSUME NEW f, NEW S, NEW T, IsFiniteSet(S), IsFiniteSet(T), S \cap T = {},
         \A x \in S \cup T : f[x] \in Int
  PROVE  SumFunctionOnSet(f, S \cup T) = SumFunctionOnSet(f, S) + SumFunctionOnSet(f, T)
<1> DEFINE Sum(s) == SumFunctionOnSet(f, s)
           Fails(s) == Sum(S \cup s) # Sum(S) + Sum(s)
           Bad == {n \in Nat : \E s \in SUBSET T : Cardinality(s) = n /\ Fails(s)}
<1>1. \A s \in SUBSET T : IsFiniteSet(s) /\ Cardinality(s) \in Nat /\ IsFiniteSet(S \cup s)
  BY FS_Subset, FS_CardinalityType, FS_Union
<1>2. SUFFICES ASSUME Bad # {}  PROVE FALSE
  <2>1. T \in SUBSET T /\ Cardinality(T) \in Nat
    BY <1>1
  <2> QED BY <2>1
<1>3. PICK m \in Bad : \A k \in Bad : m <= k
  <2>1. Bad \in SUBSET Nat
    OBVIOUS
  <2> HIDE DEF Bad
  <2> QED BY <1>2, <2>1, LeastNatural
<1>4. PICK s \in SUBSET T : Cardinality(s) = m /\ Fails(s)
  OBVIOUS
<1>5. Sum(S) \in Int /\ \A u \in SUBSET T : Sum(u) \in Int
  BY <1>1, SumInt
<1>6. s # {}
  <2>1. S \cup {} = S /\ Sum({}) = 0
    BY SumEmpty
  <2>2. ~Fails({})
    BY <1>5, <2>1
  <2> QED BY <1>4, <2>2
<1> DEFINE a == Pick(s)
           t == s \ {a}
<1>7. /\ a \in s /\ t \in SUBSET T /\ Cardinality(t) = m - 1 /\ m \in Nat \ {0}
      /\ a \in S \cup s /\ (S \cup s) \ {a} = S \cup t
  BY <1>1, <1>4, <1>6, PickOne
<1>8. m - 1 \notin Bad /\ m - 1 \in Nat
  <2> HIDE DEF Bad
  <2>1. ~(m <= m - 1) /\ m - 1 \in Nat
    BY <1>7
  <2> QED BY <1>3, <2>1
<1>9. Sum(S \cup t) = Sum(S) + Sum(t)
  BY <1>7, <1>8
<1>10. Sum(s) = f[a] + Sum(t)
  <2>1. IsFiniteSet(s) /\ \A x \in s : f[x] \in Int
    BY <1>1
  <2> QED BY <1>7, <2>1, SumTake
<1>11. Sum(S \cup s) = f[a] + Sum(S \cup t)
  <2>1. IsFiniteSet(S \cup s) /\ \A x \in S \cup s : f[x] \in Int
    BY <1>1
  <2>2. Sum(S \cup s) = f[a] + Sum((S \cup s) \ {a})
    BY <1>7, <2>1, SumTake
  <2> QED BY <1>7, <2>2
<1>12. f[a] \in Int /\ Sum(S) \in Int /\ Sum(t) \in Int /\ Sum(S \cup s) # Sum(S) + Sum(s)
  BY <1>4, <1>5, <1>7
<1> HIDE DEF Sum, a, t
<1> QED BY <1>9, <1>10, <1>11, <1>12

(* A sum over a set is the sum over its image under a one-to-one map. *)
LEMMA SumReindex ==
  ASSUME NEW f, NEW g, NEW S, NEW T, NEW h \in Bijection(S, T), IsFiniteSet(S),
         \A x \in S : g[x] \in Int /\ g[x] = f[h[x]]
  PROVE  SumFunctionOnSet(g, S) = SumFunctionOnSet(f, T) /\ IsFiniteSet(T)
<1> DEFINE Im(s) == {h[x] : x \in s}
           Differ(s) == SumFunctionOnSet(g, s) # SumFunctionOnSet(f, Im(s))
           Bad == {n \in Nat : \E s \in SUBSET S : Cardinality(s) = n /\ Differ(s)}
<1>1. \A s \in SUBSET S : IsFiniteSet(s) /\ Cardinality(s) \in Nat
  BY FS_Subset, FS_CardinalityType
<1>2. /\ h \in [S -> T] /\ \A x, y \in S : h[x] = h[y] => x = y
      /\ \A t \in T : \E x \in S : h[x] = t
  BY DEF Bijection, Injection, Surjection, IsInjective
<1>3. IsFiniteSet(T)
  <2>1. h \in Surjection(S, T)
    BY DEF Bijection
  <2> QED BY <2>1, FS_Surjection
<1>4. \A s \in SUBSET S : Im(s) \in SUBSET T /\ IsFiniteSet(Im(s)) /\ \A y \in Im(s) : f[y] \in Int
  <2>1. \A s \in SUBSET S : Im(s) \in SUBSET T /\ \A y \in Im(s) : f[y] \in Int
    BY <1>2
  <2> HIDE DEF Im
  <2> QED BY <1>3, <2>1, FS_Subset
<1>5. Im(S) = T
  BY <1>2
<1>6. SUFFICES ASSUME Bad # {}  PROVE FALSE
  <2>1. S \in SUBSET S /\ Cardinality(S) \in Nat
    BY <1>1
  <2> QED BY <1>3, <1>5, <2>1
<1>7. PICK m \in Bad : \A k \in Bad : m <= k
  <2>1. Bad \in SUBSET Nat
    OBVIOUS
  <2> HIDE DEF Bad
  <2> QED BY <1>6, <2>1, LeastNatural
<1>8. PICK s \in SUBSET S : Cardinality(s) = m /\ Differ(s)
  OBVIOUS
<1>9. s # {}
  <2>1. Im({}) = {}
    OBVIOUS
  <2> QED BY <1>8, <2>1, SumEmpty
<1> DEFINE a == Pick(s)
           t == s \ {a}
<1>10. t \in SUBSET S /\ Cardinality(t) = m - 1 /\ m \in Nat \ {0} /\ a \in s /\ a \in S
  BY <1>1, <1>8, <1>9, PickOne
<1>11. m - 1 \notin Bad /\ m - 1 \in Nat
  <2> HIDE DEF Bad
  <2>1. ~(m <= m - 1) /\ m - 1 \in Nat
    BY <1>10
  <2> QED BY <1>7, <2>1
<1>12. ~ Differ(t)
  BY <1>10, <1>11
<1>13. SumFunctionOnSet(g, s) = g[a] + SumFunctionOnSet(g, t)
  BY <1>1, <1>9, SumStep
<1>14. h[a] \in Im(s) /\ Im(s) \ {h[a]} = Im(t)
  BY <1>2, <1>10
<1>15. SumFunctionOnSet(f, Im(s)) = f[h[a]] + SumFunctionOnSet(f, Im(t))
  <2>1. IsFiniteSet(Im(s)) /\ \A y \in Im(s) : f[y] \in Int
    BY <1>4
  <2>2. SumFunctionOnSet(f, Im(s)) = f[h[a]] + SumFunctionOnSet(f, Im(s) \ {h[a]})
    <3> HIDE DEF Im, a
    <3> QED BY <1>14, <2>1, SumTake
  <2> QED BY <1>14, <2>2
<1> QED BY <1>8, <1>10, <1>12, <1>13, <1>15
=============================================================================
