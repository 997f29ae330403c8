----------------------------- MODULE SumProofs ------------------------------
(***************************************************************************)
(* Sums over finite sets: MapThenSumSet picks the terms in an order of its  *)
(* own, by recursion over the subsets of the set.  That the recursion has a *)
(* solution, and that the order does not matter, follows from a smallest    *)
(* set for which it would not: a family of finite sets has a member that    *)
(* contains no other.                                                       *)
(***************************************************************************)
EXTENDS Integers, FiniteSets, FiniteSetsExt, FiniteSetTheorems, WellFoundedInduction, TLAPS

(* The sum of the values of the function g over the set S. *)
Sums(g, S) == MapThenSumSet(LAMBDA x : g[x], S)

(* The value a sum over s has, given the sums over smaller sets. *)
SumStep(g, h, s) ==
  IF s = {} THEN 0 ELSE LET x == CHOOSE y \in s : TRUE IN g[x] + h[s \ {x}]

(* The function MapThenFoldSet chooses: every subset's sum. *)
SumFcn(g, S) == CHOOSE h : h = [s \in SUBSET S |-> SumStep(g, h, s)]

(* The sum is the chosen function at the whole set. *)
LEMMA SumIsFcn ==
  ASSUME NEW g, NEW S
  PROVE  Sums(g, S) = SumFcn(g, S)[S]
BY DEF Sums, SumFcn, SumStep, MapThenSumSet, MapThenFoldSet

(* A nonempty family of subsets of a finite set has a smallest member. *)
LEMMA LeastSet ==
  ASSUME NEW S, IsFiniteSet(S), NEW F, F \subseteq SUBSET S, F # {}
  PROVE  \E s \in F : \A t \in F : t \subseteq s => t = s
<1>1. F \subseteq FiniteSubsetsOf(S)
  BY FS_Subset DEF FiniteSubsetsOf
<1>2. \E s \in F : \A t \in F : ~ (<<t, s>> \in StrictSubsetOrdering(S))
  BY <1>1, WFMin, FS_StrictSubsetOrderingWellFounded
<1> QED
  BY <1>2 DEF StrictSubsetOrdering

(* A nonempty set of bounded naturals has a least element. *)
LEMMA LeastNatural ==
  ASSUME NEW N \in Nat, NEW T \in SUBSET (0 .. N), T # {}
  PROVE  \E n \in T : \A m \in T : n <= m
<1> DEFINE R == { 1 .. n : n \in T }
<1>1. R \in SUBSET (SUBSET (1 .. N)) /\ R # {}
  <2>1. \A n \in T : n \in Nat /\ n <= N
    OBVIOUS
  <2>2. \A n \in T : 1 .. n \in SUBSET (1 .. N)
    BY <2>1
  <2> QED
    BY <2>2
<1>2. IsFiniteSet(1 .. N)
  BY FS_Interval
<1> DEFINE I == 1 .. N
<1> HIDE DEF R, I
<1>3. PICK s \in R : \A t \in R : t \subseteq s => t = s
  <2>1. R \subseteq SUBSET I /\ R # {} /\ IsFiniteSet(I)
    BY <1>1, <1>2 DEF I
  <2> QED
    BY <2>1, LeastSet
<1> USE DEF R
<1>4. PICK n \in T : s = 1 .. n
  BY <1>3
<1>5. ASSUME NEW m \in T, m < n PROVE FALSE
  <2>1. 1 .. m \subseteq 1 .. n /\ 1 .. m # 1 .. n
    BY <1>5
  <2> QED
    BY <2>1, <1>3, <1>4
<1> QED
  BY <1>4, <1>5

(* A finite set without one of its elements. *)
LEMMA Without ==
  ASSUME NEW s, NEW x \in s, IsFiniteSet(s)
  PROVE  /\ IsFiniteSet(s \ {x}) /\ Cardinality(s \ {x}) = Cardinality(s) - 1
         /\ Cardinality(s) \in Nat /\ Cardinality(s) > 0 /\ Cardinality(s \ {x}) \in Nat
<1>1. Cardinality(s \ {x}) = Cardinality(s) - 1 /\ IsFiniteSet(s \ {x})
  BY FS_RemoveElement
<1>2. Cardinality(s) \in Nat /\ Cardinality(s \ {x}) \in Nat
  BY <1>1, FS_CardinalityType
<1> QED
  BY <1>1, <1>2

(* The recursion has a solution: it does for sets of up to n elements, for every n. *)
LEMMA SumFcnExists ==
  ASSUME NEW g, NEW S, IsFiniteSet(S)
  PROVE  \E h : h = [s \in SUBSET S |-> SumStep(g, h, s)]
<1> DEFINE N == Cardinality(S)
           D(n) == { s \in SUBSET S : Cardinality(s) <= n }
           Good(n) == \E h : h = [s \in D(n) |-> SumStep(g, h, s)]
           Bad == { n \in 0 .. N : ~ Good(n) }
<1>1. N \in Nat /\ \A s \in SUBSET S : IsFiniteSet(s) /\ Cardinality(s) \in Nat /\ Cardinality(s) <= N
  BY FS_CardinalityType, FS_Subset
<1>2. D(N) = SUBSET S
  BY <1>1
<1>3. Good(0)
  <2>1. D(0) = {{}}
    BY <1>1, FS_EmptySet
  <2>2. [s \in D(0) |-> 0] = [s \in D(0) |-> SumStep(g, [t \in D(0) |-> 0], s)]
    BY <2>1 DEF SumStep
  <2> QED
    BY <2>2
<1>4. ASSUME NEW n \in Nat \ {0}, Good(n - 1) PROVE Good(n)
  <2>1. PICK h : h = [s \in D(n - 1) |-> SumStep(g, h, s)]
    BY <1>4
  <2> DEFINE k == [s \in D(n) |-> SumStep(g, h, s)]
  <2>2. ASSUME NEW s \in D(n), s # {} PROVE SumStep(g, h, s) = SumStep(g, k, s)
    <3> DEFINE c == CHOOSE y \in s : TRUE
    <3>1. c \in s
      BY <2>2
    <3>2. s \ {c} \in D(n - 1) /\ s \ {c} \in D(n)
      <4>1. IsFiniteSet(s) /\ Cardinality(s) <= n /\ s \in SUBSET S
        BY <1>1
      <4>2. Cardinality(s \ {c}) = Cardinality(s) - 1 /\ Cardinality(s) \in Nat /\ Cardinality(s \ {c}) \in Nat
        BY <4>1, <3>1, Without
      <4>3. s \ {c} \in SUBSET S
        BY <4>1
      <4> QED
        BY <4>1, <4>2, <4>3
    <3>3. h[s \ {c}] = SumStep(g, h, s \ {c}) /\ k[s \ {c}] = SumStep(g, h, s \ {c})
      BY <3>2, <2>1
    <3> QED
      BY <3>3 DEF SumStep
  <2>3. \A s \in D(n) : SumStep(g, h, s) = SumStep(g, k, s)
    BY <2>2 DEF SumStep
  <2>4. k = [s \in D(n) |-> SumStep(g, k, s)]
    BY <2>3
  <2> QED
    BY <2>4
<1>5. Bad = {}
  <2> SUFFICES ASSUME Bad # {} PROVE FALSE
    OBVIOUS
  <2>1. Bad \in SUBSET (0 .. N)
    OBVIOUS
  <2> HIDE DEF Bad
  <2>2. PICK n \in Bad : \A m \in Bad : n <= m
    BY <2>1, <1>1, LeastNatural
  <2> USE DEF Bad
  <2> HIDE DEF Good
  <2>3. n \in 0 .. N /\ ~ Good(n) /\ n # 0
    BY <1>3
  <2>4. n - 1 \in 0 .. N /\ n - 1 \notin Bad /\ n \in Nat \ {0}
    BY <2>1, <2>2, <2>3, <1>1
  <2> QED
    BY <2>3, <2>4, <1>4
<1> HIDE DEF Good, D
<1>6. Good(N)
  BY <1>5, <1>1
<1> QED
  BY <1>6, <1>2 DEF Good

(* So the chosen function satisfies it. *)
LEMMA SumFcnIs ==
  ASSUME NEW g, NEW S, IsFiniteSet(S), NEW s \in SUBSET S
  PROVE  SumFcn(g, S)[s] = SumStep(g, SumFcn(g, S), s)
<1> DEFINE h == SumFcn(g, S)
<1>1. h = [t \in SUBSET S |-> SumStep(g, h, t)]
  BY SumFcnExists DEF SumFcn
<1> HIDE DEF h
<1>2. h[s] = SumStep(g, h, s)
  BY <1>1
<1> QED
  BY <1>2 DEF h

(* Whichever element is taken first, the rest sums to the same. *)
LEMMA SumAnyFirst ==
  ASSUME NEW g, NEW S, IsFiniteSet(S), \A x \in S : g[x] \in Int
  PROVE  \A s \in SUBSET S : /\ SumFcn(g, S)[s] \in Int
                             /\ \A x \in s : SumFcn(g, S)[s] = g[x] + SumFcn(g, S)[s \ {x}]
<1> DEFINE h == SumFcn(g, S)
           Good(s) == h[s] \in Int /\ \A x \in s : h[s] = g[x] + h[s \ {x}]
           Bad == { s \in SUBSET S : ~ Good(s) }
<1>1. \A s \in SUBSET S : h[s] = SumStep(g, h, s)
  BY SumFcnIs
<1> HIDE DEF h
<1> SUFFICES ASSUME Bad # {} PROVE FALSE
  BY DEF h
<1>2. Bad \subseteq SUBSET S
  OBVIOUS
<1> HIDE DEF Bad
<1>3. PICK s \in Bad : \A t \in Bad : t \subseteq s => t = s
  BY <1>2, LeastSet
<1> USE DEF Bad
<1>4. s \in SUBSET S /\ ~ Good(s)
  OBVIOUS
<1>5. \A x \in s : Good(s \ {x})
  BY <1>3, <1>4
<1>6. s # {}
  BY <1>1, <1>4 DEF SumStep
<1> DEFINE c == CHOOSE y \in s : TRUE
<1>7. c \in s /\ h[s] = g[c] + h[s \ {c}]
  BY <1>1, <1>4, <1>6 DEF SumStep
<1> HIDE DEF c
<1>8. \A x \in s : g[x] \in Int /\ h[s \ {x}] \in Int
  BY <1>4, <1>5
<1>9. ASSUME NEW x \in s PROVE h[s] = g[x] + h[s \ {x}]
  <2>1. CASE x = c
    BY <2>1, <1>7
  <2>2. CASE x # c
    <3>1. h[s \ {c}] = g[x] + h[(s \ {c}) \ {x}]
      BY <2>2, <1>5, <1>7
    <3>2. h[s \ {x}] = g[c] + h[(s \ {x}) \ {c}]
      BY <2>2, <1>5, <1>7
    <3>3. (s \ {c}) \ {x} = (s \ {x}) \ {c}
      OBVIOUS
    <3>4. h[(s \ {c}) \ {x}] \in Int
      <4>1. (s \ {c}) \ {x} \in SUBSET S /\ (s \ {c}) \ {x} \notin Bad
        BY <1>3, <1>4, <1>7
      <4> QED
        BY <4>1
    <3>5. PICK r : r = h[(s \ {c}) \ {x}]
      OBVIOUS
    <3>6. r \in Int /\ g[x] \in Int /\ g[c] \in Int
      BY <3>4, <3>5, <1>7, <1>8
    <3>7. h[s] = g[c] + (g[x] + r) /\ h[s \ {x}] = g[c] + r
      BY <3>1, <3>2, <3>3, <3>5, <1>7
    <3> HIDE DEF Good, Bad
    <3> QED
      BY <3>6, <3>7
  <2> QED
    BY <2>1, <2>2
<1>10. h[s] \in Int
  BY <1>7, <1>8
<1> QED
  BY <1>4, <1>9, <1>10

(* Natural terms have natural sums. *)
LEMMA SumFcnNat ==
  ASSUME NEW g, NEW S, IsFiniteSet(S), \A x \in S : g[x] \in Nat
  PROVE  \A s \in SUBSET S : SumFcn(g, S)[s] \in Nat
<1> DEFINE h == SumFcn(g, S)
           Bad == { s \in SUBSET S : h[s] \notin Nat }
<1>1. \A s \in SUBSET S : h[s] = SumStep(g, h, s)
  BY SumFcnIs
<1> HIDE DEF h
<1> SUFFICES ASSUME Bad # {} PROVE FALSE
  BY DEF h
<1>2. Bad \subseteq SUBSET S
  OBVIOUS
<1> HIDE DEF Bad
<1>3. PICK s \in Bad : \A t \in Bad : t \subseteq s => t = s
  BY <1>2, LeastSet
<1> USE DEF Bad
<1>4. s \in SUBSET S /\ h[s] \notin Nat
  OBVIOUS
<1>5. s # {}
  BY <1>1, <1>4 DEF SumStep
<1> DEFINE c == CHOOSE y \in s : TRUE
<1>6. c \in s /\ h[s] = g[c] + h[s \ {c}]
  BY <1>1, <1>4, <1>5 DEF SumStep
<1> HIDE DEF c
<1>7. h[s \ {c}] \in Nat
  BY <1>3, <1>4, <1>6
<1> QED
  BY <1>4, <1>6, <1>7

(* The sum looks at no term outside its set. *)
LEMMA SumFcnSame ==
  ASSUME NEW g, NEW k, NEW S, NEW R, IsFiniteSet(S), IsFiniteSet(R), R \subseteq S,
         \A x \in R : g[x] = k[x]
  PROVE  SumFcn(g, S)[R] = SumFcn(k, R)[R]
<1> DEFINE h == SumFcn(g, S)
           j == SumFcn(k, R)
           Bad == { s \in SUBSET R : h[s] # j[s] }
<1>1. \A s \in SUBSET R : h[s] = SumStep(g, h, s) /\ j[s] = SumStep(k, j, s)
  BY SumFcnIs
<1> HIDE DEF h, j
<1> SUFFICES ASSUME Bad # {} PROVE FALSE
  BY DEF h, j
<1>2. Bad \subseteq SUBSET R
  OBVIOUS
<1> HIDE DEF Bad
<1>3. PICK s \in Bad : \A t \in Bad : t \subseteq s => t = s
  BY <1>2, LeastSet
<1> USE DEF Bad
<1>4. s \in SUBSET R /\ h[s] # j[s]
  OBVIOUS
<1>5. s # {}
  BY <1>1, <1>4 DEF SumStep
<1> DEFINE c == CHOOSE y \in s : TRUE
<1>6. c \in s /\ h[s] = g[c] + h[s \ {c}] /\ j[s] = k[c] + j[s \ {c}]
  BY <1>1, <1>4, <1>5 DEF SumStep
<1> HIDE DEF c
<1>7. h[s \ {c}] = j[s \ {c}]
  BY <1>3, <1>4, <1>6
<1> QED
  BY <1>4, <1>6, <1>7

-----------------------------------------------------------------------------
(* What the proofs about the components cite: the sum over no terms, *)
LEMMA SumEmpty ==
  ASSUME NEW g
  PROVE  Sums(g, {}) = 0
BY SumIsFcn, SumFcnIs, FS_EmptySet DEF SumStep

(* of integers, *)
LEMMA SumInt ==
  ASSUME NEW g, NEW S, IsFiniteSet(S), \A x \in S : g[x] \in Int
  PROVE  Sums(g, S) \in Int
BY SumIsFcn, SumAnyFirst

(* of naturals, *)
LEMMA SumNat ==
  ASSUME NEW g, NEW S, IsFiniteSet(S), \A x \in S : g[x] \in Nat
  PROVE  Sums(g, S) \in Nat
BY SumIsFcn, SumFcnNat

(* of zeros, *)
LEMMA SumZero ==
  ASSUME NEW g, NEW S, IsFiniteSet(S), \A x \in S : g[x] = 0
  PROVE  Sums(g, S) = 0
<1> DEFINE h == SumFcn(g, S)
           Bad == { s \in SUBSET S : h[s] # 0 }
<1>1. \A s \in SUBSET S : h[s] = SumStep(g, h, s)
  BY SumFcnIs
<1> HIDE DEF h
<1> SUFFICES ASSUME Bad # {} PROVE FALSE
  BY SumIsFcn DEF h
<1>2. Bad \subseteq SUBSET S
  OBVIOUS
<1> HIDE DEF Bad
<1>3. PICK s \in Bad : \A t \in Bad : t \subseteq s => t = s
  BY <1>2, LeastSet
<1> USE DEF Bad
<1>4. s \in SUBSET S /\ h[s] # 0
  OBVIOUS
<1>5. s # {}
  BY <1>1, <1>4 DEF SumStep
<1> DEFINE c == CHOOSE y \in s : TRUE
<1>6. c \in s /\ h[s] = g[c] + h[s \ {c}]
  BY <1>1, <1>4, <1>5 DEF SumStep
<1> HIDE DEF c
<1>7. h[s \ {c}] = 0
  BY <1>3, <1>4, <1>6
<1> QED
  BY <1>4, <1>6, <1>7

(* of the same terms, *)
LEMMA SumAgree ==
  ASSUME NEW g, NEW k, NEW S, IsFiniteSet(S), \A x \in S : g[x] = k[x]
  PROVE  Sums(g, S) = Sums(k, S)
BY SumIsFcn, SumFcnSame

(* and with one term taken out. *)
LEMMA SumWithout ==
  ASSUME NEW g, NEW S, IsFiniteSet(S), \A x \in S : g[x] \in Int, NEW y \in S
  PROVE  Sums(g, S) = g[y] + Sums(g, S \ {y})
<1>1. SumFcn(g, S)[S] = g[y] + SumFcn(g, S)[S \ {y}]
  BY SumAnyFirst
<1>2. SumFcn(g, S)[S \ {y}] = SumFcn(g, S \ {y})[S \ {y}]
  BY SumFcnSame, Without
<1> QED
  BY <1>1, <1>2, SumIsFcn

(* One term changes, and the sum by as much. *)
LEMMA SumUpdate ==
  ASSUME NEW g, NEW k, NEW S, IsFiniteSet(S), NEW y \in S,
         \A x \in S : g[x] \in Int /\ k[x] \in Int,
         \A x \in S \ {y} : g[x] = k[x]
  PROVE  Sums(k, S) = Sums(g, S) - g[y] + k[y]
<1>1. Sums(g, S) = g[y] + Sums(g, S \ {y}) /\ Sums(k, S) = k[y] + Sums(k, S \ {y})
  BY SumWithout
<1>2. Sums(g, S \ {y}) = Sums(k, S \ {y}) /\ Sums(g, S \ {y}) \in Int
  BY SumAgree, SumInt, Without
<1> QED
  BY <1>1, <1>2
=============================================================================
