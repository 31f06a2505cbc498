---------------------------- MODULE FoldTheorems ----------------------------
(***************************************************************************)
(* Induction and recursion in a form the provers can use: over sets of     *)
(* numbers and over sets of sets, instead of over predicates.  From them   *)
(* follow the facts about the sums of Functions that the proofs of the     *)
(* other modules rest on.                                                  *)
(***************************************************************************)
EXTENDS Integers, FiniteSets, Functions, Sequences, FiniteSetTheorems,
        SequenceTheorems, TLAPS

\* A set of natural numbers that is not empty has a least element: among the
\* intervals that start at zero and end in the set, one is minimal.
LEMMA LeastElement ==
  ASSUME NEW S \in SUBSET Nat, S # {}
  PROVE  \E n \in S : \A k \in S : n <= k
<1> DEFINE T == { 0..k : k \in S }
<1>1. T \subseteq FiniteSubsetsOf(Nat) /\ T # {}
  <2>1. \A k \in S : 0..k \in SUBSET Nat /\ IsFiniteSet(0..k)
    BY FS_Interval
  <2> QED
    BY <2>1 DEF FiniteSubsetsOf
<1>2. \E x \in T : \A y \in T : ~ (<< y, x >> \in StrictSubsetOrdering(Nat))
  <2> HIDE DEF T
  <2> QED
    BY <1>1, FS_StrictSubsetOrderingWellFounded, WFMin
<1>3. PICK n \in S :
        \A y \in T : ~ (<< y, 0..n >> \in StrictSubsetOrdering(Nat))
  BY <1>2
<1>4. ASSUME NEW k \in S, k < n
      PROVE  FALSE
  <2>1. ~ (<< 0..k, 0..n >> \in StrictSubsetOrdering(Nat))
    BY <1>3
  <2>2. 0..k \subseteq 0..n /\ 0..n \subseteq Nat /\ n \in 0..n /\ n \notin 0..k
    BY <1>4
  <2> QED
    BY <2>1, <2>2 DEF StrictSubsetOrdering
<1> QED
  BY <1>4

\* Induction over the natural numbers, for a set of them.
LEMMA InductiveSet ==
  ASSUME NEW P, 0 \in P, \A n \in Nat : n \in P => n + 1 \in P
  PROVE  \A n \in Nat : n \in P
<1> DEFINE Bad == Nat \ P
<1>1. SUFFICES ASSUME Bad # {}
               PROVE  FALSE
  OBVIOUS
<1>2. PICK n \in Bad : \A k \in Bad : n <= k
  BY <1>1, LeastElement
<1>3. n - 1 \in Nat /\ n - 1 \notin Bad
  BY <1>2
<1> QED
  BY <1>2, <1>3

\* Among some subsets of a finite set there is one of which no smaller one is
\* among them: what holds of it but not of less is refuted by this.
LEMMA MinimalSubset ==
  ASSUME NEW S, IsFiniteSet(S), NEW Q \in SUBSET SUBSET S, Q # {}
  PROVE  \E T \in Q : \A x \in T : T \ {x} \notin Q
<1>1. Q \subseteq FiniteSubsetsOf(S)
  BY FS_FiniteSubsetsOfFinite
<1>2. PICK T \in Q : \A y \in Q : ~ (<< y, T >> \in StrictSubsetOrdering(S))
  BY <1>1, FS_StrictSubsetOrderingWellFounded, WFMin
<1>3. ASSUME NEW x \in T, T \ {x} \in Q
      PROVE  FALSE
  BY <1>2, <1>3 DEF StrictSubsetOrdering
<1> QED
  BY <1>2, <1>3

\* g is defined on the subsets of S by a recursion that takes out the element
\* pick names; Step gets the value of the rest, and the element.
Recursion(S, A, base, pick, Step, g) ==
  /\ g \in [SUBSET S -> A]
  /\ \A s \in SUBSET S :
       g[s] = IF s = {} THEN base ELSE Step[<< g[s \ {pick[s]}], pick[s] >>]

\* There is a function that such a recursion on a finite set defines.
LEMMA RecursionDefined ==
  ASSUME NEW S, IsFiniteSet(S), NEW A, NEW base \in A,
         NEW pick, \A s \in SUBSET S : s # {} => pick[s] \in s,
         NEW Step \in [A \X S -> A]
  PROVE  \E g : Recursion(S, A, base, pick, Step, g)
<1> DEFINE Small(n) == { s \in SUBSET S : Cardinality(s) <= n }
           Rec(g, s) == IF s = {} THEN base
                        ELSE Step[<< g[s \ {pick[s]}], pick[s] >>]
           Done == { n \in Nat : \E g \in [Small(n) -> A] :
                                   \A s \in Small(n) : g[s] = Rec(g, s) }
<1>1. \A s \in SUBSET S : IsFiniteSet(s) /\ Cardinality(s) \in Nat
  BY FS_Subset, FS_CardinalityType
<1>2. \A s \in SUBSET S : s # {} =>
        /\ pick[s] \in S /\ s \ {pick[s]} \in SUBSET S
        /\ Cardinality(s \ {pick[s]}) = Cardinality(s) - 1
  BY <1>1, FS_RemoveElement
<1>3. 0 \in Done
  <2> DEFINE g == [s \in Small(0) |-> base]
  <2>1. \A s \in Small(0) : s = {}
    BY <1>1, FS_EmptySet
  <2>2. g \in [Small(0) -> A] /\ \A s \in Small(0) : g[s] = Rec(g, s)
    BY <2>1
  <2> QED
    BY <2>2
<1>4. ASSUME NEW n \in Nat, n \in Done
      PROVE  n + 1 \in Done
  <2>1. PICK g \in [Small(n) -> A] : \A s \in Small(n) : g[s] = Rec(g, s)
    BY <1>4
  <2> DEFINE h == [s \in Small(n + 1) |-> Rec(g, s)]
  <2>2. ASSUME NEW s \in Small(n + 1), s # {}
        PROVE  s \ {pick[s]} \in Small(n) /\ pick[s] \in S
    BY <1>1, <1>2, <2>2
  <2>3. h \in [Small(n + 1) -> A]
    BY <2>2
  <2>4. \A s \in Small(n) : s \in Small(n + 1) /\ h[s] = g[s]
    BY <1>1, <2>1
  <2>5. \A s \in Small(n + 1) : h[s] = Rec(h, s)
    BY <2>2, <2>4
  <2> HIDE DEF h, Small, Rec
  <2> QED
    BY <2>3, <2>5
<1>5. Cardinality(S) \in Done
  <2> HIDE DEF Done
  <2> QED
    BY <1>1, <1>3, <1>4, InductiveSet
<1>6. \A s \in SUBSET S : Cardinality(s) <= Cardinality(S)
  BY FS_Subset
<1>7. Small(Cardinality(S)) = SUBSET S
  BY <1>6
<1> QED
  BY <1>5, <1>7 DEF Recursion

-----------------------------------------------------------------------------
(* Sums *)

\* What SumFunctionOnSet computes with: g has the sums of f over the subsets of
\* S, each taken apart at the element CHOOSE names.
SumSteps(f, S, g) ==
  /\ g \in [SUBSET S -> Int]
  /\ \A s \in SUBSET S :
       g[s] = IF s = {} THEN 0
              ELSE f[CHOOSE x \in s : TRUE] + g[s \ {CHOOSE x \in s : TRUE}]

\* The sums over the subsets of a finite set exist, and the last of them is what
\* SumFunctionOnSet returns.
LEMMA SumComputed ==
  ASSUME NEW S, IsFiniteSet(S), NEW f, \A x \in S : f[x] \in Int
  PROVE  \E g : SumSteps(f, S, g) /\ SumFunctionOnSet(f, S) = g[S]
<1> DEFINE pick == [s \in SUBSET S |-> CHOOSE x \in s : TRUE]
           Step == [p \in Int \X S |-> f[p[2]] + p[1]]
           IsSum(g) == g = [s \in SUBSET S |->
             IF s = {} THEN 0
             ELSE f[CHOOSE x \in s : TRUE] + g[s \ {CHOOSE x \in s : TRUE}]]
<1>1. /\ \A s \in SUBSET S : s # {} => pick[s] \in s /\ pick[s] \in S
      /\ Step \in [Int \X S -> Int]
  OBVIOUS
<1>2. PICK h : Recursion(S, Int, 0, pick, Step, h)
  <2>1. 0 \in Int
    OBVIOUS
  <2>2. \A s \in SUBSET S : s # {} => pick[s] \in s
    BY <1>1
  <2> HIDE DEF pick, Step
  <2> QED
    BY <1>1, <2>1, <2>2, RecursionDefined
<1>3. ASSUME NEW s \in SUBSET S, s # {}
      PROVE  Step[<< h[s \ {pick[s]}], pick[s] >>]
               = f[CHOOSE x \in s : TRUE] + h[s \ {CHOOSE x \in s : TRUE}]
  BY <1>1, <1>2, <1>3 DEF Recursion
<1>4. IsSum(h)
  BY <1>2, <1>3 DEF Recursion
<1>5. IsSum(CHOOSE g : IsSum(g))
  BY <1>4
<1>6. SumFunctionOnSet(f, S) = (CHOOSE g : IsSum(g))[S]
  BY DEF SumFunctionOnSet, FoldFunctionOnSet, MapThenFoldSet
<1>7. ASSUME NEW g, IsSum(g)
      PROVE  SumSteps(f, S, g)
  <2> DEFINE Bad == { s \in SUBSET S : g[s] \notin Int }
  <2>1. \A s \in SUBSET S :
          g[s] = IF s = {} THEN 0
                 ELSE f[CHOOSE x \in s : TRUE] + g[s \ {CHOOSE x \in s : TRUE}]
    BY <1>7
  <2>2. Bad = {}
    <3>1. SUFFICES ASSUME Bad # {}
                   PROVE  FALSE
      OBVIOUS
    <3>2. PICK s \in Bad : \A x \in s : s \ {x} \notin Bad
      BY <3>1, MinimalSubset
    <3>3. s # {}
      <4>1. g[{}] = 0
        BY <2>1
      <4> QED
        BY <3>2, <4>1
    <3>4. (CHOOSE x \in s : TRUE) \in s
      BY <3>3
    <3>5. f[CHOOSE x \in s : TRUE] \in Int /\ g[s \ {CHOOSE x \in s : TRUE}] \in Int
      BY <3>2, <3>4
    <3>6. g[s] = f[CHOOSE x \in s : TRUE] + g[s \ {CHOOSE x \in s : TRUE}]
      BY <2>1, <3>3
    <3>7. g[s] \in Int
      BY <3>5, <3>6
    <3> QED
      BY <3>7
  <2>3. g \in [SUBSET S -> Int]
    BY <1>7, <2>2
  <2> QED
    BY <2>1, <2>3 DEF SumSteps
<1> QED
  BY <1>5, <1>6, <1>7

\* A sum does not depend on the set it is computed within.
LEMMA SumStepsAgree ==
  ASSUME NEW S, IsFiniteSet(S), NEW T \in SUBSET S, NEW f, NEW g, NEW h,
         SumSteps(f, S, g), SumSteps(f, T, h)
  PROVE  \A s \in SUBSET T : g[s] = h[s]
<1> DEFINE Bad == { s \in SUBSET T : g[s] # h[s] }
<1>1. SUFFICES ASSUME Bad # {}
               PROVE  FALSE
  OBVIOUS
<1>2. IsFiniteSet(T)
  BY FS_Subset
<1>3. PICK s \in Bad : \A x \in s : s \ {x} \notin Bad
  BY <1>1, <1>2, MinimalSubset
<1>4. s # {}
  BY DEF SumSteps
<1>5. (CHOOSE x \in s : TRUE) \in s
  BY <1>4
<1>6. g[s \ {CHOOSE x \in s : TRUE}] = h[s \ {CHOOSE x \in s : TRUE}]
  BY <1>3, <1>5
<1> QED
  BY <1>4, <1>6 DEF SumSteps

\* A sum of integers is an integer, and is taken apart at the chosen element.
LEMMA SumChosen ==
  ASSUME NEW S, IsFiniteSet(S), NEW f, \A x \in S : f[x] \in Int
  PROVE  /\ SumFunctionOnSet(f, S) \in Int
         /\ S = {} => SumFunctionOnSet(f, S) = 0
         /\ S # {} =>
              SumFunctionOnSet(f, S)
                = f[CHOOSE x \in S : TRUE]
                    + SumFunctionOnSet(f, S \ {CHOOSE x \in S : TRUE})
<1>1. PICK g : SumSteps(f, S, g) /\ SumFunctionOnSet(f, S) = g[S]
  BY SumComputed
<1>2. S # {} => (CHOOSE x \in S : TRUE) \in S
  OBVIOUS
<1>3. ASSUME NEW T \in SUBSET S
      PROVE  SumFunctionOnSet(f, T) = g[T]
  <2>1. IsFiniteSet(T)
    BY FS_Subset
  <2>2. PICK h : SumSteps(f, T, h) /\ SumFunctionOnSet(f, T) = h[T]
    BY <2>1, SumComputed
  <2> QED
    BY <1>1, <2>2, SumStepsAgree
<1> QED
  BY <1>1, <1>2, <1>3 DEF SumSteps

\* A sum may be taken apart at any element.
LEMMA SumRemove ==
  ASSUME NEW S, IsFiniteSet(S), NEW f, \A x \in S : f[x] \in Int, NEW a \in S
  PROVE  /\ SumFunctionOnSet(f, S) = f[a] + SumFunctionOnSet(f, S \ {a})
         /\ SumFunctionOnSet(f, S \ {a}) \in Int
<1> DEFINE Total(T) == SumFunctionOnSet(f, T)
           Bad == { T \in SUBSET S : \E x \in T : Total(T) # f[x] + Total(T \ {x}) }
<1>1. ASSUME NEW T \in SUBSET S
      PROVE  /\ Total(T) \in Int
             /\ T = {} => Total(T) = 0
             /\ T # {} => \E p \in T : Total(T) = f[p] + Total(T \ {p})
  <2>1. IsFiniteSet(T)
    BY FS_Subset
  <2> QED
    BY <2>1, SumChosen
<1> HIDE DEF Total
<1>2. Bad = {}
  <2>1. SUFFICES ASSUME Bad # {}
                 PROVE  FALSE
    OBVIOUS
  <2>2. PICK T \in Bad : \A x \in T : T \ {x} \notin Bad
    BY <2>1, MinimalSubset
  <2>3. PICK x \in T : Total(T) # f[x] + Total(T \ {x})
    OBVIOUS
  <2>4. PICK p \in T : Total(T) = f[p] + Total(T \ {p})
    BY <1>1
  <2>5. p # x
    BY <2>3, <2>4
  <2>6. /\ Total(T \ {p}) = f[x] + Total((T \ {p}) \ {x})
        /\ Total(T \ {x}) = f[p] + Total((T \ {x}) \ {p})
    BY <2>2, <2>5
  <2>7. (T \ {p}) \ {x} = (T \ {x}) \ {p}
    OBVIOUS
  <2>8. /\ f[x] \in Int /\ f[p] \in Int
        /\ Total((T \ {p}) \ {x}) \in Int
    BY <1>1
  <2> HIDE DEF Bad
  <2> DEFINE rest == Total((T \ {p}) \ {x})
  <2>9. Total(T) = f[p] + (f[x] + rest) /\ Total(T \ {x}) = f[p] + rest
    BY <2>4, <2>6, <2>7
  <2> HIDE DEF rest
  <2>10. f[p] + (f[x] + rest) = f[x] + (f[p] + rest)
    BY <2>8 DEF rest
  <2> QED
    BY <2>3, <2>9, <2>10
<1>3. Total(S) = f[a] + Total(S \ {a}) /\ Total(S \ {a}) \in Int
  BY <1>1, <1>2
<1> QED
  BY <1>3 DEF Total

\* Functions that agree on a set have the same sum over it.
LEMMA SumEqual ==
  ASSUME NEW S, IsFiniteSet(S), NEW f, NEW g,
         \A x \in S : f[x] \in Int /\ g[x] = f[x]
  PROVE  SumFunctionOnSet(g, S) = SumFunctionOnSet(f, S)
<1> DEFINE Bad == { T \in SUBSET S : SumFunctionOnSet(g, T) # SumFunctionOnSet(f, T) }
<1>1. SUFFICES ASSUME Bad # {}
               PROVE  FALSE
  OBVIOUS
<1>2. PICK T \in Bad : \A x \in T : T \ {x} \notin Bad
  BY <1>1, MinimalSubset
<1>3. IsFiniteSet(T)
  BY FS_Subset
<1>4. CASE T = {}
  BY <1>2, <1>3, <1>4, SumChosen
<1>5. ASSUME NEW x \in T
      PROVE  FALSE
  <2>1. /\ SumFunctionOnSet(f, T) = f[x] + SumFunctionOnSet(f, T \ {x})
        /\ SumFunctionOnSet(g, T) = g[x] + SumFunctionOnSet(g, T \ {x})
    BY <1>3, SumRemove
  <2> QED
    BY <1>2, <2>1
<1> QED
  BY <1>4, <1>5

\* What is zero adds nothing to a sum.
LEMMA SumZeros ==
  ASSUME NEW S, IsFiniteSet(S), NEW T \in SUBSET S,
         NEW f, \A x \in S : f[x] \in Int, \A x \in S \ T : f[x] = 0
  PROVE  SumFunctionOnSet(f, S) = SumFunctionOnSet(f, T)
<1> DEFINE Total(U) == SumFunctionOnSet(f, U)
           Bad == { U \in SUBSET (S \ T) : Total(T \cup U) # Total(T) }
<1>1. Bad = {}
  <2>1. SUFFICES ASSUME Bad # {}
                 PROVE  FALSE
    OBVIOUS
  <2>2. IsFiniteSet(S \ T)
    BY FS_Difference
  <2>3. PICK U \in Bad : \A y \in U : U \ {y} \notin Bad
    BY <2>1, <2>2, MinimalSubset
  <2>4. U # {}
    <3>1. T \cup {} = T
      OBVIOUS
    <3> QED
      BY <2>3, <3>1
  <2>5. PICK y \in U : TRUE
    BY <2>4
  <2>6. y \in S \ T /\ (T \cup U) \ {y} = T \cup (U \ {y}) /\ T \cup U \in SUBSET S
    BY <2>3
  <2>7. IsFiniteSet(T \cup U)
    BY <2>6, FS_Subset
  <2>8. /\ Total(T \cup U) = f[y] + Total((T \cup U) \ {y})
        /\ Total((T \cup U) \ {y}) \in Int
    BY <2>6, <2>7, SumRemove
  <2>9. Total(T \cup (U \ {y})) = Total(T)
    BY <2>3, <2>5
  <2> HIDE DEF Total
  <2> QED
    BY <2>3, <2>6, <2>8, <2>9
<1>2. S \ T \in SUBSET (S \ T) /\ T \cup (S \ T) = S
  OBVIOUS
<1>3. Total(T \cup (S \ T)) = Total(T)
  BY <1>1, <1>2
<1> QED
  BY <1>2, <1>3

\* A larger function has a larger sum, and the same only if it is the same.
LEMMA SumMonotone ==
  ASSUME NEW S, IsFiniteSet(S), NEW f, NEW g,
         \A x \in S : f[x] \in Int /\ g[x] \in Int /\ f[x] <= g[x]
  PROVE  /\ SumFunctionOnSet(f, S) <= SumFunctionOnSet(g, S)
         /\ SumFunctionOnSet(f, S) = SumFunctionOnSet(g, S) => \A x \in S : f[x] = g[x]
<1> DEFINE F(T) == SumFunctionOnSet(f, T)
           G(T) == SumFunctionOnSet(g, T)
           Good(T) == F(T) <= G(T) /\ (F(T) = G(T) => \A x \in T : f[x] = g[x])
           Bad == { T \in SUBSET S : ~ Good(T) }
<1>1. SUFFICES ASSUME Bad # {}
               PROVE  FALSE
  OBVIOUS
<1>2. PICK T \in Bad : \A x \in T : T \ {x} \notin Bad
  BY <1>1, MinimalSubset
<1>3. IsFiniteSet(T)
  BY FS_Subset
<1>4. CASE T = {}
  BY <1>2, <1>3, <1>4, SumChosen
<1>5. ASSUME NEW y \in T
      PROVE  FALSE
  <2>1. /\ F(T) = f[y] + F(T \ {y}) /\ F(T \ {y}) \in Int
        /\ G(T) = g[y] + G(T \ {y}) /\ G(T \ {y}) \in Int
    BY <1>3, SumRemove
  <2>2. Good(T \ {y}) /\ ~ Good(T)
    BY <1>2
  <2>3. f[y] \in Int /\ g[y] \in Int /\ f[y] <= g[y]
    OBVIOUS
  <2> HIDE DEF F, G
  <2>4. F(T) <= G(T)
    BY <2>1, <2>2, <2>3
  <2>5. ASSUME F(T) = G(T)
        PROVE  F(T \ {y}) = G(T \ {y}) /\ f[y] = g[y]
    BY <2>1, <2>2, <2>3, <2>5
  <2> QED
    BY <2>2, <2>4, <2>5
<1> QED
  BY <1>4, <1>5

-----------------------------------------------------------------------------
(* Sums of functions *)

\* The sum of a function of integers is an integer, zero if all of them are.
LEMMA SumType ==
  ASSUME NEW S, IsFiniteSet(S), NEW f \in [S -> Int]
  PROVE  /\ SumFunction(f) \in Int
         /\ (\A x \in S : f[x] = 0) => SumFunction(f) = 0
         /\ (\A x \in S : f[x] >= 0) =>
              SumFunction(f) >= 0 /\ \A x \in S : f[x] <= SumFunction(f)
<1> DEFINE zero == [x \in S |-> 0]
           Total(T) == SumFunctionOnSet(zero, T)
<1>1. SumFunction(f) \in Int
  BY SumChosen DEF SumFunction
<1>2. \A T \in SUBSET S : Total(T) = 0
  <2> DEFINE Bad == { T \in SUBSET S : Total(T) # 0 }
  <2>1. SUFFICES ASSUME Bad # {}
                 PROVE  FALSE
    OBVIOUS
  <2>2. PICK T \in Bad : \A x \in T : T \ {x} \notin Bad
    BY <2>1, MinimalSubset
  <2>3. IsFiniteSet(T)
    BY FS_Subset
  <2>4. CASE T = {}
    BY <2>2, <2>3, <2>4, SumChosen
  <2>5. ASSUME NEW y \in T
        PROVE  FALSE
    <3>1. Total(T) = zero[y] + Total(T \ {y})
      BY <2>3, SumRemove
    <3> QED
      BY <2>2, <3>1
  <2> QED
    BY <2>4, <2>5
<1>3. (\A x \in S : f[x] = 0) => SumFunction(f) = 0
  <2>1. (\A x \in S : f[x] = 0) => SumFunctionOnSet(f, S) = Total(S)
    BY SumEqual
  <2> QED
    BY <1>2, <2>1 DEF SumFunction
<1>4. ASSUME \A x \in S : f[x] >= 0
      PROVE  SumFunction(f) >= 0 /\ \A x \in S : f[x] <= SumFunction(f)
  <2>1. \A T \in SUBSET S : SumFunctionOnSet(f, T) \in Int /\ SumFunctionOnSet(f, T) >= 0
    <3>1. ASSUME NEW T \in SUBSET S
          PROVE  SumFunctionOnSet(f, T) \in Int /\ SumFunctionOnSet(f, T) >= 0
      <4>1. IsFiniteSet(T)
        BY FS_Subset
      <4>2. SumFunctionOnSet(f, T) \in Int
        BY <4>1, SumChosen
      <4>3. Total(T) <= SumFunctionOnSet(f, T)
        BY <1>4, <4>1, SumMonotone
      <4> QED
        BY <1>2, <4>2, <4>3
    <3> QED
      BY <3>1
  <2>2. ASSUME NEW x \in S
        PROVE  f[x] <= SumFunctionOnSet(f, S)
    <3>1. /\ SumFunctionOnSet(f, S) = f[x] + SumFunctionOnSet(f, S \ {x})
          /\ SumFunctionOnSet(f, S \ {x}) \in Int /\ SumFunctionOnSet(f, S \ {x}) >= 0
      BY <2>1, SumRemove
    <3> QED
      BY <3>1
  <2> QED
    BY <2>1, <2>2 DEF SumFunction
<1> QED
  BY <1>1, <1>3, <1>4

\* f and g are functions of integers on the finite set S that differ at most at
\* the element a.
DifferAt(S, a, f, g) ==
  /\ IsFiniteSet(S) /\ a \in S
  /\ f \in [S -> Int] /\ g \in [S -> Int]
  /\ \A x \in S \ {a} : g[x] = f[x]

\* What changes at one place changes the sum by as much.
LEMMA SumChange ==
  ASSUME NEW S, NEW a, NEW f, NEW g, DifferAt(S, a, f, g)
  PROVE  SumFunction(g) = SumFunction(f) - f[a] + g[a]
<1>1. IsFiniteSet(S \ {a})
  BY FS_RemoveElement DEF DifferAt
<1>2. SumFunctionOnSet(g, S \ {a}) = SumFunctionOnSet(f, S \ {a})
  BY <1>1, SumEqual DEF DifferAt
<1>3. /\ SumFunction(f) = f[a] + SumFunctionOnSet(f, S \ {a})
      /\ SumFunction(g) = g[a] + SumFunctionOnSet(g, S \ {a})
      /\ SumFunctionOnSet(f, S \ {a}) \in Int
  BY SumRemove DEF SumFunction, DifferAt
<1> QED
  BY <1>2, <1>3 DEF DifferAt

\* g is f with one more place, a.
ExtendsAt(S, a, f, g) ==
  /\ IsFiniteSet(S) /\ a \notin S
  /\ f \in [S -> Int] /\ g \in [S \cup {a} -> Int]
  /\ \A x \in S : g[x] = f[x]

\* A function that is defined at one more place has a sum larger by its value.
LEMMA SumExtend ==
  ASSUME NEW S, NEW a, NEW f, NEW g, ExtendsAt(S, a, f, g)
  PROVE  SumFunction(g) = SumFunction(f) + g[a]
<1>1. IsFiniteSet(S \cup {a}) /\ (S \cup {a}) \ {a} = S
  BY FS_AddElement DEF ExtendsAt
<1>2. SumFunction(g) = g[a] + SumFunctionOnSet(g, S)
  BY <1>1, SumRemove DEF SumFunction, ExtendsAt
<1>3. SumFunctionOnSet(g, S) = SumFunctionOnSet(f, S) /\ SumFunctionOnSet(f, S) \in Int
  <2>1. \A x \in S : f[x] \in Int /\ g[x] = f[x]
    BY DEF ExtendsAt
  <2> QED
    BY <2>1, SumEqual, SumChosen DEF ExtendsAt
<1> QED
  BY <1>2, <1>3 DEF SumFunction, ExtendsAt

\* Sums over a sequence: one element more at the end.
LEMMA SumAppend ==
  ASSUME NEW n \in Nat, NEW f \in [1..n -> Int], NEW g \in [1..(n + 1) -> Int],
         \A k \in 1..n : g[k] = f[k]
  PROVE  SumFunction(g) = SumFunction(f) + g[n + 1]
<1>1. IsFiniteSet(1..n)
  BY FS_Interval
<1>2. n + 1 \notin 1..n /\ 1..(n + 1) = (1..n) \cup {n + 1}
  OBVIOUS
<1>3. ExtendsAt(1..n, n + 1, f, g)
  BY <1>1, <1>2 DEF ExtendsAt
<1> QED
  BY <1>3, SumExtend

\* Sums over a sequence: of the places before a and of those after it.
LEMMA SumSplit ==
  ASSUME NEW a \in Nat, NEW b \in Nat, NEW f \in [1..(a + b) -> Int]
  PROVE  SumFunction(f) = SumFunction([k \in 1..a |-> f[k]])
                            + SumFunction([k \in 1..b |-> f[a + k]])
<1> DEFINE Low(g)     == [k \in 1..a |-> g[k]]
           High(g, n) == [k \in 1..n |-> g[a + k]]
           Split(g, n) == SumFunction(g) = SumFunction(Low(g)) + SumFunction(High(g, n))
           P == { n \in Nat : \A g \in [1..(a + n) -> Int] : Split(g, n) }
<1>1. \A n \in Nat : \A g \in [1..(a + n) -> Int] :
        /\ Low(g) \in [1..a -> Int] /\ High(g, n) \in [1..n -> Int]
        /\ SumFunction(Low(g)) \in Int /\ SumFunction(High(g, n)) \in Int
  <2>1. ASSUME NEW n \in Nat, NEW g \in [1..(a + n) -> Int]
        PROVE  /\ Low(g) \in [1..a -> Int] /\ High(g, n) \in [1..n -> Int]
               /\ SumFunction(Low(g)) \in Int /\ SumFunction(High(g, n)) \in Int
    <3>1. Low(g) \in [1..a -> Int] /\ High(g, n) \in [1..n -> Int]
      OBVIOUS
    <3>2. IsFiniteSet(1..a) /\ IsFiniteSet(1..n)
      BY FS_Interval
    <3> HIDE DEF Low, High
    <3> QED
      BY <3>1, <3>2, SumType
  <2> HIDE DEF Low, High
  <2> QED
    BY <2>1
<1>2. 0 \in P
  <2>1. ASSUME NEW g \in [1..(a + 0) -> Int]
        PROVE  Split(g, 0)
    <3>1. Low(g) = g
      OBVIOUS
    <3>2. 1..0 = {} /\ IsFiniteSet({})
      BY FS_EmptySet
    <3> HIDE DEF Low, High
    <3>3. High(g, 0) \in [{} -> Int] /\ SumFunction(g) \in Int
      BY <1>1, <2>1, <3>1, <3>2
    <3>4. SumFunction(High(g, 0)) = 0
      BY <3>2, <3>3, SumType
    <3> QED
      BY <3>1, <3>3, <3>4
  <2> HIDE DEF Split
  <2> QED
    BY <2>1
<1>3. ASSUME NEW n \in Nat, n \in P
      PROVE  n + 1 \in P
  <2>1. ASSUME NEW g \in [1..(a + (n + 1)) -> Int]
        PROVE  Split(g, n + 1)
    <3> DEFINE m == a + n
               h == [k \in 1..m |-> g[k]]
    <3>1. /\ m \in Nat /\ a + (n + 1) = m + 1
          /\ h \in [1..m -> Int] /\ g \in [1..(m + 1) -> Int]
          /\ \A k \in 1..m : g[k] = h[k]
          /\ g[m + 1] \in Int
      <4>1. m \in Nat /\ a + (n + 1) = m + 1
        OBVIOUS
      <4> HIDE DEF m
      <4>2. g \in [1..(m + 1) -> Int]
        BY <2>1, <4>1
      <4> QED
        BY <4>1, <4>2
    <3>2. Low(g) = Low(h)
      OBVIOUS
    <3>3. /\ \A k \in 1..n : High(g, n + 1)[k] = High(h, n)[k]
          /\ High(g, n + 1)[n + 1] = g[m + 1]
      OBVIOUS
    <3>4. m = a + n
      OBVIOUS
    <3> HIDE DEF h, m
    <3>5. SumFunction(g) = SumFunction(h) + g[m + 1]
      BY <3>1, SumAppend
    <3>6. /\ High(h, n) \in [1..n -> Int] /\ High(g, n + 1) \in [1..(n + 1) -> Int]
          /\ SumFunction(Low(h)) \in Int /\ SumFunction(High(h, n)) \in Int
          /\ Split(h, n)
      <4>1. h \in [1..(a + n) -> Int] /\ g \in [1..(a + (n + 1)) -> Int] /\ n + 1 \in Nat
        BY <3>1, <3>4
      <4>2. Split(h, n)
        BY <1>3, <4>1
      <4> HIDE DEF High, Low, Split
      <4> QED
        BY <1>1, <4>1, <4>2
    <3> HIDE DEF High, Low
    <3>7. SumFunction(High(g, n + 1)) = SumFunction(High(h, n)) + High(g, n + 1)[n + 1]
      BY <3>3, <3>6, SumAppend
    <3> QED
      BY <3>1, <3>2, <3>3, <3>5, <3>6, <3>7
  <2> HIDE DEF Split
  <2> QED
    BY <2>1
<1> HIDE DEF P
<1>4. b \in P
  BY <1>2, <1>3, InductiveSet
<1> QED
  BY <1>4 DEF P

-----------------------------------------------------------------------------
(* Folds *)

\* A set of numbers that is not empty and has a bound has a greatest element.
LEMMA GreatestElement ==
  ASSUME NEW n \in Nat, NEW S \in SUBSET (1..n), S # {}
  PROVE  \E m \in S : \A k \in S : m >= k
<1> DEFINE T == { n - k : k \in S }
<1>1. T \in SUBSET Nat /\ T # {}
  <2>1. \A k \in S : k \in 1..n /\ n - k \in Nat
    OBVIOUS
  <2> QED
    BY <2>1
<1>2. PICK d \in T : \A e \in T : d <= e
  <2> HIDE DEF T
  <2> QED
    BY <1>1, LeastElement
<1>3. PICK m \in S : d = n - m
  OBVIOUS
<1>4. \A k \in S : n - m <= n - k
  BY <1>2, <1>3
<1> QED
  BY <1>4

\* Every value of a recursion that takes out one element after the other is in A
\* if the first is, and what is made of a value in A and any element is.
LEMMA FoldStays ==
  ASSUME NEW S, IsFiniteSet(S), NEW A, NEW pick, NEW g,
         \A s \in SUBSET S : s # {} => pick[s] \in s,
         g[{}] \in A,
         \A s \in SUBSET S : s # {} /\ g[s \ {pick[s]}] \in A => g[s] \in A
  PROVE  \A s \in SUBSET S : g[s] \in A
<1> DEFINE Bad == { s \in SUBSET S : g[s] \notin A }
<1>1. SUFFICES ASSUME Bad # {}
               PROVE  FALSE
  OBVIOUS
<1>2. PICK s \in Bad : \A x \in s : s \ {x} \notin Bad
  BY <1>1, MinimalSubset
<1>3. s # {}
  BY <1>2
<1>4. pick[s] \in s /\ s \ {pick[s]} \in SUBSET S
  BY <1>3
<1> QED
  BY <1>2, <1>3, <1>4

\* The quantity w gives each element of a sequence, summed over the sequence.
Weights(s, w) == [n \in DOMAIN s |-> w[s[n]]]
Weight(s, w)  == SumFunction(Weights(s, w))

LEMMA WeightType ==
  ASSUME NEW E, NEW w \in [E -> Int], NEW s \in Seq(E)
  PROVE  /\ DOMAIN s = 1..Len(s) /\ Len(s) \in Nat /\ IsFiniteSet(DOMAIN s)
         /\ Weights(s, w) \in [1..Len(s) -> Int]
         /\ Weight(s, w) \in Int
         /\ (\A e \in E : w[e] >= 0) => Weight(s, w) >= 0
         /\ (\A n \in DOMAIN s : w[s[n]] = 0) => Weight(s, w) = 0
<1>1. DOMAIN s = 1..Len(s) /\ Len(s) \in Nat /\ \A n \in 1..Len(s) : s[n] \in E
  BY LenProperties, ElementOfSeq
<1>2. IsFiniteSet(1..Len(s))
  BY <1>1, FS_Interval
<1>3. /\ Weights(s, w) \in [1..Len(s) -> Int]
      /\ \A n \in 1..Len(s) : Weights(s, w)[n] = w[s[n]]
  BY <1>1 DEF Weights
<1>4. /\ Weight(s, w) \in Int
      /\ (\A n \in 1..Len(s) : Weights(s, w)[n] = 0) => Weight(s, w) = 0
      /\ (\A n \in 1..Len(s) : Weights(s, w)[n] >= 0) => Weight(s, w) >= 0
  BY <1>2, <1>3, SumType DEF Weight
<1> QED
  BY <1>1, <1>2, <1>3, <1>4

\* The sequence with nothing in it weighs nothing.
LEMMA WeightEmpty ==
  ASSUME NEW E, NEW w \in [E -> Int]
  PROVE  Weight(<< >>, w) = 0
<1>1. << >> \in Seq(E) /\ DOMAIN << >> = {}
  OBVIOUS
<1> QED
  BY <1>1, WeightType

\* Two sequences in a row weigh together what each weighs.
LEMMA WeightJoined ==
  ASSUME NEW E, NEW w \in [E -> Int], NEW p \in Seq(E), NEW q \in Seq(E)
  PROVE  p \o q \in Seq(E) /\ Weight(p \o q, w) = Weight(p, w) + Weight(q, w)
<1> DEFINE j == p \o q
           a == Len(p)
           b == Len(q)
<1>1. /\ j \in Seq(E) /\ DOMAIN j = 1..(a + b) /\ Len(j) = a + b /\ a \in Nat /\ b \in Nat
      /\ DOMAIN p = 1..a /\ DOMAIN q = 1..b
      /\ \A n \in 1..a : j[n] = p[n]
      /\ \A n \in 1..b : j[a + n] = q[n]
  BY ConcatProperties, LenProperties
<1> HIDE DEF j, a, b
<1>2. Weights(j, w) \in [1..(a + b) -> Int]
  BY <1>1, WeightType
<1>3. [k \in 1..a |-> Weights(j, w)[k]] = Weights(p, w)
  <2>1. \A k \in 1..a : k \in 1..(a + b)
    BY <1>1
  <2> QED
    BY <1>1, <2>1 DEF Weights
<1>4. [k \in 1..b |-> Weights(j, w)[a + k]] = Weights(q, w)
  <2>1. \A k \in 1..b : a + k \in 1..(a + b)
    BY <1>1
  <2> QED
    BY <1>1, <2>1 DEF Weights
<1>5. SumFunction(Weights(j, w))
        = SumFunction([k \in 1..a |-> Weights(j, w)[k]])
            + SumFunction([k \in 1..b |-> Weights(j, w)[a + k]])
  BY <1>1, <1>2, SumSplit
<1>6. Weight(j, w) = Weight(p, w) + Weight(q, w)
  BY <1>3, <1>4, <1>5 DEF Weight
<1> QED
  BY <1>1, <1>6 DEF j

\* One element alone weighs its weight.
LEMMA WeightOne ==
  ASSUME NEW E, NEW w \in [E -> Int], NEW e \in E
  PROVE  << e >> \in Seq(E) /\ Weight(<< e >>, w) = w[e]
<1> DEFINE none == [k \in 1..0 |-> 0]
           one  == Weights(<< e >>, w)
<1>1. /\ << e >> \in Seq(E) /\ Len(<< e >>) = 1 /\ << e >>[1] = e /\ DOMAIN << e >> = 1..1
  OBVIOUS
<1>2. one \in [1..(0 + 1) -> Int] /\ one[0 + 1] = w[e]
  BY <1>1 DEF Weights
<1>3. none \in [1..0 -> Int] /\ 1..0 = {} /\ IsFiniteSet(1..0)
  BY FS_EmptySet
<1> HIDE DEF one, none
<1>4. SumFunction(none) = 0
  <2>1. \A k \in 1..0 : none[k] = 0
    BY <1>3
  <2> QED
    BY <1>3, <2>1, SumType
<1>5. SumFunction(one) = SumFunction(none) + one[0 + 1]
  <2>1. \A k \in 1..0 : one[k] = none[k]
    BY <1>3
  <2> QED
    BY <1>2, <1>3, <2>1, SumAppend
<1>6. one[0 + 1] \in Int
  BY <1>2
<1> QED
  BY <1>1, <1>2, <1>4, <1>5, <1>6 DEF one, Weight

\* One element more at the end, or one less at the front.
LEMMA WeightAppend ==
  ASSUME NEW E, NEW w \in [E -> Int], NEW s \in Seq(E), NEW e \in E
  PROVE  Append(s, e) \in Seq(E) /\ Weight(Append(s, e), w) = Weight(s, w) + w[e]
<1>1. Append(s, e) = s \o << e >>
  OBVIOUS
<1>2. << e >> \in Seq(E) /\ Weight(<< e >>, w) = w[e]
  BY WeightOne
<1>3. s \o << e >> \in Seq(E) /\ Weight(s \o << e >>, w) = Weight(s, w) + Weight(<< e >>, w)
  BY <1>2, WeightJoined
<1> QED
  BY <1>1, <1>2, <1>3

LEMMA WeightTail ==
  ASSUME NEW E, NEW w \in [E -> Int], NEW s \in Seq(E), s # << >>
  PROVE  /\ Head(s) \in E /\ Tail(s) \in Seq(E) /\ Len(s) \in Nat /\ Len(s) > 0
         /\ Len(s) > 1 <=> Tail(s) # << >>
         /\ Weight(s, w) = w[Head(s)] + Weight(Tail(s), w)
<1>1. /\ Head(s) \in E /\ Tail(s) \in Seq(E) /\ << Head(s) >> \in Seq(E)
      /\ Len(s) \in Nat /\ Len(s) > 0 /\ Len(Tail(s)) = Len(s) - 1
      /\ s = << Head(s) >> \o Tail(s)
  OBVIOUS
<1>2. Len(s) > 1 <=> Tail(s) # << >>
  <2>1. Tail(s) = << >> <=> Len(Tail(s)) = 0
    BY <1>1, EmptySeq
  <2> QED
    BY <1>1, <2>1
<1>3. Weight(s, w) = Weight(<< Head(s) >>, w) + Weight(Tail(s), w)
  BY <1>1, WeightJoined
<1>4. Weight(<< Head(s) >>, w) = w[Head(s)]
  BY <1>1, WeightOne
<1> QED
  BY <1>1, <1>2, <1>3, <1>4

=============================================================================
