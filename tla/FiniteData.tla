----------------------------- MODULE FiniteData -----------------------------
(***************************************************************************)
(* Sums over finite sets, by induction on the number of elements, and      *)
(* sequences that grow or change.  The induction is over sets of sets, not *)
(* over predicates, so that it is a fact of first-order logic.             *)
(***************************************************************************)
EXTENDS Integers, Sequences, FiniteSets, Functions, WellFoundedInduction,
        FiniteSetTheorems, SequenceTheorems, TLAPS

Below == {pair \in Nat \X Nat : pair[1] < pair[2]}
Picked(s) == CHOOSE x \in s : TRUE

\* g adds f up over every subset of S, an element at a time.
IsSum(g, f, S) ==
  g = [s \in SUBSET S |-> IF s = {} THEN 0 ELSE f[Picked(s)] + g[s \ {Picked(s)}]]

-----------------------------------------------------------------------------
(* Induction *)

LEMMA LeastNat ==
  ASSUME NEW T \in SUBSET Nat, T # {}
  PROVE  \E n \in T : \A m \in T : n <= m
<1>1. IsWellFoundedOn(Below, Nat)
  BY NatLessThanWellFounded DEF OpToRel, Below
<1>2. PICK n \in T : \A m \in T : ~(<<m, n>> \in Below)
  BY <1>1, WFMin
<1>3. ASSUME NEW m \in T PROVE n <= m
  <2>1. m \in Nat /\ n \in Nat
    OBVIOUS
  <2>2. m < n => <<m, n>> \in Below
    BY <2>1 DEF Below
  <2>. QED BY <1>2, <2>1, <2>2
<1>. QED BY <1>3

LEMMA NatSteps ==
  ASSUME NEW Good \in SUBSET Nat, 0 \in Good, \A n \in Good : n + 1 \in Good
  PROVE  Good = Nat
<1>. SUFFICES ASSUME Nat \ Good # {} PROVE FALSE
  OBVIOUS
<1>1. PICK n \in Nat \ Good : \A m \in Nat \ Good : n <= m
  BY LeastNat
<1>2. n # 0 /\ n - 1 \in Nat
  OBVIOUS
<1>3. n - 1 \in Good
  BY <1>1, <1>2
<1>4. (n - 1) + 1 \in Good
  BY <1>3
<1>. QED BY <1>4

\* What holds of a finite set when it holds of it less any one of its elements.
LEMMA FiniteSteps ==
  ASSUME NEW U, IsFiniteSet(U), NEW Good \in SUBSET (SUBSET U),
         \A T \in SUBSET U : (\A x \in T : T \ {x} \in Good) => T \in Good
  PROVE  Good = SUBSET U
<1>. DEFINE Sizes == {Cardinality(T) : T \in (SUBSET U) \ Good}
<1>. SUFFICES ASSUME (SUBSET U) \ Good # {} PROVE FALSE
  OBVIOUS
<1>1. \A T \in SUBSET U : IsFiniteSet(T) /\ Cardinality(T) \in Nat
  BY FS_Subset, FS_CardinalityType
<1>2. Sizes \in SUBSET Nat /\ Sizes # {}
  BY <1>1
<1>3. PICK n \in Sizes : \A m \in Sizes : n <= m
  BY <1>2, LeastNat
<1>4. PICK T \in (SUBSET U) \ Good : n = Cardinality(T)
  OBVIOUS
<1>5. ASSUME NEW x \in T PROVE T \ {x} \in Good
  <2>1. Cardinality(T \ {x}) = Cardinality(T) - 1
    BY <1>1, FS_RemoveElement
  <2>2. T \ {x} \in SUBSET U
    OBVIOUS
  <2>3. T \ {x} \notin Good => Cardinality(T \ {x}) \in Sizes
    BY <2>2
  <2>. QED BY <1>1, <1>3, <1>4, <2>1, <2>2, <2>3, SMTT(20)
<1>. QED BY <1>4, <1>5

LEMMA FiniteImage ==
  ASSUME NEW S, IsFiniteSet(S), NEW f
  PROVE  IsFiniteSet({f[x] : x \in S})
<1>. DEFINE T == {f[x] : x \in S}
            g == [x \in S |-> f[x]]
<1>1. g \in [S -> T] /\ \A t \in T : \E x \in S : g[x] = t
  OBVIOUS
<1>2. g \in Surjection(S, T)
  BY <1>1 DEF Surjection
<1>. QED BY <1>2, FS_Surjection

-----------------------------------------------------------------------------
(* The sum as a recursive function *)

SubsetsUpTo(n, U) == {s \in SUBSET U : Cardinality(s) <= n}
SumsUpTo(g, n, f, U) ==
  /\ g \in [SubsetsUpTo(n, U) -> Int]
  /\ \A s \in SubsetsUpTo(n, U) :
       g[s] = IF s = {} THEN 0 ELSE f[Picked(s)] + g[s \ {Picked(s)}]

LEMMA PickedIsElement ==
  ASSUME NEW s, s # {}
  PROVE  Picked(s) \in s
BY DEF Picked

LEMMA SmallSums ==
  ASSUME NEW U, IsFiniteSet(U), NEW f, \A x \in U : f[x] \in Int
  PROVE  \A n \in Nat : \E g : SumsUpTo(g, n, f, U)
<1>. DEFINE Good == {n \in Nat : \E g : SumsUpTo(g, n, f, U)}
<1>0. \A s \in SUBSET U : IsFiniteSet(s) /\ Cardinality(s) \in Nat
  BY FS_Subset, FS_CardinalityType
<1>1. 0 \in Good
  <2>. DEFINE g == [s \in SubsetsUpTo(0, U) |-> 0]
  <2>1. \A s \in SubsetsUpTo(0, U) : s = {}
    BY <1>0, FS_EmptySet DEF SubsetsUpTo
  <2>2. SumsUpTo(g, 0, f, U)
    BY <2>1 DEF SumsUpTo
  <2>. QED BY <2>2
<1>2. ASSUME NEW n \in Good PROVE n + 1 \in Good
  <2>1. PICK g : SumsUpTo(g, n, f, U)
    OBVIOUS
  <2>. DEFINE Next(s) == IF s = {} THEN 0 ELSE f[Picked(s)] + g[s \ {Picked(s)}]
              h == [s \in SubsetsUpTo(n + 1, U) |-> Next(s)]
  <2>2. ASSUME NEW s \in SubsetsUpTo(n + 1, U), s # {}
        PROVE  Picked(s) \in U /\ s \ {Picked(s)} \in SubsetsUpTo(n, U)
    <3>1. Picked(s) \in s /\ s \in SUBSET U
      BY <2>2, PickedIsElement DEF SubsetsUpTo
    <3>2. Cardinality(s \ {Picked(s)}) = Cardinality(s) - 1
      BY <3>1, <1>0, FS_RemoveElement
    <3>. QED BY <3>1, <3>2, <1>0 DEF SubsetsUpTo
  <2>3. \A s \in SubsetsUpTo(n, U) : s \in SubsetsUpTo(n + 1, U) /\ Next(s) = g[s]
    BY <2>1, <1>0 DEF SubsetsUpTo, SumsUpTo
  <2>4. \A s \in SubsetsUpTo(n + 1, U) : Next(s) \in Int
    BY <2>1, <2>2 DEF SumsUpTo
  <2>5. \A s \in SubsetsUpTo(n + 1, U) : s # {} => h[s \ {Picked(s)}] = g[s \ {Picked(s)}]
    BY <2>2, <2>3
  <2>6. SumsUpTo(h, n + 1, f, U)
    BY <2>4, <2>5 DEF SumsUpTo
  <2>. QED BY <2>6
<1>. QED BY <1>1, <1>2, NatSteps

LEMMA SumExists ==
  ASSUME NEW U, IsFiniteSet(U), NEW f, \A x \in U : f[x] \in Int
  PROVE  \E g \in [SUBSET U -> Int] : IsSum(g, f, U)
<1>1. Cardinality(U) \in Nat
  BY FS_CardinalityType
<1>2. PICK g : SumsUpTo(g, Cardinality(U), f, U)
  BY <1>1, SmallSums
<1>3. SubsetsUpTo(Cardinality(U), U) = SUBSET U
  BY FS_Subset DEF SubsetsUpTo
<1>4. g \in [SUBSET U -> Int]
  BY <1>2, <1>3 DEF SumsUpTo
<1>5. IsSum(g, f, U)
  BY <1>2, <1>3, <1>4 DEF SumsUpTo, IsSum
<1>. QED BY <1>4, <1>5

LEMMA SumIsUnique ==
  ASSUME NEW U, IsFiniteSet(U), NEW V, NEW f, NEW g, NEW h,
         IsSum(g, f, U), IsSum(h, f, V)
  PROVE  \A T \in SUBSET U : T \in SUBSET V => g[T] = h[T]
<1>. DEFINE Good == {T \in SUBSET U : T \in SUBSET V => g[T] = h[T]}
<1>1. ASSUME NEW T \in SUBSET U, \A x \in T : T \ {x} \in Good PROVE T \in Good
  <2>. SUFFICES ASSUME T \in SUBSET V PROVE g[T] = h[T]
    OBVIOUS
  <2>1. /\ g[T] = IF T = {} THEN 0 ELSE f[Picked(T)] + g[T \ {Picked(T)}]
        /\ h[T] = IF T = {} THEN 0 ELSE f[Picked(T)] + h[T \ {Picked(T)}]
    BY DEF IsSum
  <2>2. CASE T = {}
    BY <2>1, <2>2
  <2>3. CASE T # {}
    <3>1. Picked(T) \in T
      BY <2>3, PickedIsElement
    <3>2. T \ {Picked(T)} \in Good
      BY <3>1, <1>1
    <3>. QED BY <2>1, <2>3, <3>2
  <2>. QED BY <2>2, <2>3
<1>2. Good \in SUBSET (SUBSET U)
  OBVIOUS
<1>3. Good = SUBSET U
  <2>. HIDE DEF Good
  <2>. QED BY <1>1, <1>2, FiniteSteps
<1>. QED BY <1>3

\* g is the sum of f over the subsets of U.
Adds(g, f, U) ==
  /\ g \in [SUBSET U -> Int] /\ IsSum(g, f, U)
  /\ \A T \in SUBSET U : SumFunctionOnSet(f, T) = g[T]

LEMMA SumAsFunction ==
  ASSUME NEW U, IsFiniteSet(U), NEW f, \A x \in U : f[x] \in Int
  PROVE  \E g : Adds(g, f, U)
<1>1. PICK g \in [SUBSET U -> Int] : IsSum(g, f, U)
  BY SumExists
<1>2. ASSUME NEW T \in SUBSET U PROVE SumFunctionOnSet(f, T) = g[T]
  <2>. DEFINE h == CHOOSE h : IsSum(h, f, T)
  <2>1. SumFunctionOnSet(f, T) = h[T]
    BY DEF SumFunctionOnSet, FoldFunctionOnSet, MapThenFoldSet, IsSum, Picked
  <2>2. \E k : IsSum(k, f, T)
    BY SumExists, FS_Subset
  <2>3. IsSum(h, f, T)
    BY <2>2
  <2>4. IsFiniteSet(T)
    BY FS_Subset
  <2>5. h[T] = g[T]
    BY <2>3, <2>4, <1>1, SumIsUnique
  <2>. QED BY <2>1, <2>5
<1>. QED BY <1>1, <1>2 DEF Adds

LEMMA SumEmpty ==
  ASSUME NEW f
  PROVE  SumFunctionOnSet(f, {}) = 0
<1>1. PICK g : Adds(g, f, {})
  BY SumAsFunction, FS_EmptySet
<1>. QED BY <1>1 DEF Adds, IsSum

LEMMA SumIsInt ==
  ASSUME NEW S, IsFiniteSet(S), NEW f, \A x \in S : f[x] \in Int
  PROVE  SumFunctionOnSet(f, S) \in Int
<1>1. PICK g : Adds(g, f, S)
  BY SumAsFunction
<1>. QED BY <1>1 DEF Adds

\* Any element may be added first: an element of a sum is a term of it.
LEMMA SumTerm ==
  ASSUME NEW U, IsFiniteSet(U), NEW f, \A x \in U : f[x] \in Int
  PROVE  \A S \in SUBSET U : \A x \in S :
           SumFunctionOnSet(f, S) = f[x] + SumFunctionOnSet(f, S \ {x})
<1>. DEFINE Sum(S) == SumFunctionOnSet(f, S)
            Good == {S \in SUBSET U : \A x \in S : Sum(S) = f[x] + Sum(S \ {x})}
<1>0. ASSUME NEW S \in SUBSET U
      PROVE  /\ Sum(S) \in Int
             /\ S # {} => Sum(S) = f[Picked(S)] + Sum(S \ {Picked(S)})
  <2>1. PICK g : Adds(g, f, U)
    BY SumAsFunction
  <2>2. S # {} => g[S] = f[Picked(S)] + g[S \ {Picked(S)}]
    BY <2>1 DEF Adds, IsSum
  <2>3. S \ {Picked(S)} \in SUBSET U
    OBVIOUS
  <2>. QED BY <2>1, <2>2, <2>3 DEF Adds
<1>. HIDE DEF Sum
<1>1. ASSUME NEW S \in SUBSET U, \A x \in S : S \ {x} \in Good PROVE S \in Good
  <2>. SUFFICES ASSUME NEW x \in S PROVE Sum(S) = f[x] + Sum(S \ {x})
    OBVIOUS
  <2>. DEFINE y == Picked(S)
  <2>1. y \in S /\ Sum(S) = f[y] + Sum(S \ {y})
    BY <1>0, PickedIsElement
  <2>2. CASE x = y
    BY <2>1, <2>2
  <2>3. CASE x # y
    <3>1. Sum(S \ {y}) = f[x] + Sum((S \ {y}) \ {x})
      BY <2>1, <2>3, <1>1
    <3>2. Sum(S \ {x}) = f[y] + Sum((S \ {x}) \ {y})
      BY <2>1, <2>3, <1>1
    <3>3. (S \ {y}) \ {x} = (S \ {x}) \ {y}
      OBVIOUS
    <3>4. Sum((S \ {y}) \ {x}) \in Int /\ f[x] \in Int /\ f[y] \in Int
      BY <1>0, <2>1
    <3>5. Sum((S \ {x}) \ {y}) = Sum((S \ {y}) \ {x})
      BY <3>3
    <3>6. /\ Sum(S) = f[y] + (f[x] + Sum((S \ {y}) \ {x}))
          /\ Sum(S \ {x}) = f[y] + Sum((S \ {y}) \ {x})
      BY <2>1, <3>1, <3>2, <3>5
    <3>. HIDE DEF y
    <3>. QED BY <3>4, <3>6
  <2>. QED BY <2>2, <2>3
<1>2. Good \in SUBSET (SUBSET U)
  OBVIOUS
<1>3. Good = SUBSET U
  <2>. HIDE DEF Good
  <2>. QED BY <1>1, <1>2, FiniteSteps
<1>. QED BY <1>3 DEF Sum

LEMMA SumOneTerm ==
  ASSUME NEW S, IsFiniteSet(S), NEW f, \A y \in S : f[y] \in Int, NEW x \in S
  PROVE  SumFunctionOnSet(f, S) = f[x] + SumFunctionOnSet(f, S \ {x})
BY SumTerm

LEMMA SumAdd ==
  ASSUME NEW S, IsFiniteSet(S), NEW x, x \notin S,
         NEW f, f[x] \in Int, \A y \in S : f[y] \in Int
  PROVE  SumFunctionOnSet(f, S \cup {x}) = f[x] + SumFunctionOnSet(f, S)
<1>1. IsFiniteSet(S \cup {x}) /\ (S \cup {x}) \ {x} = S
  BY FS_AddElement
<1>. QED BY <1>1, SumTerm

-----------------------------------------------------------------------------
(* Sums of related functions *)

LEMMA SumPlus ==
  ASSUME NEW S, IsFiniteSet(S), NEW f, NEW g, NEW h,
         \A x \in S : f[x] \in Int /\ g[x] \in Int /\ h[x] = f[x] + g[x]
  PROVE  SumFunctionOnSet(h, S) = SumFunctionOnSet(f, S) + SumFunctionOnSet(g, S)
<1>. DEFINE Good == {T \in SUBSET S : SumFunctionOnSet(h, T)
                                      = SumFunctionOnSet(f, T) + SumFunctionOnSet(g, T)}
<1>1. ASSUME NEW T \in SUBSET S, \A x \in T : T \ {x} \in Good PROVE T \in Good
  <2>1. CASE T = {}
    BY <2>1, SumEmpty
  <2>2. CASE T # {}
    <3>1. PICK x \in T : TRUE
      BY <2>2
    <3>2. T \ {x} \in Good /\ T \ {x} \in SUBSET S
      BY <3>1, <1>1
    <3>3. /\ SumFunctionOnSet(f, T) = f[x] + SumFunctionOnSet(f, T \ {x})
          /\ SumFunctionOnSet(g, T) = g[x] + SumFunctionOnSet(g, T \ {x})
          /\ SumFunctionOnSet(h, T) = h[x] + SumFunctionOnSet(h, T \ {x})
      BY SumTerm
    <3>4. /\ SumFunctionOnSet(f, T \ {x}) \in Int /\ SumFunctionOnSet(g, T \ {x}) \in Int
          /\ f[x] \in Int /\ g[x] \in Int /\ h[x] = f[x] + g[x]
      BY <3>2, FS_Subset, SumIsInt
    <3>. QED BY <3>2, <3>3, <3>4
  <2>. QED BY <2>1, <2>2
<1>2. Good \in SUBSET (SUBSET S)
  OBVIOUS
<1>3. Good = SUBSET S
  <2>. HIDE DEF Good
  <2>. QED BY <1>1, <1>2, FiniteSteps
<1>. QED BY <1>3

LEMMA SumSame ==
  ASSUME NEW S, IsFiniteSet(S), NEW f, NEW g, \A x \in S : f[x] \in Int /\ g[x] = f[x]
  PROVE  SumFunctionOnSet(g, S) = SumFunctionOnSet(f, S)
<1>. DEFINE Good == {T \in SUBSET S : SumFunctionOnSet(g, T) = SumFunctionOnSet(f, T)}
<1>1. ASSUME NEW T \in SUBSET S, \A x \in T : T \ {x} \in Good PROVE T \in Good
  <2>1. CASE T = {}
    BY <2>1, SumEmpty
  <2>2. CASE T # {}
    <3>1. PICK x \in T : TRUE
      BY <2>2
    <3>2. T \ {x} \in Good
      BY <3>1, <1>1
    <3>3. /\ SumFunctionOnSet(f, T) = f[x] + SumFunctionOnSet(f, T \ {x})
          /\ SumFunctionOnSet(g, T) = g[x] + SumFunctionOnSet(g, T \ {x})
      BY SumTerm
    <3>. QED BY <3>2, <3>3
  <2>. QED BY <2>1, <2>2
<1>2. Good \in SUBSET (SUBSET S)
  OBVIOUS
<1>3. Good = SUBSET S
  <2>. HIDE DEF Good
  <2>. QED BY <1>1, <1>2, FiniteSteps
<1>. QED BY <1>3

LEMMA SumZero ==
  ASSUME NEW S, IsFiniteSet(S), NEW f, \A x \in S : f[x] = 0
  PROVE  SumFunctionOnSet(f, S) = 0
<1>1. SumFunctionOnSet(f, S) = SumFunctionOnSet(f, S) + SumFunctionOnSet(f, S)
  BY SumPlus
<1>. QED BY <1>1, SumIsInt

LEMMA SumUnion ==
  ASSUME NEW S, IsFiniteSet(S), NEW f, \A x \in S : f[x] \in Int
  PROVE  \A T \in SUBSET S :
           SumFunctionOnSet(f, S) = SumFunctionOnSet(f, T) + SumFunctionOnSet(f, S \ T)
<1>. DEFINE Good == {T \in SUBSET S : SumFunctionOnSet(f, S)
                       = SumFunctionOnSet(f, T) + SumFunctionOnSet(f, S \ T)}
<1>1. ASSUME NEW T \in SUBSET S, \A x \in T : T \ {x} \in Good PROVE T \in Good
  <2>1. CASE T = {}
    <3>1. S \ T = S
      BY <2>1
    <3>. QED BY <2>1, <3>1, SumEmpty, SumIsInt
  <2>2. CASE T # {}
    <3>1. PICK x \in T : TRUE
      BY <2>2
    <3>. DEFINE R == T \ {x}
    <3>2. R \in Good /\ R \in SUBSET S /\ S \ R \in SUBSET S /\ x \in S \ R
          /\ (S \ R) \ {x} = S \ T
      BY <3>1, <1>1
    <3>. HIDE DEF R
    <3>3. SumFunctionOnSet(f, T) = f[x] + SumFunctionOnSet(f, R)
      BY SumTerm DEF R
    <3>4. SumFunctionOnSet(f, S \ R) = f[x] + SumFunctionOnSet(f, S \ T)
      BY <3>2, SumTerm
    <3>5. /\ SumFunctionOnSet(f, R) \in Int /\ SumFunctionOnSet(f, S \ T) \in Int /\ f[x] \in Int
      BY <3>2, FS_Subset, SumIsInt
    <3>. QED BY <3>2, <3>3, <3>4, <3>5
  <2>. QED BY <2>1, <2>2
<1>2. Good \in SUBSET (SUBSET S)
  OBVIOUS
<1>3. Good = SUBSET S
  <2>. HIDE DEF Good
  <2>. QED BY <1>1, <1>2, FiniteSteps
<1>. QED BY <1>3

LEMMA SumNotPositive ==
  ASSUME NEW S, IsFiniteSet(S), NEW f, \A x \in S : f[x] \in Int /\ f[x] <= 0
  PROVE  SumFunctionOnSet(f, S) <= 0
<1>. DEFINE Good == {T \in SUBSET S : SumFunctionOnSet(f, T) <= 0}
<1>1. ASSUME NEW T \in SUBSET S, \A x \in T : T \ {x} \in Good PROVE T \in Good
  <2>1. CASE T = {}
    BY <2>1, SumEmpty
  <2>2. CASE T # {}
    <3>1. PICK x \in T : TRUE
      BY <2>2
    <3>2. T \ {x} \in Good /\ IsFiniteSet(T \ {x})
      BY <3>1, <1>1, FS_Subset
    <3>3. SumFunctionOnSet(f, T) = f[x] + SumFunctionOnSet(f, T \ {x})
      BY SumTerm
    <3>4. SumFunctionOnSet(f, T \ {x}) \in Int
      BY <3>2, SumIsInt
    <3>. QED BY <3>2, <3>3, <3>4
  <2>. QED BY <2>1, <2>2
<1>2. Good \in SUBSET (SUBSET S)
  OBVIOUS
<1>3. Good = SUBSET S
  <2>. HIDE DEF Good
  <2>. QED BY <1>1, <1>2, FiniteSteps
<1>. QED BY <1>3

\* What is undone one by one adds up to nothing: m says what each undoes.
LEMMA SumMirror ==
  ASSUME NEW S, IsFiniteSet(S), NEW T, IsFiniteSet(T), NEW f, NEW g, NEW m,
         \A x \in S : f[x] \in Int,
         \A t \in T : m[t] \in S /\ g[t] = -f[m[t]],
         \A t, u \in T : m[t] = m[u] => t = u,
         \A x \in S : \E t \in T : m[t] = x
  PROVE  SumFunctionOnSet(f, S) + SumFunctionOnSet(g, T) = 0
<1>. DEFINE Image(R) == {m[t] : t \in R}
            Good == {R \in SUBSET T : SumFunctionOnSet(f, Image(R)) + SumFunctionOnSet(g, R) = 0}
<1>0. \A t \in T : g[t] \in Int
  OBVIOUS
<1>1. ASSUME NEW R \in SUBSET T, \A t \in R : R \ {t} \in Good PROVE R \in Good
  <2>1. CASE R = {}
    <3>1. Image(R) = {}
      BY <2>1
    <3>. QED BY <2>1, <3>1, SumEmpty
  <2>2. CASE R # {}
    <3>1. PICK t \in R : TRUE
      BY <2>2
    <3>. DEFINE Q == R \ {t}
    <3>2. Q \in Good /\ Q \in SUBSET T /\ IsFiniteSet(Q)
      BY <3>1, <1>1, FS_Subset
    <3>3. Image(R) = Image(Q) \cup {m[t]} /\ m[t] \notin Image(Q)
      BY <3>1
    <3>4. Image(Q) \in SUBSET S /\ m[t] \in S /\ IsFiniteSet(Image(Q))
      BY <3>2, FS_Subset
    <3>5. SumFunctionOnSet(g, R) = g[t] + SumFunctionOnSet(g, Q)
      BY <1>0, SumTerm
    <3>. HIDE DEF Image, Q
    <3>6. SumFunctionOnSet(f, Image(R)) = f[m[t]] + SumFunctionOnSet(f, Image(Q))
      <4>1. f[m[t]] \in Int /\ \A y \in Image(Q) : f[y] \in Int
        BY <3>4
      <4>2. SumFunctionOnSet(f, Image(Q) \cup {m[t]}) = f[m[t]] + SumFunctionOnSet(f, Image(Q))
        BY <3>3, <3>4, <4>1, SumAdd
      <4>. QED BY <4>2, <3>3
    <3>7. /\ SumFunctionOnSet(f, Image(Q)) \in Int /\ SumFunctionOnSet(g, Q) \in Int
          /\ f[m[t]] \in Int /\ g[t] = -f[m[t]]
      BY <1>0, <3>1, <3>2, <3>4, SumIsInt
    <3>. QED BY <3>2, <3>5, <3>6, <3>7
  <2>. QED BY <2>1, <2>2
<1>2. Good \in SUBSET (SUBSET T)
  OBVIOUS
<1>3. Good = SUBSET T
  <2>. HIDE DEF Good
  <2>. QED BY <1>1, <1>2, FiniteSteps
<1>4. T \in Good
  BY <1>3
<1>5. Image(T) = S
  OBVIOUS
<1>. QED BY <1>4, <1>5

\* A sum may be taken by parts: at[x] says in which part x is.
Parts(f, S, at, C) ==
  [c \in C |-> SumFunctionOnSet(f, {x \in S : at[x] = c})]

LEMMA SumByParts ==
  ASSUME NEW S, IsFiniteSet(S), NEW C, IsFiniteSet(C), NEW at, NEW f,
         \A x \in S : at[x] \in C /\ f[x] \in Int
  PROVE  SumFunctionOnSet(Parts(f, S, at, C), C) = SumFunctionOnSet(f, S)
<1>. DEFINE P(T) == Parts(f, T, at, C)
            Good == {T \in SUBSET S : SumFunctionOnSet(P(T), C) = SumFunctionOnSet(f, T)}
<1>0. ASSUME NEW T \in SUBSET S, NEW c \in C
      PROVE  /\ P(T)[c] = SumFunctionOnSet(f, {x \in T : at[x] = c})
             /\ P(T)[c] \in Int
  <2>1. IsFiniteSet({x \in T : at[x] = c})
    BY FS_Subset, {x \in T : at[x] = c} \in SUBSET S
  <2>2. P(T)[c] = SumFunctionOnSet(f, {x \in T : at[x] = c})
    BY DEF Parts
  <2>. QED BY <2>1, <2>2, SumIsInt
<1>. HIDE DEF P
<1>1. ASSUME NEW T \in SUBSET S, \A x \in T : T \ {x} \in Good PROVE T \in Good
  <2>1. CASE T = {}
    <3>1. \A c \in C : P(T)[c] = 0
      BY <1>0, <2>1, SumEmpty, \A c \in C : {x \in T : at[x] = c} = {}
    <3>. QED BY <3>1, <2>1, SumZero, SumEmpty
  <2>2. CASE T # {}
    <3>1. PICK x \in T : TRUE
      BY <2>2
    <3>. DEFINE R == T \ {x}
    <3>2. R \in Good /\ R \in SUBSET S /\ IsFiniteSet(R)
      BY <3>1, <1>1, FS_Subset
    <3>3. SumFunctionOnSet(f, T) = f[x] + SumFunctionOnSet(f, R)
      BY SumTerm
    <3>4. P(T)[at[x]] = f[x] + P(R)[at[x]]
      <4>. DEFINE I == {y \in T : at[y] = at[x]}
      <4>1. I \in SUBSET S /\ IsFiniteSet(I) /\ x \in I
        BY FS_Subset
      <4>2. I \ {x} = {y \in R : at[y] = at[x]}
        OBVIOUS
      <4>. HIDE DEF I
      <4>3. SumFunctionOnSet(f, I) = f[x] + SumFunctionOnSet(f, I \ {x})
        BY <4>1, SumTerm
      <4>. QED BY <4>1, <4>2, <4>3, <3>2, <1>0 DEF I
    <3>5. ASSUME NEW c \in C \ {at[x]} PROVE P(T)[c] = P(R)[c]
      <4>1. {y \in T : at[y] = c} = {y \in R : at[y] = c}
        OBVIOUS
      <4>2. P(T)[c] = SumFunctionOnSet(f, {y \in T : at[y] = c})
        BY <1>0
      <4>3. P(R)[c] = SumFunctionOnSet(f, {y \in R : at[y] = c})
        BY <3>2, <1>0
      <4>. QED BY <4>1, <4>2, <4>3
    <3>6. at[x] \in C /\ C \ {at[x]} \in SUBSET C /\ IsFiniteSet(C \ {at[x]})
      BY FS_Subset
    <3>. HIDE DEF R
    <3>7. SumFunctionOnSet(P(T), C \ {at[x]}) = SumFunctionOnSet(P(R), C \ {at[x]})
      BY <3>2, <3>5, <3>6, <1>0, SumSame
    <3>. DEFINE PT == P(T)
                PR == P(R)
    <3>14. (\A c \in C : PT[c] \in Int) /\ (\A c \in C : PR[c] \in Int)
      BY <3>2, <1>0
    <3>. HIDE DEF PT, PR
    <3>8. SumFunctionOnSet(PT, C) = PT[at[x]] + SumFunctionOnSet(PT, C \ {at[x]})
      BY <3>6, <3>14, SumOneTerm
    <3>9. SumFunctionOnSet(PR, C) = PR[at[x]] + SumFunctionOnSet(PR, C \ {at[x]})
      BY <3>6, <3>14, SumOneTerm
    <3>10. SumFunctionOnSet(PR, C \ {at[x]}) \in Int /\ PR[at[x]] \in Int /\ f[x] \in Int
      BY <3>6, <3>14, SumIsInt
    <3>11. SumFunctionOnSet(PR, C) = SumFunctionOnSet(f, R)
      BY <3>2 DEF PR
    <3>12. /\ SumFunctionOnSet(PT, C \ {at[x]}) = SumFunctionOnSet(PR, C \ {at[x]})
           /\ PT[at[x]] = f[x] + PR[at[x]]
      BY <3>4, <3>7 DEF PT, PR
    <3>13. SumFunctionOnSet(PT, C) = SumFunctionOnSet(f, T)
      BY <3>3, <3>8, <3>9, <3>10, <3>11, <3>12
    <3>. QED BY <3>13 DEF PT
  <2>. QED BY <2>1, <2>2
<1>2. Good \in SUBSET (SUBSET S)
  OBVIOUS
<1>3. Good = SUBSET S
  <2>. HIDE DEF Good
  <2>. QED BY <1>1, <1>2, FiniteSteps
<1>. QED BY <1>3 DEF P

-----------------------------------------------------------------------------
(* Sequences *)

IsSequence(s) == s \in Seq({s[k] : k \in DOMAIN s})

\* t is s with x after it, or with x in the place of its k-th element.
Appended(t, s, x) ==
  /\ IsSequence(t)
  /\ Len(s) \in Nat /\ DOMAIN s = 1..Len(s)
  /\ Len(t) = Len(s) + 1 /\ DOMAIN t = 1..(Len(s) + 1)
  /\ \A k \in DOMAIN s : t[k] = s[k]
  /\ t[Len(s) + 1] = x
Replaced(t, s, k, x) ==
  /\ IsSequence(t)
  /\ Len(t) = Len(s) /\ DOMAIN t = DOMAIN s
  /\ \A j \in DOMAIN s : t[j] = IF j = k THEN x ELSE s[j]

LEMMA AppendShape ==
  ASSUME NEW s, IsSequence(s), NEW x, NEW t, t = Append(s, x)
  PROVE  Appended(t, s, x)
<1>. DEFINE S == {s[k] : k \in DOMAIN s} \cup {x}
<1>1. s \in Seq(S)
  BY SeqMonotonic DEF IsSequence
<1>. HIDE DEF S
<1>2. x \in S
  BY DEF S
<1>3. /\ t \in Seq(S) /\ Len(t) = Len(s) + 1 /\ Len(s) \in Nat
      /\ DOMAIN s = 1..Len(s) /\ DOMAIN t = 1..(Len(s) + 1)
      /\ \A k \in 1..Len(s) : t[k] = s[k]
      /\ t[Len(s) + 1] = x
  BY <1>1, <1>2
<1>4. t \in Seq({t[k] : k \in DOMAIN t})
  BY <1>3, SeqDef
<1>. QED BY <1>3, <1>4 DEF IsSequence, Appended

LEMMA ExceptShape ==
  ASSUME NEW s, IsSequence(s), NEW k \in DOMAIN s, NEW x, NEW t, t = [s EXCEPT ![k] = x]
  PROVE  Replaced(t, s, k, x)
<1>. DEFINE S == {s[j] : j \in DOMAIN s} \cup {x}
<1>1. s \in Seq(S)
  BY SeqMonotonic DEF IsSequence
<1>. HIDE DEF S
<1>2. x \in S
  BY DEF S
<1>3. k \in 1..Len(s)
  BY <1>1
<1>4. /\ t \in Seq(S) /\ Len(t) = Len(s) /\ DOMAIN t = DOMAIN s /\ DOMAIN s = 1..Len(s)
      /\ \A j \in DOMAIN s : t[j] = IF j = k THEN x ELSE s[j]
      /\ Len(s) \in Nat
  BY <1>1, <1>2, <1>3, LenProperties
<1>5. t \in [1..Len(s) -> {t[j] : j \in DOMAIN t}]
  BY <1>4
<1>6. t \in Seq({t[j] : j \in DOMAIN t})
  <2>. DEFINE T == {t[j] : j \in DOMAIN t}
  <2>1. t \in [1..Len(s) -> T] /\ Len(s) \in Nat
    BY <1>4, <1>5
  <2>. HIDE DEF T
  <2>2. t \in UNION {[1..n -> T] : n \in Nat}
    BY <2>1
  <2>3. Seq(T) = UNION {[1..n -> T] : n \in Nat}
    BY SeqDef
  <2>. QED BY <2>2, <2>3 DEF T
<1>. QED BY <1>4, <1>6 DEF IsSequence, Replaced

=============================================================================
