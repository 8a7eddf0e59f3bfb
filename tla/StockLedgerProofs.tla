------------------------- MODULE StockLedgerProofs -------------------------
(***************************************************************************)
(* For any number of concurrent requests, any keys and any request lines:  *)
(* no committed balance is negative and every balance equals its journal.  *)
(* Both follow from LocksProtectBalances: the upsert locks the balance row *)
(* before the test reads it, and the lock is kept until commit.            *)
(*                                                                         *)
(* First, facts about SumFunctionOnSet, in which the quantities of lots,   *)
(* journal and documents are added up: what it is for no index, for one    *)
(* index more, for functions that differ in a place, and for a union.  And *)
(* about lists of lines that are worked through from the first.            *)
(*                                                                         *)
(* The induction the sums need is over sets of naturals and of finite      *)
(* sets: what is proved of all n is that the set of the n that have it is  *)
(* Nat.                                                                    *)
(***************************************************************************)
EXTENDS StockLedger, Functions, FiniteSetTheorems, WellFoundedInduction, TLAPS

LEMMA LessWellFounded == IsWellFoundedOn({ss \in Nat \X Nat : ss[1] < ss[2]}, Nat)
  BY NatLessThanWellFounded DEF OpToRel

(* A set of naturals that is not empty has a least element.                *)
LEMMA LeastNatural ==
    ASSUME NEW T, T \subseteq Nat, T # {}
    PROVE  \E n \in T : \A m \in T : n <= m
  <1> DEFINE R == {ss \in Nat \X Nat : ss[1] < ss[2]}
  <1>1. PICK n \in T : \A m \in T : <<m, n>> \notin R
    <2>1. IsWellFoundedOn(R, Nat)
      BY LessWellFounded
    <2> HIDE DEF R
    <2> QED
      BY <2>1, WFMin
  <1>2. \A m \in T : ~(m < n)
    BY <1>1
  <1> QED
    BY <1>2

(* Induction over the naturals, for a set.                                 *)
LEMMA AllNaturals ==
    ASSUME NEW N, N \subseteq Nat, 0 \in N, \A n \in N : n + 1 \in N
    PROVE  N = Nat
  <1>1. SUFFICES ASSUME Nat \ N # {} PROVE FALSE
    OBVIOUS
  <1>2. PICK n \in Nat \ N : \A m \in Nat \ N : n <= m
    BY <1>1, LeastNatural
  <1>3. n - 1 \in N
    BY <1>2
  <1> QED
    BY <1>2, <1>3

(* Induction over the subsets of a finite set, for a set of them.          *)
LEMMA AllSubsets ==
    ASSUME NEW S, IsFiniteSet(S), NEW Good,
           \A s \in SUBSET S : (\A x \in s : s \ {x} \in Good) => s \in Good
    PROVE  SUBSET S \subseteq Good
  <1> DEFINE N == {n \in Nat : \A s \in SUBSET S : Cardinality(s) = n => s \in Good}
  <1>1. 0 \in N
    <2>1. \A s \in SUBSET S : Cardinality(s) = 0 => s = {}
      BY FS_Subset, FS_EmptySet
    <2> QED
      BY <2>1
  <1>2. ASSUME NEW n \in N
        PROVE  n + 1 \in N
    <2>1. SUFFICES ASSUME NEW s \in SUBSET S, Cardinality(s) = n + 1
                   PROVE  s \in Good
      OBVIOUS
    <2>2. ASSUME NEW x \in s
          PROVE  s \ {x} \in Good
      <3>1. IsFiniteSet(s)
        BY FS_Subset
      <3>2. Cardinality(s \ {x}) = Cardinality(s) - 1
        BY <3>1, FS_RemoveElement
      <3>3. Cardinality(s \ {x}) = n /\ s \ {x} \in SUBSET S
        BY <2>1, <3>2
      <3> QED
        BY <3>3
    <2> QED
      BY <2>2
  <1>3. N = Nat
    <2>1. N \subseteq Nat
      OBVIOUS
    <2> HIDE DEF N
    <2> QED
      BY <1>1, <1>2, <2>1, AllNaturals
  <1>4. ASSUME NEW s \in SUBSET S
        PROVE  s \in Good
    <2>1. Cardinality(s) \in N
      BY <1>3, FS_Subset, FS_CardinalityType
    <2> QED
      BY <2>1
  <1> QED
    BY <1>4

----------------------------------------------------------------------------
(* How SumFunctionOnSet is defined: it takes one index after the other.    *)
FirstOf(s) == CHOOSE x \in s : TRUE
NextSum(f, g, s) ==
    IF s = {} THEN 0 ELSE f[FirstOf(s)] + g[s \ {FirstOf(s)}]

LEMMA FirstOfIn == ASSUME NEW s, s # {} PROVE FirstOf(s) \in s
  BY DEF FirstOf

LEMMA SumIsRecursive ==
    ASSUME NEW f, NEW S, IsFiniteSet(S)
    PROVE  \E g : /\ \A s \in SUBSET S : g[s] = NextSum(f, g, s)
                  /\ SumFunctionOnSet(f, S) = g[S]
  <1> DEFINE Upto(n) == {s \in SUBSET S : Cardinality(s) <= n}
             N == {n \in Nat : \E g : \A s \in Upto(n) : g[s] = NextSum(f, g, s)}
  <1>1. 0 \in N
    <2> DEFINE g == [s \in SUBSET S |-> 0]
    <2>1. \A s \in Upto(0) : s = {}
      BY FS_Subset, FS_EmptySet, FS_CardinalityType
    <2>2. \A s \in Upto(0) : g[s] = NextSum(f, g, s)
      BY <2>1 DEF NextSum
    <2> QED
      BY <2>2
  <1>2. ASSUME NEW n \in N
        PROVE  n + 1 \in N
    <2>1. PICK g : \A s \in Upto(n) : g[s] = NextSum(f, g, s)
      OBVIOUS
    <2> DEFINE h == [s \in SUBSET S |->
                       IF s \in Upto(n) THEN g[s] ELSE NextSum(f, g, s)]
    <2>2. ASSUME NEW s \in Upto(n + 1), s # {}
          PROVE  s \ {FirstOf(s)} \in Upto(n)
      <3>1. IsFiniteSet(s) /\ FirstOf(s) \in s
        BY <2>2, FS_Subset, FirstOfIn
      <3>2. Cardinality(s \ {FirstOf(s)}) = Cardinality(s) - 1 /\ Cardinality(s) \in Nat
        BY <3>1, FS_RemoveElement, FS_CardinalityType
      <3> QED
        BY <3>2
    <2>3. ASSUME NEW s \in Upto(n + 1)
          PROVE  h[s] = NextSum(f, h, s)
      <3>1. h[s] = NextSum(f, g, s)
        BY <2>1
      <3>2. NextSum(f, g, s) = NextSum(f, h, s)
        BY <2>2 DEF NextSum
      <3> QED
        BY <3>1, <3>2
    <2> HIDE DEF h
    <2> QED
      BY <2>3
  <1>3. N = Nat
    <2>1. N \subseteq Nat
      OBVIOUS
    <2> HIDE DEF N
    <2> QED
      BY <1>1, <1>2, <2>1, AllNaturals
  <1>4. PICK g : \A s \in SUBSET S : g[s] = NextSum(f, g, s)
    <2>1. Cardinality(S) \in N
      BY <1>3, FS_CardinalityType
    <2>2. \A s \in SUBSET S : s \in Upto(Cardinality(S))
      BY FS_Subset
    <2> QED
      BY <2>1, <2>2
  <1> DEFINE IsIt(h) ==
               h = [s \in SUBSET S |->
                      IF s = {} THEN 0
                      ELSE f[CHOOSE x \in s : TRUE] + h[s \ {CHOOSE x \in s : TRUE}]]
             k == [s \in SUBSET S |-> g[s]]
             iter == CHOOSE h : IsIt(h)
  <1>5. IsIt(k)
    <2>1. \A s \in SUBSET S : k[s] = NextSum(f, k, s)
      BY <1>4, FirstOfIn DEF NextSum
    <2> QED
      BY <2>1 DEF NextSum, FirstOf
  <1>6. IsIt(iter)
    <2> HIDE DEF k, IsIt
    <2> QED
      BY <1>5
  <1>7. \A s \in SUBSET S : iter[s] = NextSum(f, iter, s)
    <2> HIDE DEF iter
    <2> QED
      BY <1>6 DEF NextSum, FirstOf
  <1>8. SumFunctionOnSet(f, S) = iter[S]
    BY Zenon DEF SumFunctionOnSet, FoldFunctionOnSet, MapThenFoldSet
  <1> HIDE DEF iter
  <1> QED
    BY <1>7, <1>8

(* One step of it, whatever the value.                                     *)
LEMMA SumFirst ==
    ASSUME NEW f, NEW S, IsFiniteSet(S), S # {}
    PROVE  SumFunctionOnSet(f, S) =
             f[FirstOf(S)] + SumFunctionOnSet(f, S \ {FirstOf(S)})
  <1> DEFINE R == S \ {FirstOf(S)}
  <1>1. IsFiniteSet(R) /\ R \in SUBSET S
    BY FS_Subset
  <1>2. PICK g : /\ \A s \in SUBSET S : g[s] = NextSum(f, g, s)
                 /\ SumFunctionOnSet(f, S) = g[S]
    BY SumIsRecursive
  <1>3. PICK h : /\ \A s \in SUBSET R : h[s] = NextSum(f, h, s)
                 /\ SumFunctionOnSet(f, R) = h[R]
    BY <1>1, SumIsRecursive
  <1> DEFINE Good == {s \in SUBSET R : g[s] = h[s]}
  <1>4. ASSUME NEW s \in SUBSET R, \A x \in s : s \ {x} \in Good
        PROVE  s \in Good
    <2>1. g[s] = NextSum(f, g, s) /\ h[s] = NextSum(f, h, s)
      BY <1>1, <1>2, <1>3
    <2>2. CASE s = {}
      BY <2>1, <2>2 DEF NextSum
    <2>3. CASE s # {}
      <3>1. g[s \ {FirstOf(s)}] = h[s \ {FirstOf(s)}]
        BY <1>4, <2>3, FirstOfIn
      <3> QED
        BY <2>1, <2>3, <3>1 DEF NextSum
    <2> QED
      BY <2>2, <2>3
  <1>5. R \in Good
    <2> HIDE DEF Good, R
    <2> QED
      BY <1>1, <1>4, AllSubsets
  <1> QED
    BY <1>2, <1>3, <1>5 DEF NextSum

LEMMA SumEmpty == ASSUME NEW f PROVE SumFunctionOnSet(f, {}) = 0
  <1>1. PICK g : /\ \A s \in SUBSET {} : g[s] = NextSum(f, g, s)
                 /\ SumFunctionOnSet(f, {}) = g[{}]
    BY SumIsRecursive, FS_EmptySet
  <1> QED
    BY <1>1 DEF NextSum

LEMMA SumIsInt ==
    ASSUME NEW f, NEW S, IsFiniteSet(S), \A x \in S : f[x] \in Int
    PROVE  SumFunctionOnSet(f, S) \in Int
  <1> DEFINE Good == {s \in SUBSET S : SumFunctionOnSet(f, s) \in Int}
  <1>1. ASSUME NEW s \in SUBSET S, \A x \in s : s \ {x} \in Good
        PROVE  s \in Good
    <2>1. CASE s = {}
      BY <2>1, SumEmpty
    <2>2. CASE s # {}
      <3>1. FirstOf(s) \in s /\ IsFiniteSet(s)
        BY <2>2, FirstOfIn, FS_Subset
      <3>2. SumFunctionOnSet(f, s)
              = f[FirstOf(s)] + SumFunctionOnSet(f, s \ {FirstOf(s)})
        BY <2>2, <3>1, SumFirst
      <3>3. f[FirstOf(s)] \in Int /\ SumFunctionOnSet(f, s \ {FirstOf(s)}) \in Int
        BY <1>1, <3>1
      <3>4. SumFunctionOnSet(f, s) \in Int
        BY <3>2, <3>3
      <3> QED
        BY <3>4
    <2> QED
      BY <2>1, <2>2
  <1>2. S \in Good
    <2> HIDE DEF Good
    <2> QED
      BY <1>1, AllSubsets
  <1> QED
    BY <1>2

(* Any index may be taken first.                                           *)
LEMMA SumRemove ==
    ASSUME NEW f, NEW S, IsFiniteSet(S), \A x \in S : f[x] \in Int, NEW x \in S
    PROVE  SumFunctionOnSet(f, S) = f[x] + SumFunctionOnSet(f, S \ {x})
  <1> DEFINE Sum(s) == SumFunctionOnSet(f, s)
             Good == {s \in SUBSET S : \A y \in s : Sum(s) = f[y] + Sum(s \ {y})}
  <1>1. ASSUME NEW s \in SUBSET S, \A y \in s : s \ {y} \in Good
        PROVE  s \in Good
    <2>1. SUFFICES ASSUME NEW y \in s
                   PROVE  Sum(s) = f[y] + Sum(s \ {y})
      OBVIOUS
    <2> DEFINE c == FirstOf(s)
    <2>2. c \in s /\ Sum(s) = f[c] + Sum(s \ {c})
      BY FirstOfIn, FS_Subset, SumFirst
    <2>3. CASE y = c
      BY <2>2, <2>3
    <2>4. CASE y # c
      <3>1. Sum(s \ {c}) = f[y] + Sum((s \ {c}) \ {y})
        BY <1>1, <2>2, <2>4
      <3>2. Sum(s \ {y}) = f[c] + Sum((s \ {y}) \ {c})
        BY <1>1, <2>2, <2>4
      <3>3. (s \ {c}) \ {y} = (s \ {y}) \ {c}
        OBVIOUS
      <3>4. f[y] \in Int /\ f[c] \in Int /\ Sum((s \ {y}) \ {c}) \in Int
        BY <2>2, SumIsInt, FS_Subset
      <3>5. Sum((s \ {c}) \ {y}) = Sum((s \ {y}) \ {c})
        BY <3>3
      <3>6. Sum(s) = f[c] + Sum(s \ {c})
        BY <2>2
      <3> HIDE DEF c, Sum
      <3>7. Sum(s) = f[y] + Sum(s \ {y})
        BY <3>1, <3>2, <3>4, <3>5, <3>6
      <3> QED
        BY <3>7
    <2> QED
      BY <2>3, <2>4
  <1>2. S \in Good
    <2> HIDE DEF Good
    <2> QED
      BY <1>1, AllSubsets
  <1> QED
    BY <1>2

LEMMA SumAdd ==
    ASSUME NEW f, NEW S, IsFiniteSet(S), \A y \in S : f[y] \in Int,
           NEW x, x \notin S, f[x] \in Int
    PROVE  SumFunctionOnSet(f, S \cup {x}) = SumFunctionOnSet(f, S) + f[x]
  <1>1. IsFiniteSet(S \cup {x}) /\ (S \cup {x}) \ {x} = S
    BY FS_AddElement
  <1>2. SumFunctionOnSet(f, S \cup {x})
          = f[x] + SumFunctionOnSet(f, (S \cup {x}) \ {x})
    BY <1>1, SumRemove
  <1>3. SumFunctionOnSet(f, S) \in Int
    BY SumIsInt
  <1>4. SumFunctionOnSet(f, (S \cup {x}) \ {x}) = SumFunctionOnSet(f, S)
    BY <1>1
  <1> QED
    BY <1>2, <1>3, <1>4

(* A sum depends on the values at its indices only.                        *)
LEMMA SumSame ==
    ASSUME NEW f, NEW g, NEW S, IsFiniteSet(S), \A x \in S : f[x] = g[x]
    PROVE  SumFunctionOnSet(f, S) = SumFunctionOnSet(g, S)
  <1> DEFINE Good == {s \in SUBSET S : SumFunctionOnSet(f, s) = SumFunctionOnSet(g, s)}
  <1>1. ASSUME NEW s \in SUBSET S, \A x \in s : s \ {x} \in Good
        PROVE  s \in Good
    <2>1. CASE s = {}
      BY <2>1, SumEmpty
    <2>2. CASE s # {}
      <3>1. FirstOf(s) \in s /\ IsFiniteSet(s)
        BY <2>2, FirstOfIn, FS_Subset
      <3>2. /\ SumFunctionOnSet(f, s \ {FirstOf(s)}) = SumFunctionOnSet(g, s \ {FirstOf(s)})
            /\ f[FirstOf(s)] = g[FirstOf(s)]
        BY <1>1, <3>1
      <3>3. /\ SumFunctionOnSet(f, s) = f[FirstOf(s)] + SumFunctionOnSet(f, s \ {FirstOf(s)})
            /\ SumFunctionOnSet(g, s) = g[FirstOf(s)] + SumFunctionOnSet(g, s \ {FirstOf(s)})
        BY <2>2, <3>1, SumFirst
      <3> QED
        BY <3>2, <3>3
    <2> QED
      BY <2>1, <2>2
  <1>2. S \in Good
    <2> HIDE DEF Good
    <2> QED
      BY <1>1, AllSubsets
  <1> QED
    BY <1>2

(* Functions that differ at an index: so do their sums, by as much.        *)
LEMMA SumChange ==
    ASSUME NEW f, NEW g, NEW S, IsFiniteSet(S), NEW x \in S,
           \A y \in S : f[y] \in Int, g[x] \in Int, \A y \in S \ {x} : g[y] = f[y]
    PROVE  SumFunctionOnSet(g, S) = SumFunctionOnSet(f, S) + (g[x] - f[x])
  <1>1. IsFiniteSet(S \ {x})
    BY FS_Subset
  <1>2. SumFunctionOnSet(g, S \ {x}) = SumFunctionOnSet(f, S \ {x})
    BY <1>1, SumSame
  <1>3. /\ SumFunctionOnSet(f, S) = f[x] + SumFunctionOnSet(f, S \ {x})
        /\ SumFunctionOnSet(g, S) = g[x] + SumFunctionOnSet(g, S \ {x})
    BY SumRemove
  <1>4. SumFunctionOnSet(f, S \ {x}) \in Int
    BY <1>1, SumIsInt
  <1> QED
    BY <1>2, <1>3, <1>4

LEMMA SumZero ==
    ASSUME NEW f, NEW S, IsFiniteSet(S), \A x \in S : f[x] = 0
    PROVE  SumFunctionOnSet(f, S) = 0
  <1> DEFINE Good == {s \in SUBSET S : SumFunctionOnSet(f, s) = 0}
  <1>1. ASSUME NEW s \in SUBSET S, \A x \in s : s \ {x} \in Good
        PROVE  s \in Good
    <2>1. CASE s = {}
      BY <2>1, SumEmpty
    <2>2. CASE s # {}
      <3>1. FirstOf(s) \in s /\ IsFiniteSet(s)
        BY <2>2, FirstOfIn, FS_Subset
      <3>2. SumFunctionOnSet(f, s)
              = f[FirstOf(s)] + SumFunctionOnSet(f, s \ {FirstOf(s)})
        BY <2>2, <3>1, SumFirst
      <3>3. f[FirstOf(s)] = 0 /\ SumFunctionOnSet(f, s \ {FirstOf(s)}) = 0
        BY <1>1, <3>1
      <3>4. SumFunctionOnSet(f, s) = 0
        BY <3>2, <3>3
      <3> QED
        BY <3>4
    <2> QED
      BY <2>1, <2>2
  <1>2. S \in Good
    <2> HIDE DEF Good
    <2> QED
      BY <1>1, AllSubsets
  <1> QED
    BY <1>2

(* Term by term.                                                           *)
LEMMA SumPlus ==
    ASSUME NEW f, NEW g, NEW h, NEW S, IsFiniteSet(S),
           \A x \in S : f[x] \in Int /\ g[x] \in Int /\ h[x] = f[x] + g[x]
    PROVE  SumFunctionOnSet(h, S) = SumFunctionOnSet(f, S) + SumFunctionOnSet(g, S)
  <1> DEFINE Sum(u, s) == SumFunctionOnSet(u, s)
             Good == {s \in SUBSET S : Sum(h, s) = Sum(f, s) + Sum(g, s)}
  <1>1. ASSUME NEW s \in SUBSET S, \A x \in s : s \ {x} \in Good
        PROVE  s \in Good
    <2>1. CASE s = {}
      BY <2>1, SumEmpty
    <2>2. CASE s # {}
      <3> DEFINE c == FirstOf(s)
                 r == s \ {c}
      <3>1. c \in s /\ IsFiniteSet(s) /\ IsFiniteSet(r)
        BY <2>2, FirstOfIn, FS_Subset
      <3>2. /\ Sum(f, s) = f[c] + Sum(f, r)
            /\ Sum(g, s) = g[c] + Sum(g, r)
            /\ Sum(h, s) = h[c] + Sum(h, r)
        BY <2>2, <3>1, SumFirst
      <3>3. Sum(h, r) = Sum(f, r) + Sum(g, r)
        BY <1>1, <3>1
      <3>4. Sum(f, r) \in Int /\ Sum(g, r) \in Int
        BY <3>1, SumIsInt
      <3>5. f[c] \in Int /\ g[c] \in Int /\ h[c] = f[c] + g[c]
        BY <3>1
      <3> HIDE DEF c, r, Sum
      <3>6. Sum(h, s) = Sum(f, s) + Sum(g, s)
        BY <3>2, <3>3, <3>4, <3>5
      <3> QED
        BY <3>6
    <2> QED
      BY <2>1, <2>2
  <1>2. S \in Good
    <2> HIDE DEF Good
    <2> QED
      BY <1>1, AllSubsets
  <1> QED
    BY <1>2

LEMMA SumMinus ==
    ASSUME NEW f, NEW g, NEW h, NEW S, IsFiniteSet(S),
           \A x \in S : f[x] \in Int /\ g[x] \in Int /\ h[x] = f[x] - g[x]
    PROVE  SumFunctionOnSet(h, S) = SumFunctionOnSet(f, S) - SumFunctionOnSet(g, S)
  <1>1. \A x \in S : h[x] \in Int /\ g[x] \in Int /\ f[x] = h[x] + g[x]
    OBVIOUS
  <1>2. SumFunctionOnSet(f, S) = SumFunctionOnSet(h, S) + SumFunctionOnSet(g, S)
    BY <1>1, SumPlus
  <1>3. SumFunctionOnSet(h, S) \in Int /\ SumFunctionOnSet(g, S) \in Int
    BY <1>1, SumIsInt
  <1> QED
    BY <1>2, <1>3

LEMMA SumUnion ==
    ASSUME NEW f, NEW S, NEW T, IsFiniteSet(S), IsFiniteSet(T), S \cap T = {},
           \A x \in S \cup T : f[x] \in Int
    PROVE  SumFunctionOnSet(f, S \cup T) =
             SumFunctionOnSet(f, S) + SumFunctionOnSet(f, T)
  <1> DEFINE Sum(s) == SumFunctionOnSet(f, s)
             Good == {s \in SUBSET T : Sum(S \cup s) = Sum(S) + Sum(s)}
  <1>1. ASSUME NEW s \in SUBSET T, \A x \in s : s \ {x} \in Good
        PROVE  s \in Good
    <2>1. CASE s = {}
      <3>1. Sum({}) = 0 /\ S \cup s = S /\ Sum(S) \in Int
        BY <2>1, SumEmpty, SumIsInt
      <3> QED
        BY <2>1, <3>1
    <2>2. CASE s # {}
      <3> DEFINE c == FirstOf(s)
                 r == s \ {c}
      <3>1. c \in s /\ IsFiniteSet(s) /\ IsFiniteSet(r) /\ IsFiniteSet(S \cup r)
        BY <2>2, FirstOfIn, FS_Subset, FS_Union
      <3>2. /\ c \notin r /\ c \notin S \cup r
            /\ r \cup {c} = s /\ (S \cup r) \cup {c} = S \cup s
            /\ f[c] \in Int
        BY <3>1
      <3>3. Sum(r \cup {c}) = Sum(r) + f[c]
        BY <3>1, <3>2, SumAdd
      <3>4. Sum((S \cup r) \cup {c}) = Sum(S \cup r) + f[c]
        BY <3>1, <3>2, SumAdd
      <3>5. Sum(S \cup r) = Sum(S) + Sum(r)
        BY <1>1, <3>1
      <3>6. Sum(S) \in Int /\ Sum(r) \in Int
        BY <3>1, SumIsInt
      <3>7. Sum(r \cup {c}) = Sum(s) /\ Sum((S \cup r) \cup {c}) = Sum(S \cup s)
        BY <3>2
      <3>8. f[c] \in Int
        BY <3>2
      <3> HIDE DEF c, r, Sum
      <3>9. Sum(S \cup s) = Sum(S) + Sum(s)
        BY <3>3, <3>4, <3>5, <3>6, <3>7, <3>8
      <3> QED
        BY <3>9
    <2> QED
      BY <2>1, <2>2
  <1>2. T \in Good
    <2> HIDE DEF Good
    <2> QED
      BY <1>1, AllSubsets
  <1> QED
    BY <1>2

(* A sum over indices that are renamed one to one.                         *)
LEMMA SumRenamed ==
    ASSUME NEW f, NEW g, NEW h, NEW S, IsFiniteSet(S),
           \A x \in S : f[x] \in Int /\ f[x] = g[h[x]],
           \A x, y \in S : h[x] = h[y] => x = y
    PROVE  SumFunctionOnSet(f, S) = SumFunctionOnSet(g, {h[x] : x \in S})
  <1> DEFINE New(s) == {h[x] : x \in s}
             Good == {s \in SUBSET S :
                        /\ IsFiniteSet(New(s))
                        /\ SumFunctionOnSet(f, s) = SumFunctionOnSet(g, New(s))}
  <1>1. ASSUME NEW s \in SUBSET S, \A x \in s : s \ {x} \in Good
        PROVE  s \in Good
    <2>1. CASE s = {}
      <3>1. New(s) = {}
        BY <2>1
      <3> QED
        BY <2>1, <3>1, SumEmpty, FS_EmptySet
    <2>2. CASE s # {}
      <3> DEFINE c == FirstOf(s)
                 r == s \ {c}
      <3>1. c \in s /\ IsFiniteSet(s) /\ IsFiniteSet(r) /\ r \subseteq S
        BY <2>2, FirstOfIn, FS_Subset
      <3>2. /\ IsFiniteSet(New(r))
            /\ SumFunctionOnSet(f, r) = SumFunctionOnSet(g, New(r))
        BY <1>1, <3>1
      <3>3. /\ New(s) = New(r) \cup {h[c]} /\ h[c] \notin New(r)
            /\ \A y \in New(r) : g[y] \in Int
            /\ g[h[c]] \in Int /\ f[c] = g[h[c]]
        BY <3>1
      <3>4. SumFunctionOnSet(g, New(r) \cup {h[c]})
              = SumFunctionOnSet(g, New(r)) + g[h[c]]
        <4> HIDE DEF New, c, r
        <4> QED
          BY <3>2, <3>3, SumAdd
      <3>5. SumFunctionOnSet(f, s) = f[c] + SumFunctionOnSet(f, r)
        BY <3>1, SumRemove
      <3>6. IsFiniteSet(New(s))
        <4> HIDE DEF New, c, r
        <4> QED
          BY <3>2, <3>3, FS_AddElement
      <3>7. SumFunctionOnSet(f, r) \in Int /\ f[c] \in Int
        BY <3>1, SumIsInt
      <3> HIDE DEF New, c, r
      <3>8. SumFunctionOnSet(f, s) = SumFunctionOnSet(g, New(s))
        BY <3>2, <3>3, <3>4, <3>5, <3>7
      <3> QED
        BY <3>6, <3>8
    <2> QED
      BY <2>1, <2>2
  <1>2. S \in Good
    <2> HIDE DEF Good
    <2> QED
      BY <1>1, AllSubsets
  <1> QED
    BY <1>2

(* Indices that add nothing may be left out.                               *)
LEMMA SumOfPart ==
    ASSUME NEW f, NEW S, IsFiniteSet(S), NEW T, T \subseteq S,
           \A x \in S : f[x] \in Int, \A x \in S \ T : f[x] = 0
    PROVE  SumFunctionOnSet(f, S) = SumFunctionOnSet(f, T)
  <1> DEFINE rest == S \ T
  <1>1. /\ IsFiniteSet(T) /\ IsFiniteSet(rest) /\ S = T \cup rest
        /\ T \cap rest = {}
    BY FS_Subset
  <1>2. SumFunctionOnSet(f, rest) = 0
    BY <1>1, SumZero
  <1>3. SumFunctionOnSet(f, T) \in Int
    BY <1>1, SumIsInt
  <1>4. SumFunctionOnSet(f, T \cup rest)
          = SumFunctionOnSet(f, T) + SumFunctionOnSet(f, rest)
    <2>1. \A x \in T \cup rest : f[x] \in Int
      OBVIOUS
    <2> HIDE DEF rest
    <2> QED
      BY <1>1, <2>1, SumUnion
  <1>5. SumFunctionOnSet(f, S) = SumFunctionOnSet(f, T \cup rest)
    BY <1>1
  <1> HIDE DEF rest
  <1> QED
    BY <1>2, <1>3, <1>4, <1>5

(* The sum over one index.                                                 *)
LEMMA SumOfOne ==
    ASSUME NEW f, NEW x, f[x] \in Int
    PROVE  SumFunctionOnSet(f, {x}) = f[x]
  <1>1. SumFunctionOnSet(f, {} \cup {x}) = SumFunctionOnSet(f, {}) + f[x]
    BY SumAdd, FS_EmptySet
  <1>2. {} \cup {x} = {x}
    OBVIOUS
  <1> QED
    BY <1>1, <1>2, SumEmpty

(* A sum of quantities is a quantity.                                      *)
LEMMA SumIsNat ==
    ASSUME NEW f, NEW S, IsFiniteSet(S), \A x \in S : f[x] \in Nat
    PROVE  SumFunctionOnSet(f, S) \in Nat
  <1> DEFINE Good == {s \in SUBSET S : SumFunctionOnSet(f, s) \in Nat}
  <1>1. ASSUME NEW s \in SUBSET S, \A x \in s : s \ {x} \in Good
        PROVE  s \in Good
    <2>1. CASE s = {}
      BY <2>1, SumEmpty
    <2>2. CASE s # {}
      <3>1. FirstOf(s) \in s /\ IsFiniteSet(s)
        BY <2>2, FirstOfIn, FS_Subset
      <3>2. SumFunctionOnSet(f, s \ {FirstOf(s)}) \in Nat /\ f[FirstOf(s)] \in Nat
        BY <1>1, <3>1
      <3>3. SumFunctionOnSet(f, s)
              = f[FirstOf(s)] + SumFunctionOnSet(f, s \ {FirstOf(s)})
        BY <2>2, <3>1, SumFirst
      <3> QED
        BY <3>2, <3>3
    <2> QED
      BY <2>1, <2>2
  <1>2. S \in Good
    <2> HIDE DEF Good
    <2> QED
      BY <1>1, AllSubsets
  <1> QED
    BY <1>2
----------------------------------------------------------------------------
(* Lists of lines, worked through from the first.                          *)

LinesOf(s) == {s[i].line : i \in DOMAIN s}

(* s is what is left of t.                                                 *)
Suffix(s, t) ==
    \E n \in 0..Len(t) : /\ Len(s) = Len(t) - n
                         /\ \A i \in 1..Len(s) : s[i] = t[n + i]

(* What is left of a list: its first line is one of the list's, and one    *)
(* line less is left after it.                                             *)
LEMMA SuffixOfItself ==
    ASSUME NEW Q, NEW t \in Seq(Q)
    PROVE  Suffix(t, t)
  <1>1. Len(t) \in Nat /\ Len(t) = Len(t) - 0 /\ 0 \in 0..Len(t)
        /\ \A i \in 1..Len(t) : t[i] = t[0 + i]
    OBVIOUS
  <1> QED
    BY <1>1 DEF Suffix

LEMMA SameLines ==
    ASSUME NEW s, NEW t, NEW S, NEW T,
           \A i \in S : \E j \in T : s[i] = t[j],
           \A j \in T : \E i \in S : s[i] = t[j]
    PROVE  {s[i].line : i \in S} = {t[j].line : j \in T}
  OBVIOUS

LEMMA SuffixTail ==
    ASSUME NEW Q, NEW t \in Seq(Q), NEW s \in Seq(Q), Suffix(s, t),
           s # <<>>
    PROVE  /\ Tail(s) \in Seq(Q) /\ Suffix(Tail(s), t)
           /\ \E n \in 1..Len(t) :
                /\ Head(s) = t[n]
                /\ LinesOf(Tail(s)) = {t[i].line : i \in (n + 1)..Len(t)}
                /\ LinesOf(s) = {t[i].line : i \in n..Len(t)}
  <1>1. PICK n \in 0..Len(t) : /\ Len(s) = Len(t) - n
                               /\ \A i \in 1..Len(s) : s[i] = t[n + i]
    BY DEF Suffix
  <1>2. /\ Len(s) \in Nat \ {0} /\ Len(t) \in Nat /\ DOMAIN s = 1..Len(s)
        /\ Tail(s) \in Seq(Q) /\ Len(Tail(s)) = Len(s) - 1
        /\ \A i \in 1..(Len(s) - 1) : Tail(s)[i] = s[i + 1]
        /\ DOMAIN Tail(s) = 1..(Len(s) - 1)
        /\ Head(s) = s[1]
    OBVIOUS
  <1>3. n + 1 \in 1..Len(t) /\ Head(s) = t[n + 1]
    BY <1>1, <1>2
  <1>4. Suffix(Tail(s), t)
    <2>1. n + 1 \in 0..Len(t) /\ Len(Tail(s)) = Len(t) - (n + 1)
      BY <1>1, <1>2
    <2>2. \A i \in 1..Len(Tail(s)) : Tail(s)[i] = t[(n + 1) + i]
      BY <1>1, <1>2
    <2> QED
      BY <2>1, <2>2 DEF Suffix
  <1>5. LinesOf(s) = {t[i].line : i \in (n + 1)..Len(t)}
    <2> DEFINE S == 1..Len(s)
               T == (n + 1)..Len(t)
    <2>1. \A i \in S : n + i \in T /\ s[i] = t[n + i]
      BY <1>1, <1>2
    <2>2. \A i \in T : i - n \in S /\ s[i - n] = t[i]
      BY <1>1, <1>2
    <2>3. DOMAIN s = S
      BY <1>2
    <2> HIDE DEF S, T
    <2>4. LinesOf(s) = {t[i].line : i \in T}
      BY <2>1, <2>2, <2>3, SameLines DEF LinesOf
    <2> QED
      BY <2>4 DEF T
  <1>6. LinesOf(Tail(s)) = {t[i].line : i \in ((n + 1) + 1)..Len(t)}
    <2> DEFINE S == 1..(Len(s) - 1)
               T == ((n + 1) + 1)..Len(t)
               u == Tail(s)
    <2>1. \A i \in S : (n + 1) + i \in T /\ u[i] = t[(n + 1) + i]
      BY <1>1, <1>2
    <2>2. \A i \in T : i - (n + 1) \in S /\ u[i - (n + 1)] = t[i]
      BY <1>1, <1>2
    <2>3. DOMAIN u = S
      BY <1>2
    <2> HIDE DEF S, T, u
    <2>4. LinesOf(u) = {t[i].line : i \in T}
      BY <2>1, <2>2, <2>3, SameLines DEF LinesOf
    <2> QED
      BY <2>4 DEF T, u
  <1> QED
    BY <1>2, <1>3, <1>4, <1>5, <1>6

(* When a list has a line once, it is not among those left after it.       *)
LEMMA FirstLineOnce ==
    ASSUME NEW Q, NEW t \in Seq(Q), NEW s \in Seq(Q), Suffix(s, t), s # <<>>,
           \A i, j \in DOMAIN t : t[i].line = t[j].line => i = j
    PROVE  /\ Tail(s) \in Seq(Q) /\ Suffix(Tail(s), t)
           /\ \E n \in DOMAIN t : Head(s) = t[n]
           /\ LinesOf(s) = LinesOf(Tail(s)) \cup {Head(s).line}
           /\ Head(s).line \notin LinesOf(Tail(s))
           /\ LinesOf(s) \subseteq LinesOf(t) /\ Head(s).line \in LinesOf(t)
  <1>1. DOMAIN t = 1..Len(t) /\ Len(t) \in Nat
    OBVIOUS
  <1>2. /\ Tail(s) \in Seq(Q) /\ Suffix(Tail(s), t)
        /\ \E n \in 1..Len(t) :
             /\ Head(s) = t[n]
             /\ LinesOf(Tail(s)) = {t[i].line : i \in (n + 1)..Len(t)}
             /\ LinesOf(s) = {t[i].line : i \in n..Len(t)}
    BY SuffixTail
  <1>3. PICK n \in 1..Len(t) :
             /\ Head(s) = t[n]
             /\ LinesOf(Tail(s)) = {t[i].line : i \in (n + 1)..Len(t)}
             /\ LinesOf(s) = {t[i].line : i \in n..Len(t)}
    BY <1>2
  <1>4. n..Len(t) = ((n + 1)..Len(t)) \cup {n} /\ n..Len(t) \subseteq DOMAIN t
    BY <1>1
  <1>5. LinesOf(s) = LinesOf(Tail(s)) \cup {Head(s).line}
    BY <1>3, <1>4
  <1>6. LinesOf(s) \subseteq LinesOf(t) /\ Head(s).line \in LinesOf(t)
    BY <1>1, <1>3, <1>4 DEF LinesOf
  <1>7. Head(s).line \notin LinesOf(Tail(s))
    <2>1. \A i \in (n + 1)..Len(t) : i # n /\ i \in DOMAIN t
      BY <1>1
    <2>2. \A i \in (n + 1)..Len(t) : t[i].line # t[n].line
      BY <1>1, <2>1
    <2> QED
      BY <1>3, <2>2
  <1> QED
    BY <1>1, <1>2, <1>3, <1>5, <1>6, <1>7

LEMMA NoLines == LinesOf(<<>>) = {}
  BY DEF LinesOf

----------------------------------------------------------------------------
(* The stock ledger.                                                       *)

StockInvariant ==
    /\ StockTypeOK
    /\ OnHandNeverNegative
    /\ BalanceIsLedger
    /\ LocksProtectBalances

USE DEF StockTypeOK, IsPartial, Zero, InProgress

(* A request's first line is a line, and dropping it leaves lines.         *)
LEMMA LinesLeft ==
    ASSUME NEW w \in Workers, todo \in [Workers -> Seq(Line)], todo[w] # <<>>
    PROVE  /\ Head(todo[w]) \in Line
           /\ Tail(todo[w]) \in Seq(Line)
           /\ Head(todo[w]).key \in Keys
           /\ Head(todo[w]).qty \in Nat \ {0}
           /\ Head(todo[w]).rank \in Nat
           /\ Head(todo[w]).dir \in {"in", "out"}
           /\ Signed(Head(todo[w])) \in Int
  <1>1. todo[w] \in Seq(Line)
    OBVIOUS
  <1>2. Head(todo[w]) \in Line /\ Tail(todo[w]) \in Seq(Line)
    BY <1>1
  <1>3. QED
    BY <1>2 DEF Line, Signed

LEMMA InitInvariant == StockInit => StockInvariant
  <1> SUFFICES ASSUME StockInit PROVE StockInvariant
    OBVIOUS
  <1> USE DEF StockInit, NoLots
  <1>1. StockTypeOK
    BY LotsAssumption
  <1>2. OnHandNeverNegative /\ BalanceIsLedger
    BY LotsAssumption DEF OnHandNeverNegative, BalanceIsLedger
  <1>3. LocksProtectBalances
    BY DEF LocksProtectBalances, LocksExclusive, ChangesAreLocked,
           LockedIsCovered, LineInProgress, JournalLeadsBalance, JournalLead
  <1> QED
    BY <1>1, <1>2, <1>3 DEF StockInvariant

(* Rolling back frees the rows of a transaction and drops its changes.     *)
LEMMA RollbackInvariant ==
    ASSUME StockInvariant, NEW w \in Workers, Rollback(w)
    PROVE  StockInvariant'
  <1> USE DEF StockInvariant, Rollback, Discard, committed, NoLots
  <1>1. StockTypeOK'
    OBVIOUS
  <1>2. OnHandNeverNegative' /\ BalanceIsLedger'
    BY DEF OnHandNeverNegative, BalanceIsLedger
  <1>3. LocksProtectBalances'
    <2> USE DEF LocksProtectBalances
    <2>1. LocksExclusive'
      BY DEF LocksExclusive
    <2>2. ChangesAreLocked'
      BY DEF ChangesAreLocked
    <2>3. LockedIsCovered'
      BY DEF LockedIsCovered
    <2>4. LineInProgress'
      BY DEF LineInProgress
    <2>5. JournalLeadsBalance'
      BY DEF JournalLeadsBalance, JournalLead
    <2> QED
      BY <2>1, <2>2, <2>3, <2>4, <2>5
  <1> QED
    BY <1>1, <1>2, <1>3

(* Drawing on a lot moves no balance.                                      *)
LEMMA TakeLotInvariant ==
    ASSUME StockInvariant, NEW w \in Workers, TakeLot(w)
    PROVE  StockInvariant'
  <1> USE DEF StockInvariant, committed
  <1> PICK l \in DOMAIN snap[w] :
        /\ taken' = [taken EXCEPT ![w][l] = @ + TakeOf(w, l)]
        /\ rem' = [rem EXCEPT ![w] = @ - TakeOf(w, l)]
        /\ \/ /\ pc' = [pc EXCEPT ![w] = "upsert"]
              /\ snap' = [snap EXCEPT ![w] = NoLots]
           \/ /\ pc' = pc
              /\ snap' = [snap EXCEPT ![w] = Restrict(@, DOMAIN @ \ {l})]
    BY DEF TakeLot
  <1>1. /\ pc[w] = "take"
        /\ UNCHANGED <<onHand, ledger, lots, todo, delta, held, posted,
                       newLots, raced>>
    BY DEF TakeLot
  <1>2. StockTypeOK'
    <2>1. TakeOf(w, l) \in Nat /\ rem[w] - TakeOf(w, l) \in Nat
      BY DEF TakeOf
    <2>2. /\ rem' \in [Workers -> Nat]
          /\ taken' \in [Workers -> [LotIds -> Nat]]
      BY <2>1
    <2>3. pc' \in [Workers -> {"idle", "line", "take", "upsert", "check"}]
      OBVIOUS
    <2>4. DOMAIN snap' = Workers
          /\ \A v \in Workers : IsPartial(snap'[v], LotIds, Nat)
      <3>1. DOMAIN snap' = Workers /\ \A v \in Workers \ {w} : snap'[v] = snap[v]
        OBVIOUS
      <3>2. snap'[w] = NoLots \/ snap'[w] = Restrict(snap[w], DOMAIN snap[w] \ {l})
        OBVIOUS
      <3>3. IsPartial(NoLots, LotIds, Nat)
        BY DEF NoLots
      <3>4. IsPartial(Restrict(snap[w], DOMAIN snap[w] \ {l}), LotIds, Nat)
        BY DEF Restrict
      <3> QED
        BY <3>1, <3>2, <3>3, <3>4
    <2> QED
      BY <1>1, <2>2, <2>3, <2>4
  <1>3. OnHandNeverNegative' /\ BalanceIsLedger'
    BY <1>1 DEF OnHandNeverNegative, BalanceIsLedger
  <1>4. LocksProtectBalances'
    <2> USE DEF LocksProtectBalances
    <2>1. LocksExclusive' /\ ChangesAreLocked'
      BY <1>1 DEF LocksExclusive, ChangesAreLocked
    <2>2. LockedIsCovered'
      BY <1>1 DEF LockedIsCovered
    <2>3. LineInProgress'
      BY <1>1 DEF LineInProgress
    <2>4. JournalLeadsBalance'
      <3>1. \A v \in Workers :
              pc'[v] \in {"take", "upsert"} <=> pc[v] \in {"take", "upsert"}
        BY <1>1
      <3> QED
        BY <1>1, <3>1 DEF JournalLeadsBalance, JournalLead, Signed
    <2> QED
      BY <2>1, <2>2, <2>3, <2>4
  <1> QED
    BY <1>2, <1>3, <1>4

(* The upsert waits for the row, then owns it with its test still to come. *)
LEMMA UpsertBalanceInvariant ==
    ASSUME StockInvariant, NEW w \in Workers, UpsertBalance(w)
    PROVE  StockInvariant'
  <1> USE DEF StockInvariant, committed, UpsertBalance, BalanceFree
  <1>1. /\ todo[w] # <<>> /\ Head(todo[w]).key \in Keys
        /\ Signed(Head(todo[w])) \in Int
    BY LinesLeft DEF LocksProtectBalances, LineInProgress
  <1>2. StockTypeOK'
    BY <1>1
  <1>3. OnHandNeverNegative' /\ BalanceIsLedger'
    BY DEF OnHandNeverNegative, BalanceIsLedger
  <1>4. LocksProtectBalances'
    <2> USE DEF LocksProtectBalances
    <2>1. LocksExclusive'
      BY SMTT(30), <1>1 DEF LocksExclusive
    <2>2. ChangesAreLocked'
      BY <1>1 DEF ChangesAreLocked
    <2>3. LockedIsCovered'
      BY <1>1 DEF LockedIsCovered
    <2>4. LineInProgress'
      BY <1>1 DEF LineInProgress
    <2>5. JournalLeadsBalance'
      <3> SUFFICES ASSUME NEW v \in Workers, NEW k \in Keys
                   PROVE  posted'[v][k] = delta'[v][k] + JournalLead(v, k)'
        BY DEF JournalLeadsBalance
      <3>1. CASE v = w
        BY <3>1, <1>1 DEF JournalLeadsBalance, JournalLead
      <3>2. CASE v # w
        BY <3>2 DEF JournalLeadsBalance, JournalLead
      <3> QED
        BY <3>1, <3>2
    <2> QED
      BY <2>1, <2>2, <2>3, <2>4, <2>5
  <1> QED
    BY <1>2, <1>3, <1>4

LEMMA BeginInvariant ==
    ASSUME StockInvariant, NEW w \in Workers, NEW request \in Requests,
           Begin(w, request)
    PROVE  StockInvariant'
  <1> USE DEF StockInvariant, committed, Begin
  <1>1. request \in Seq(Line)
    BY RequestsAssumption
  <1>2. StockTypeOK'
    BY <1>1
  <1>3. OnHandNeverNegative' /\ BalanceIsLedger'
    BY DEF OnHandNeverNegative, BalanceIsLedger
  <1>4. LocksProtectBalances'
    <2> USE DEF LocksProtectBalances
    <2>1. LocksExclusive' /\ ChangesAreLocked'
      BY DEF LocksExclusive, ChangesAreLocked
    <2>2. LockedIsCovered'
      BY DEF LockedIsCovered
    <2>3. LineInProgress'
      BY DEF LineInProgress
    <2>4. JournalLeadsBalance'
      BY DEF JournalLeadsBalance, JournalLead, Signed
    <2> QED
      BY <2>1, <2>2, <2>3, <2>4
  <1> QED
    BY <1>2, <1>3, <1>4

(* The journal entry of an OUT line is written before its balance change.  *)
LEMMA SelectLotsInvariant ==
    ASSUME StockInvariant, NEW w \in Workers, SelectLots(w)
    PROVE  StockInvariant'
  <1> DEFINE line == Head(todo[w])
             rows == [l \in Candidates(w, line.key) |-> VisibleAvail(w, l)]
  <1>1. CASE SumFunction(rows) < line.qty
    BY <1>1, RollbackInvariant DEF SelectLots
  <1>2. CASE ~(SumFunction(rows) < line.qty)
    <2> USE DEF StockInvariant, committed
    <2>1. /\ pc[w] = "line" /\ todo[w] # <<>> /\ line.dir = "out"
          /\ pc' = [pc EXCEPT ![w] = "take"]
          /\ snap' = [snap EXCEPT ![w] = rows]
          /\ rem' = [rem EXCEPT ![w] = line.qty]
          /\ posted' = [posted EXCEPT ![w][line.key] = @ - line.qty]
          /\ raced' \subseteq Keys
          /\ UNCHANGED <<onHand, ledger, lots, todo, delta, held, taken, newLots>>
      <3>1. line.key \in Keys
        BY LinesLeft DEF SelectLots
      <3> QED
        BY <1>2, <3>1 DEF SelectLots, NoteRace
    <2>2. /\ line.key \in Keys /\ line.qty \in Nat
          /\ Signed(line) = -line.qty
      BY <2>1, LinesLeft DEF Signed
    <2>3. IsPartial(rows, LotIds, Nat)
      <3>1. \A l \in Candidates(w, line.key) :
              l \in LotIds /\ VisibleAvail(w, l) \in Nat
        <4> SUFFICES ASSUME NEW l \in Candidates(w, line.key)
                     PROVE  l \in LotIds /\ VisibleAvail(w, l) \in Nat
          OBVIOUS
        <4>1. l \in DOMAIN lots /\ l \in LotIds /\ VisibleAvail(w, l) > 0
          BY DEF Candidates
        <4>2. lots[l] \in Lot /\ lots[l].avail \in Int
          BY <4>1 DEF Lot
        <4>3. taken[w][l] \in Nat
          BY <4>1
        <4> QED
          BY <4>1, <4>2, <4>3 DEF VisibleAvail
      <3> QED
        BY <3>1 DEF Candidates
    <2>4. StockTypeOK'
      <3>1. DOMAIN snap' = Workers
            /\ \A v \in Workers : IsPartial(snap'[v], LotIds, Nat)
        BY <2>1, <2>3
      <3>2. posted' \in [Workers -> [Keys -> Int]]
        BY <2>1, <2>2
      <3> QED
        BY <2>1, <2>2, <3>1, <3>2
    <2>5. OnHandNeverNegative' /\ BalanceIsLedger'
      BY <2>1 DEF OnHandNeverNegative, BalanceIsLedger
    <2>6. LocksProtectBalances'
      <3> USE DEF LocksProtectBalances
      <3>1. LocksExclusive' /\ ChangesAreLocked'
        BY <2>1 DEF LocksExclusive, ChangesAreLocked
      <3>2. LockedIsCovered'
        BY <2>1 DEF LockedIsCovered
      <3>3. LineInProgress'
        BY <2>1 DEF LineInProgress
      <3>4. JournalLeadsBalance'
        <4> SUFFICES ASSUME NEW v \in Workers, NEW k \in Keys
                     PROVE  posted'[v][k] = delta'[v][k] + JournalLead(v, k)'
          BY DEF JournalLeadsBalance
        <4>1. CASE v = w
          <5>1. posted[w][k] = delta[w][k] + 0 /\ delta[w][k] \in Int
            BY <2>1, <2>2 DEF JournalLeadsBalance, JournalLead
          <5>2. posted'[w][k] = IF k = line.key THEN posted[w][k] - line.qty
                                                ELSE posted[w][k]
            BY <2>1, <2>2
          <5> QED
            BY <4>1, <5>1, <5>2, <2>1, <2>2 DEF JournalLead
        <4>2. CASE v # w
          BY <4>2, <2>1, <2>2 DEF JournalLeadsBalance, JournalLead
        <4> QED
          BY <4>1, <4>2
      <3> QED
        BY <3>1, <3>2, <3>3, <3>4
    <2> QED
      BY <2>4, <2>5, <2>6
  <1> QED
    BY <1>1, <1>2

(* So is that of an IN line, beside its new lot.                           *)
LEMMA InsertLotInvariant ==
    ASSUME StockInvariant, NEW w \in Workers, InsertLot(w)
    PROVE  StockInvariant'
  <1> USE DEF StockInvariant, committed
  <1> DEFINE line == Head(todo[w])
             row == [key |-> line.key, rank |-> line.rank, avail |-> line.qty]
  <1>1. PICK id \in LotIds :
          newLots' = [newLots EXCEPT
                       ![w] = [l \in DOMAIN @ \cup {id} |->
                                 IF l = id THEN row ELSE @[l]]]
    BY DEF InsertLot, UnusedIds
  <1>2. /\ line.key \in Keys /\ line.qty \in Nat /\ line.rank \in Nat
        /\ Signed(line) = line.qty
    BY LinesLeft DEF InsertLot, Signed
  <1>3. /\ pc[w] = "line" /\ todo[w] # <<>>
        /\ pc' = [pc EXCEPT ![w] = "upsert"]
        /\ posted' = [posted EXCEPT ![w][line.key] = @ + line.qty]
        /\ raced' \subseteq Keys
        /\ UNCHANGED <<onHand, ledger, lots, todo, snap, rem, delta, held, taken>>
    BY <1>2 DEF InsertLot, NoteRace
  <1>4. StockTypeOK'
    <2>1. row \in Lot
      BY <1>2 DEF Lot
    <2>2. IsPartial([l \in DOMAIN newLots[w] \cup {id} |->
                       IF l = id THEN row ELSE newLots[w][l]], LotIds, Lot)
      BY <2>1
    <2>3. DOMAIN newLots' = Workers
          /\ \A v \in Workers : IsPartial(newLots'[v], LotIds, Lot)
      BY <1>1, <2>2
    <2> QED
      BY SMTT(30), <1>2, <1>3, <2>3
  <1>5. OnHandNeverNegative' /\ BalanceIsLedger'
    BY <1>3 DEF OnHandNeverNegative, BalanceIsLedger
  <1>6. LocksProtectBalances'
    <2> USE DEF LocksProtectBalances
    <2>1. LocksExclusive' /\ ChangesAreLocked'
      BY <1>3 DEF LocksExclusive, ChangesAreLocked
    <2>2. LockedIsCovered'
      BY <1>3 DEF LockedIsCovered
    <2>3. LineInProgress'
      BY <1>3 DEF LineInProgress
    <2>4. JournalLeadsBalance'
      <3> SUFFICES ASSUME NEW v \in Workers, NEW k \in Keys
                   PROVE  posted'[v][k] = delta'[v][k] + JournalLead(v, k)'
        BY DEF JournalLeadsBalance
      <3>1. CASE v = w
        <4>1. posted[w][k] = delta[w][k] + 0 /\ delta[w][k] \in Int
          BY <1>2, <1>3 DEF JournalLeadsBalance, JournalLead
        <4>2. posted'[w][k] = IF k = line.key THEN posted[w][k] + line.qty
                                              ELSE posted[w][k]
          BY <1>2, <1>3
        <4> QED
          BY <3>1, <4>1, <4>2, <1>2, <1>3 DEF JournalLead
      <3>2. CASE v # w
        BY <3>2, <1>2, <1>3 DEF JournalLeadsBalance, JournalLead
      <3> QED
        BY <3>1, <3>2
    <2> QED
      BY <2>1, <2>2, <2>3, <2>4
  <1> QED
    BY <1>4, <1>5, <1>6

(* The test leaves the row it read non-negative, or nothing at all.        *)
LEMMA CheckBalanceInvariant ==
    ASSUME StockInvariant, NEW w \in Workers, CheckBalance(w)
    PROVE  StockInvariant'
  <1> DEFINE k0 == Head(todo[w]).key
  <1>1. CASE onHand[k0] + delta[w][k0] < 0
    BY <1>1, RollbackInvariant DEF CheckBalance
  <1>2. CASE ~(onHand[k0] + delta[w][k0] < 0)
    <2> USE DEF StockInvariant, committed
    <2>1. /\ pc[w] = "check"
          /\ pc' = [pc EXCEPT ![w] = "line"]
          /\ todo' = [todo EXCEPT ![w] = Tail(@)]
          /\ UNCHANGED <<onHand, ledger, lots, snap, rem, delta, held, posted,
                         taken, newLots, raced>>
      BY <1>2 DEF CheckBalance
    <2>2. /\ todo[w] # <<>> /\ k0 \in Keys /\ Tail(todo[w]) \in Seq(Line)
          /\ onHand[k0] + delta[w][k0] >= 0
      BY <1>2, <2>1, LinesLeft DEF LineInProgress, LocksProtectBalances
    <2>3. StockTypeOK'
      BY <2>1, <2>2
    <2>4. OnHandNeverNegative' /\ BalanceIsLedger'
      BY <2>1 DEF OnHandNeverNegative, BalanceIsLedger
    <2>5. LocksProtectBalances'
      <3> USE DEF LocksProtectBalances
      <3>1. LocksExclusive' /\ ChangesAreLocked'
        BY <2>1 DEF LocksExclusive, ChangesAreLocked
      <3>2. LockedIsCovered'
        BY <2>1, <2>2 DEF LockedIsCovered
      <3>3. LineInProgress'
        BY <2>1 DEF LineInProgress
      <3>4. JournalLeadsBalance'
        BY <2>1 DEF JournalLeadsBalance, JournalLead, Signed
      <3> QED
        BY <3>1, <3>2, <3>3, <3>4
    <2> QED
      BY <2>3, <2>4, <2>5
  <1> QED
    BY <1>1, <1>2

(* A commit publishes only rows it owned and tested.                       *)
LEMMA CommitInvariant ==
    ASSUME StockInvariant, NEW w \in Workers, Commit(w)
    PROVE  StockInvariant'
  <1> USE DEF StockInvariant
  <1>1. /\ pc[w] = "line" /\ todo[w] = <<>>
        /\ onHand' = [k \in Keys |-> onHand[k] + delta[w][k]]
        /\ ledger' = [k \in Keys |-> ledger[k] + posted[w][k]]
        /\ Discard(w) /\ UNCHANGED raced
    BY DEF Commit
  <1>2. IsPartial(lots', LotIds, Lot)
    <2> DEFINE row(l) == IF l \in DOMAIN lots
                         THEN [lots[l] EXCEPT !.avail = @ - taken[w][l]]
                         ELSE newLots[w][l]
               ids == DOMAIN lots \cup DOMAIN newLots[w]
    <2>1. lots' = [l \in ids |-> row(l)]
      BY DEF Commit
    <2>2. ids \subseteq LotIds
      OBVIOUS
    <2>3. ASSUME NEW l \in ids PROVE row(l) \in Lot
      <3>1. CASE l \in DOMAIN lots
        <4>1. lots[l] \in Lot /\ taken[w][l] \in Nat
          BY <2>2, <3>1
        <4>2. lots[l].avail - taken[w][l] \in Int
          BY <4>1 DEF Lot
        <4>3. [lots[l] EXCEPT !.avail = lots[l].avail - taken[w][l]] \in Lot
          BY <4>1, <4>2 DEF Lot
        <4> QED
          BY <3>1, <4>3
      <3>2. CASE l \notin DOMAIN lots
        BY <3>2
      <3> QED
        BY <3>1, <3>2
    <2> HIDE DEF row, ids
    <2> QED
      BY <2>1, <2>2, <2>3
  <1>3. StockTypeOK'
    BY <1>1, <1>2 DEF Discard, NoLots
  <1>4. \A k \in Keys : posted[w][k] = delta[w][k]
    BY <1>1 DEF LocksProtectBalances, JournalLeadsBalance, JournalLead
  <1>5. \A k \in Keys : onHand[k] + delta[w][k] >= 0
    <2> SUFFICES ASSUME NEW k \in Keys PROVE onHand[k] + delta[w][k] >= 0
      OBVIOUS
    <2>1. CASE k \in held[w]
      BY <1>1, <2>1 DEF LocksProtectBalances, LockedIsCovered
    <2>2. CASE k \notin held[w]
      BY <2>2 DEF LocksProtectBalances, ChangesAreLocked, OnHandNeverNegative
    <2> QED
      BY <2>1, <2>2
  <1>6. OnHandNeverNegative' /\ BalanceIsLedger'
    BY <1>1, <1>4, <1>5 DEF OnHandNeverNegative, BalanceIsLedger
  <1>7. LocksProtectBalances'
    <2> USE DEF LocksProtectBalances, Discard, NoLots
    <2>1. LocksExclusive'
      BY <1>1 DEF LocksExclusive
    <2>2. ChangesAreLocked'
      BY <1>1 DEF ChangesAreLocked
    <2>3. LockedIsCovered'
      <3> SUFFICES ASSUME NEW v \in Workers \ {w}, NEW k \in held[v]
                   PROVE  \/ onHand'[k] + delta'[v][k] >= 0
                          \/ pc'[v] = "check" /\ InProgress(v, k)'
        BY <1>1 DEF LockedIsCovered
      <3>1. k \in Keys /\ k \notin held[w]
        BY DEF LocksExclusive
      <3>2. onHand'[k] = onHand[k]
        BY <1>1, <3>1 DEF ChangesAreLocked
      <3> QED
        BY <1>1, <3>2 DEF LockedIsCovered
    <2>4. LineInProgress'
      BY <1>1 DEF LineInProgress
    <2>5. JournalLeadsBalance'
      BY <1>1 DEF JournalLeadsBalance, JournalLead
    <2> QED
      BY <2>1, <2>2, <2>3, <2>4, <2>5
  <1> QED
    BY <1>3, <1>6, <1>7

LEMMA NextInvariant ==
    StockInvariant /\ [StockNext]_stockVars => StockInvariant'
  <1> SUFFICES ASSUME StockInvariant, [StockNext]_stockVars
               PROVE  StockInvariant'
    OBVIOUS
  <1>1. ASSUME NEW w \in Workers, NEW request \in Requests, Begin(w, request)
        PROVE  StockInvariant'
    BY <1>1, BeginInvariant
  <1>2. ASSUME NEW w \in Workers, Step(w)
        PROVE  StockInvariant'
    BY <1>2, SelectLotsInvariant, TakeLotInvariant, InsertLotInvariant,
       UpsertBalanceInvariant, CheckBalanceInvariant, CommitInvariant
    DEF Step
  <1>3. ASSUME NEW w \in Workers, Crash(w) \/ DeadlockVictim(w)
        PROVE  StockInvariant'
    BY <1>3, RollbackInvariant DEF Crash, DeadlockVictim
  <1>4. CASE UNCHANGED stockVars
    BY <1>4 DEF stockVars, committed, pending, StockInvariant,
       OnHandNeverNegative, BalanceIsLedger, LocksProtectBalances,
       LocksExclusive, ChangesAreLocked, LockedIsCovered, LineInProgress,
       JournalLeadsBalance, JournalLead, Signed
  <1> QED
    BY <1>1, <1>2, <1>3, <1>4 DEF StockNext

LEMMA InvariantHolds == StockSafety => []StockInvariant
  BY InitInvariant, NextInvariant, PTL DEF StockSafety

(* Every variable keeps the shape of its table or local variable: in       *)
(* particular allocateLotsFIFO never takes more than remains to be taken.  *)
THEOREM TypeCorrect == StockSafety => []StockTypeOK
  <1>1. StockInvariant => StockTypeOK
    BY DEF StockInvariant
  <1> QED
    BY <1>1, InvariantHolds, PTL

(* The row lock taken by the upsert of applyBalanceDelta protects the row  *)
(* until commit, whatever the number of requests and the order of lines.   *)
THEOREM BalancesProtected == StockSafety => []LocksProtectBalances
  <1>1. StockInvariant => LocksProtectBalances
    BY DEF StockInvariant
  <1> QED
    BY <1>1, InvariantHolds, PTL

(* No committed qty_on_hand is negative.                                   *)
THEOREM NeverNegative == StockSafety => []OnHandNeverNegative
  <1>1. StockInvariant => OnHandNeverNegative
    BY DEF StockInvariant
  <1> QED
    BY <1>1, InvariantHolds, PTL

(* Every balance equals the sum of its journal.                            *)
THEOREM LedgerAgrees == StockSafety => []BalanceIsLedger
  <1>1. StockInvariant => BalanceIsLedger
    BY DEF StockInvariant
  <1> QED
    BY <1>1, InvariantHolds, PTL
----------------------------------------------------------------------------
(* The lots.  A commit moves the lots of a key by what the transaction     *)
(* inserted less what it took, and the balance by what it journalled: the  *)
(* two agree once nothing is left to take, and until then the journal is   *)
(* ahead by what allocateLotsFIFO still has to take for the line.          *)

KeyLots(k) == {l \in DOMAIN lots : lots[l].key = k}
KeyInserts(w, k) == {l \in DOMAIN newLots[w] : newLots[w][l].key = k}

Taken(w, k) == SumFunctionOnSet(taken[w], KeyLots(k))
Inserted(w, k) ==
    SumFunctionOnSet([l \in DOMAIN newLots[w] |-> newLots[w][l].avail],
                     KeyInserts(w, k))
Outstanding(w, k) == IF pc[w] = "take" /\ InProgress(w, k) THEN rem[w] ELSE 0

(* The plan of a transaction is made of rows of its line's key, and there  *)
(* is something to take while it has one.                                  *)
PlanIsOfTheLine(w) ==
    /\ pc[w] = "take" => rem[w] > 0
    /\ \A l \in DOMAIN snap[w] :
         /\ pc[w] = "take"
         /\ l \in DOMAIN lots /\ lots[l].key = Head(todo[w]).key
         /\ snap[w][l] > 0

(* Only rows that are there are drawn on, and only new ones inserted.      *)
LotsAreApart(w) ==
    /\ \A l \in LotIds : taken[w][l] # 0 => l \in DOMAIN lots
    /\ DOMAIN newLots[w] \cap DOMAIN lots = {}
    /\ \A v \in Workers \ {w} : DOMAIN newLots[w] \cap DOMAIN newLots[v] = {}

LotsFollowJournal(w) ==
    \A k \in Keys : posted[w][k] = Inserted(w, k) - Taken(w, k) - Outstanding(w, k)

LotsInvariant ==
    /\ \A w \in Workers : /\ PlanIsOfTheLine(w)
                          /\ LotsAreApart(w)
                          /\ LotsFollowJournal(w)
    /\ LotsMatchBalance

LEMMA LotSetsAreFinite == \A S \in SUBSET LotIds : IsFiniteSet(S)
  <1>1. MaxLots \in Int
    BY LotsAssumption
  <1>2. IsFiniteSet(LotIds)
    BY <1>1, FS_Interval DEF LotIds
  <1> QED
    BY <1>2, FS_Subset

LEMMA LotsAreFinite ==
    ASSUME StockTypeOK
    PROVE  /\ IsFiniteSet(DOMAIN lots)
           /\ \A k \in Keys : IsFiniteSet(KeyLots(k)) /\ KeyLots(k) \subseteq LotIds
           /\ \A w \in Workers : IsFiniteSet(DOMAIN newLots[w])
           /\ \A w \in Workers, k \in Keys : IsFiniteSet(KeyInserts(w, k))
  <1>1. DOMAIN lots \subseteq LotIds
    OBVIOUS
  <1>2. \A w \in Workers : DOMAIN newLots[w] \subseteq LotIds
    OBVIOUS
  <1>3. \A k \in Keys : KeyLots(k) \subseteq LotIds
    BY <1>1 DEF KeyLots
  <1>4. \A w \in Workers, k \in Keys : KeyInserts(w, k) \subseteq LotIds
    BY <1>2 DEF KeyInserts
  <1> QED
    BY <1>1, <1>2, <1>3, <1>4, LotSetsAreFinite

LEMMA LotTypes ==
    ASSUME StockTypeOK
    PROVE  /\ \A l \in DOMAIN lots : /\ lots[l].avail \in Int /\ lots[l].key \in Keys
                                    /\ lots[l].rank \in Nat /\ l \in LotIds
           /\ \A w \in Workers : \A l \in DOMAIN newLots[w] :
                /\ newLots[w][l].avail \in Int /\ newLots[w][l].key \in Keys
                /\ l \in LotIds
  BY DEF Lot

LEMMA LotSumTypes ==
    ASSUME StockTypeOK, NEW w \in Workers, NEW k \in Keys
    PROVE  /\ Taken(w, k) \in Int /\ Inserted(w, k) \in Int
           /\ SumAvail(k) \in Int /\ Outstanding(w, k) \in Int
  <1>1. Taken(w, k) \in Int
    BY LotsAreFinite, SumIsInt DEF Taken
  <1>2. Inserted(w, k) \in Int
    <2> DEFINE f == [l \in DOMAIN newLots[w] |-> newLots[w][l].avail]
    <2>1. \A l \in KeyInserts(w, k) : f[l] \in Int
      BY LotTypes DEF KeyInserts
    <2> QED
      BY <2>1, LotsAreFinite, SumIsInt DEF Inserted
  <1>3. SumAvail(k) \in Int
    <2> DEFINE f == [l \in DOMAIN lots |-> lots[l].avail]
    <2>1. \A l \in KeyLots(k) : f[l] \in Int
      BY LotTypes DEF KeyLots
    <2> QED
      BY <2>1, LotsAreFinite, SumIsInt DEF SumAvail, KeyLots
  <1>4. Outstanding(w, k) \in Int
    BY DEF Outstanding
  <1> QED
    BY <1>1, <1>2, <1>3, <1>4

LEMMA InitLotsInvariant == StockInit => LotsInvariant
  <1> SUFFICES ASSUME StockInit PROVE LotsInvariant
    OBVIOUS
  <1>0. StockTypeOK
    BY InitInvariant DEF StockInvariant
  <1>1. ASSUME NEW w \in Workers
        PROVE  PlanIsOfTheLine(w) /\ LotsAreApart(w)
    BY DEF StockInit, NoLots, PlanIsOfTheLine, LotsAreApart
  <1>2. ASSUME NEW w \in Workers
        PROVE  LotsFollowJournal(w)
    <2> SUFFICES ASSUME NEW k \in Keys
                 PROVE  posted[w][k] = Inserted(w, k) - Taken(w, k) - Outstanding(w, k)
      BY DEF LotsFollowJournal
    <2>1. Taken(w, k) = 0
      BY <1>0, LotsAreFinite, SumZero DEF Taken, StockInit
    <2>2. KeyInserts(w, k) = {}
      BY DEF KeyInserts, StockInit, NoLots
    <2>3. Inserted(w, k) = 0
      BY <2>2, SumEmpty DEF Inserted
    <2>4. Outstanding(w, k) = 0 /\ posted[w][k] = 0
      BY DEF Outstanding, StockInit
    <2> QED
      BY <2>1, <2>3, <2>4
  <1>3. LotsMatchBalance
    BY LotsAssumption DEF LotsMatchBalance, SumAvail, StockInit
  <1> QED
    BY <1>1, <1>2, <1>3 DEF LotsInvariant
(* What a step of one request leaves to the others.                        *)
LEMMA OthersKeepLots ==
    ASSUME LotsInvariant, NEW v \in Workers, lots' = lots,
           pc'[v] = pc[v], todo'[v] = todo[v], snap'[v] = snap[v],
           rem'[v] = rem[v], posted'[v] = posted[v], taken'[v] = taken[v],
           newLots'[v] = newLots[v]
    PROVE  PlanIsOfTheLine(v)' /\ LotsFollowJournal(v)'
  <1>1. PlanIsOfTheLine(v)'
    BY DEF LotsInvariant, PlanIsOfTheLine
  <1>2. LotsFollowJournal(v)'
    <2> SUFFICES ASSUME NEW k \in Keys
                 PROVE  posted'[v][k]
                          = Inserted(v, k)' - Taken(v, k)' - Outstanding(v, k)'
      BY DEF LotsFollowJournal
    <2>1. KeyLots(k)' = KeyLots(k) /\ KeyInserts(v, k)' = KeyInserts(v, k)
      BY DEF KeyLots, KeyInserts
    <2>2. Taken(v, k)' = Taken(v, k)
      BY <2>1 DEF Taken
    <2>3. Inserted(v, k)' = Inserted(v, k)
      BY <2>1 DEF Inserted
    <2>4. Outstanding(v, k)' = Outstanding(v, k)
      BY DEF Outstanding
    <2> QED
      BY <2>2, <2>3, <2>4 DEF LotsInvariant, LotsFollowJournal
  <1> QED
    BY <1>1, <1>2

(* A request that has ended, or not begun to post, moved no lot.           *)
LEMMA DiscardLots ==
    ASSUME StockInvariant, StockInvariant', NEW w \in Workers, Discard(w)
    PROVE  PlanIsOfTheLine(w)' /\ LotsFollowJournal(w)'
  <1> USE DEF Discard, NoLots, StockInvariant
  <1>1. PlanIsOfTheLine(w)'
    BY DEF PlanIsOfTheLine
  <1>2. LotsFollowJournal(w)'
    <2> SUFFICES ASSUME NEW k \in Keys
                 PROVE  posted'[w][k]
                          = Inserted(w, k)' - Taken(w, k)' - Outstanding(w, k)'
      BY DEF LotsFollowJournal
    <2>1. IsFiniteSet(KeyLots(k)') /\ KeyLots(k)' \subseteq LotIds
      <3>1. KeyLots(k)' \subseteq LotIds
        BY DEF KeyLots
      <3> QED
        BY <3>1, LotSetsAreFinite
    <2>2. Taken(w, k)' = 0
      BY <2>1, SumZero DEF Taken
    <2>3. KeyInserts(w, k)' = {}
      BY DEF KeyInserts
    <2>4. Inserted(w, k)' = 0
      BY <2>3, SumEmpty DEF Inserted
    <2>5. Outstanding(w, k)' = 0 /\ posted'[w][k] = 0
      BY DEF Outstanding
    <2> QED
      BY <2>2, <2>4, <2>5
  <1> QED
    BY <1>1, <1>2
LEMMA RollbackLots ==
    ASSUME StockInvariant, StockInvariant', LotsInvariant, NEW w \in Workers,
           Rollback(w)
    PROVE  LotsInvariant'
  <1> USE DEF Rollback, committed
  <1>1. ASSUME NEW v \in Workers
        PROVE  PlanIsOfTheLine(v)' /\ LotsFollowJournal(v)'
    <2>1. CASE v = w
      BY <2>1, DiscardLots
    <2>2. CASE v # w
      BY <2>2, OthersKeepLots DEF Discard, StockInvariant
    <2> QED
      BY <2>1, <2>2
  <1>2. ASSUME NEW v \in Workers
        PROVE  LotsAreApart(v)'
    BY DEF LotsInvariant, LotsAreApart, Discard, StockInvariant, NoLots
  <1>3. LotsMatchBalance'
    BY DEF LotsInvariant, LotsMatchBalance, SumAvail
  <1> QED
    BY <1>1, <1>2, <1>3 DEF LotsInvariant

(* Begin, the upsert and the test leave the lots and their plans alone.    *)
LEMMA LotsUntouched ==
    ASSUME StockInvariant, StockInvariant', LotsInvariant, NEW w \in Workers,
           UNCHANGED <<onHand, lots, snap, rem, posted, taken, newLots>>,
           \A v \in Workers \ {w} : pc'[v] = pc[v] /\ todo'[v] = todo[v],
           pc[w] # "take", pc'[w] # "take"
    PROVE  LotsInvariant'
  <1>1. ASSUME NEW v \in Workers
        PROVE  PlanIsOfTheLine(v)' /\ LotsFollowJournal(v)'
    <2>1. CASE v = w
      <3>1. PlanIsOfTheLine(v)'
        BY <2>1 DEF LotsInvariant, PlanIsOfTheLine
      <3>2. ASSUME NEW k \in Keys
            PROVE  /\ Taken(v, k)' = Taken(v, k)
                   /\ Inserted(v, k)' = Inserted(v, k)
                   /\ Outstanding(v, k)' = Outstanding(v, k)
        <4>1. KeyLots(k)' = KeyLots(k) /\ KeyInserts(v, k)' = KeyInserts(v, k)
          BY DEF KeyLots, KeyInserts
        <4> QED
          BY <2>1, <4>1 DEF Taken, Inserted, Outstanding
      <3> QED
        BY <3>1, <3>2 DEF LotsInvariant, LotsFollowJournal
    <2>2. CASE v # w
      BY <2>2, OthersKeepLots
    <2> QED
      BY <2>1, <2>2
  <1>2. ASSUME NEW v \in Workers
        PROVE  LotsAreApart(v)'
    BY DEF LotsInvariant, LotsAreApart
  <1>3. LotsMatchBalance'
    BY DEF LotsInvariant, LotsMatchBalance, SumAvail
  <1> QED
    BY <1>1, <1>2, <1>3 DEF LotsInvariant
LEMMA SelectLotsLots ==
    ASSUME StockInvariant, StockInvariant', LotsInvariant, NEW w \in Workers,
           SelectLots(w)
    PROVE  LotsInvariant'
  <1> DEFINE line == Head(todo[w])
             rows == [l \in Candidates(w, line.key) |-> VisibleAvail(w, l)]
  <1>1. CASE SumFunction(rows) < line.qty
    BY <1>1, RollbackLots DEF SelectLots
  <1>2. CASE ~(SumFunction(rows) < line.qty)
    <2>1. /\ line.key \in Keys /\ line.qty \in Nat \ {0} /\ line.dir = "out"
          /\ pc[w] = "line" /\ todo[w] # <<>>
      BY LinesLeft DEF SelectLots, StockInvariant
    <2>2. /\ pc' = [pc EXCEPT ![w] = "take"]
          /\ snap' = [snap EXCEPT ![w] = rows]
          /\ rem' = [rem EXCEPT ![w] = line.qty]
          /\ posted' = [posted EXCEPT ![w][line.key] = @ - line.qty]
          /\ UNCHANGED <<onHand, lots, todo, taken, newLots>>
      BY <1>2 DEF SelectLots, committed
    <2>3. /\ pc'[w] = "take" /\ snap'[w] = rows /\ rem'[w] = line.qty
          /\ \A k \in Keys : posted'[w][k] = IF k = line.key THEN posted[w][k] - line.qty
                                             ELSE posted[w][k]
      BY <2>1, <2>2 DEF StockInvariant
    <2>4. PlanIsOfTheLine(w)'
      BY <2>1, <2>2, <2>3 DEF PlanIsOfTheLine, Candidates
    <2>5. LotsFollowJournal(w)'
      <3> SUFFICES ASSUME NEW k \in Keys
                   PROVE  posted'[w][k]
                            = Inserted(w, k)' - Taken(w, k)' - Outstanding(w, k)'
        BY DEF LotsFollowJournal
      <3>1. KeyLots(k)' = KeyLots(k) /\ KeyInserts(w, k)' = KeyInserts(w, k)
        BY <2>2 DEF KeyLots, KeyInserts
      <3>2. Taken(w, k)' = Taken(w, k) /\ Inserted(w, k)' = Inserted(w, k)
        BY <2>2, <3>1 DEF Taken, Inserted
      <3>3. /\ Outstanding(w, k) = 0
            /\ Outstanding(w, k)' = IF k = line.key THEN line.qty ELSE 0
        BY <2>1, <2>2, <2>3 DEF Outstanding
      <3>4. posted[w][k] = Inserted(w, k) - Taken(w, k) - Outstanding(w, k)
        BY DEF LotsInvariant, LotsFollowJournal
      <3>5. Inserted(w, k) \in Int /\ Taken(w, k) \in Int
        BY LotSumTypes DEF StockInvariant
      <3> QED
        BY <2>1, <2>3, <3>2, <3>3, <3>4, <3>5
    <2>6. ASSUME NEW v \in Workers \ {w}
          PROVE  PlanIsOfTheLine(v)' /\ LotsFollowJournal(v)'
      BY <2>2, OthersKeepLots DEF StockInvariant
    <2>7. ASSUME NEW v \in Workers
          PROVE  LotsAreApart(v)'
      BY <2>2 DEF LotsInvariant, LotsAreApart
    <2>8. LotsMatchBalance'
      BY <2>2 DEF LotsInvariant, LotsMatchBalance, SumAvail
    <2> QED
      BY <2>4, <2>5, <2>6, <2>7, <2>8 DEF LotsInvariant
  <1> QED
    BY <1>1, <1>2

(* What is taken of a lot is no longer to be taken.                        *)
LEMMA TakeLotLots ==
    ASSUME StockInvariant, StockInvariant', LotsInvariant, NEW w \in Workers,
           TakeLot(w)
    PROVE  LotsInvariant'
  <1> PICK l \in DOMAIN snap[w] :
        /\ taken' = [taken EXCEPT ![w][l] = @ + TakeOf(w, l)]
        /\ rem' = [rem EXCEPT ![w] = @ - TakeOf(w, l)]
        /\ IF rem[w] = TakeOf(w, l)
           THEN /\ pc' = [pc EXCEPT ![w] = "upsert"]
                /\ snap' = [snap EXCEPT ![w] = NoLots]
           ELSE /\ snap' = [snap EXCEPT ![w] = Restrict(@, DOMAIN @ \ {l})]
                /\ UNCHANGED pc
    BY DEF TakeLot
  <1> DEFINE take == TakeOf(w, l)
             k0 == Head(todo[w]).key
  <1>1. /\ pc[w] = "take" /\ todo[w] # <<>>
        /\ UNCHANGED <<onHand, lots, todo, posted, newLots>>
    BY DEF TakeLot, committed, StockInvariant, LocksProtectBalances,
           LineInProgress
  <1>2. /\ l \in LotIds /\ l \in KeyLots(k0) /\ k0 \in Keys /\ l \in DOMAIN lots
        /\ take \in Nat \ {0} /\ take <= rem[w] /\ rem[w] \in Nat
    <2>1. /\ l \in DOMAIN lots /\ lots[l].key = k0 /\ snap[w][l] > 0
          /\ snap[w][l] \in Nat /\ rem[w] > 0 /\ rem[w] \in Nat /\ l \in LotIds
      BY <1>1 DEF LotsInvariant, PlanIsOfTheLine, StockInvariant
    <2> QED
      BY <2>1, <1>1, LinesLeft DEF KeyLots, TakeOf, StockInvariant
  <1>3. /\ rem'[w] = rem[w] - take
        /\ taken'[w] = [taken[w] EXCEPT ![l] = @ + take]
        /\ \A v \in Workers \ {w} : /\ pc'[v] = pc[v] /\ snap'[v] = snap[v]
                                   /\ rem'[v] = rem[v] /\ taken'[v] = taken[v]
    BY DEF StockInvariant
  <1>4. \/ pc'[w] = "upsert" /\ snap'[w] = NoLots /\ rem[w] = take
        \/ /\ pc'[w] = "take" /\ rem[w] # take
           /\ snap'[w] = Restrict(snap[w], DOMAIN snap[w] \ {l})
    BY <1>1 DEF StockInvariant
  <1>5. PlanIsOfTheLine(w)'
    <2>1. CASE pc'[w] = "upsert" /\ snap'[w] = NoLots
      BY <2>1 DEF PlanIsOfTheLine, NoLots
    <2>2. CASE /\ pc'[w] = "take" /\ rem[w] # take
               /\ snap'[w] = Restrict(snap[w], DOMAIN snap[w] \ {l})
      <3>1. rem'[w] > 0
        BY <1>2, <1>3, <2>2
      <3>2. /\ DOMAIN snap'[w] \subseteq DOMAIN snap[w]
            /\ \A m \in DOMAIN snap'[w] : snap'[w][m] = snap[w][m]
        BY <2>2 DEF Restrict
      <3> QED
        BY <1>1, <2>2, <3>1, <3>2 DEF PlanIsOfTheLine, LotsInvariant
    <2> QED
      BY <1>4, <2>1, <2>2
  <1>6. LotsFollowJournal(w)'
    <2> SUFFICES ASSUME NEW k \in Keys
                 PROVE  posted'[w][k]
                          = Inserted(w, k)' - Taken(w, k)' - Outstanding(w, k)'
      BY DEF LotsFollowJournal
    <2>1. KeyLots(k)' = KeyLots(k) /\ KeyInserts(w, k)' = KeyInserts(w, k)
      BY <1>1 DEF KeyLots, KeyInserts
    <2>2. Inserted(w, k)' = Inserted(w, k)
      BY <1>1, <2>1 DEF Inserted
    <2>3. posted[w][k] = Inserted(w, k) - Taken(w, k) - Outstanding(w, k)
      BY DEF LotsInvariant, LotsFollowJournal
    <2>4. /\ Inserted(w, k) \in Int /\ Taken(w, k) \in Int
          /\ IsFiniteSet(KeyLots(k)) /\ KeyLots(k) \subseteq LotIds
      BY LotSumTypes, LotsAreFinite DEF StockInvariant
    <2>5. CASE k = k0
      <3>1. Taken(w, k)' = Taken(w, k) + take
        <4>1. \A m \in LotIds : taken[w][m] \in Int
          BY DEF StockInvariant
        <4>2. /\ taken'[w][l] = taken[w][l] + take
              /\ \A m \in LotIds \ {l} : taken'[w][m] = taken[w][m]
          BY <1>2, <1>3 DEF StockInvariant
        <4>4. taken[w][l] \in Int /\ taken'[w][l] \in Int
          BY <1>2, <4>1, <4>2
        <4>3. SumFunctionOnSet(taken'[w], KeyLots(k))
                = Taken(w, k) + (taken'[w][l] - taken[w][l])
          <5>1. /\ l \in KeyLots(k)
                /\ \A m \in KeyLots(k) : taken[w][m] \in Int
                /\ \A m \in KeyLots(k) \ {l} : taken'[w][m] = taken[w][m]
            BY <1>2, <2>4, <2>5, <4>1, <4>2
          <5> DEFINE S == KeyLots(k)
                     f == taken[w]
                     g == taken'[w]
          <5>2. /\ IsFiniteSet(S) /\ l \in S /\ g[l] \in Int
                /\ \A m \in S : f[m] \in Int
                /\ \A m \in S \ {l} : g[m] = f[m]
            BY <2>4, <4>4, <5>1
          <5> HIDE DEF S, f, g
          <5>3. SumFunctionOnSet(g, S) = SumFunctionOnSet(f, S) + (g[l] - f[l])
            BY <5>2, SumChange
          <5> QED
            BY <5>3 DEF Taken, S, f, g
        <4>5. Taken(w, k)' = SumFunctionOnSet(taken'[w], KeyLots(k))
          BY <2>1 DEF Taken
        <4> QED
          BY <1>2, <2>4, <4>2, <4>3, <4>4, <4>5
      <3>2. Outstanding(w, k) = rem[w] /\ Outstanding(w, k)' = rem[w] - take
        BY <1>1, <1>2, <1>3, <1>4, <2>5 DEF Outstanding
      <3> QED
        BY <1>1, <1>2, <2>2, <2>3, <2>4, <3>1, <3>2
    <2>6. CASE k # k0
      <3>1. Taken(w, k)' = Taken(w, k)
        <4>1. \A m \in KeyLots(k) : taken'[w][m] = taken[w][m]
          BY <1>2, <1>3, <2>4, <2>6 DEF KeyLots, StockInvariant
        <4>2. SumFunctionOnSet(taken'[w], KeyLots(k))
                = SumFunctionOnSet(taken[w], KeyLots(k))
          <5> DEFINE S == KeyLots(k)
                     f == taken[w]
                     g == taken'[w]
          <5>2. IsFiniteSet(S) /\ \A m \in S : f[m] = g[m]
            BY <2>4, <4>1
          <5> HIDE DEF S, f, g
          <5>3. SumFunctionOnSet(g, S) = SumFunctionOnSet(f, S)
            BY <5>2, SumSame
          <5> QED
            BY <5>3 DEF S, f, g
        <4> QED
          BY <2>1, <4>2 DEF Taken
      <3>2. Outstanding(w, k) = 0 /\ Outstanding(w, k)' = 0
        BY <1>1, <2>6 DEF Outstanding
      <3> QED
        BY <1>1, <2>2, <2>3, <3>1, <3>2
    <2> QED
      BY <2>5, <2>6
  <1>7. ASSUME NEW v \in Workers \ {w}
        PROVE  PlanIsOfTheLine(v)' /\ LotsFollowJournal(v)'
    BY <1>1, <1>3, OthersKeepLots
  <1>8. ASSUME NEW v \in Workers
        PROVE  LotsAreApart(v)'
    <2>1. \A m \in LotIds : taken'[v][m] # 0 => taken[v][m] # 0 \/ m = l
      BY <1>2, <1>3 DEF StockInvariant
    <2> QED
      BY <1>1, <1>2, <2>1 DEF LotsInvariant, LotsAreApart
  <1>9. LotsMatchBalance'
    BY <1>1 DEF LotsInvariant, LotsMatchBalance, SumAvail
  <1> QED
    BY <1>5, <1>6, <1>7, <1>8, <1>9 DEF LotsInvariant
(* What is journalled on the way in is inserted with it.                   *)
LEMMA InsertLotLots ==
    ASSUME StockInvariant, StockInvariant', LotsInvariant, NEW w \in Workers,
           InsertLot(w)
    PROVE  LotsInvariant'
  <1> DEFINE line == Head(todo[w])
             row == [key |-> line.key, rank |-> line.rank, avail |-> line.qty]
  <1>1. PICK id \in UnusedIds :
          newLots' = [newLots EXCEPT
                       ![w] = [l \in DOMAIN @ \cup {id} |->
                                 IF l = id THEN row ELSE @[l]]]
    BY DEF InsertLot
  <1>2. /\ line.key \in Keys /\ line.qty \in Nat
        /\ pc[w] = "line" /\ todo[w] # <<>>
        /\ pc' = [pc EXCEPT ![w] = "upsert"]
        /\ posted' = [posted EXCEPT ![w][line.key] = @ + line.qty]
        /\ UNCHANGED <<onHand, lots, todo, snap, rem, taken>>
    BY LinesLeft DEF InsertLot, StockInvariant, committed
  <1>3. /\ id \in LotIds /\ id \notin DOMAIN lots
        /\ \A v \in Workers : id \notin DOMAIN newLots[v]
    BY DEF UnusedIds
  <1>4. /\ newLots'[w] = [l \in DOMAIN newLots[w] \cup {id} |->
                            IF l = id THEN row ELSE newLots[w][l]]
        /\ pc'[w] = "upsert"
        /\ \A k \in Keys : posted'[w][k] = IF k = line.key THEN posted[w][k] + line.qty
                                           ELSE posted[w][k]
        /\ \A v \in Workers \ {w} : /\ pc'[v] = pc[v] /\ posted'[v] = posted[v]
                                   /\ newLots'[v] = newLots[v]
    BY <1>1, <1>2 DEF StockInvariant
  <1>5. PlanIsOfTheLine(w)'
    BY <1>2, <1>4 DEF PlanIsOfTheLine, LotsInvariant
  <1>6. LotsFollowJournal(w)'
    <2> SUFFICES ASSUME NEW k \in Keys
                 PROVE  posted'[w][k]
                          = Inserted(w, k)' - Taken(w, k)' - Outstanding(w, k)'
      BY DEF LotsFollowJournal
    <2> DEFINE f == [l \in DOMAIN newLots[w] |-> newLots[w][l].avail]
               g == [l \in DOMAIN newLots'[w] |-> newLots'[w][l].avail]
               S == KeyInserts(w, k)
    <2>1. Taken(w, k)' = Taken(w, k)
      <3>1. KeyLots(k)' = KeyLots(k)
        BY <1>2 DEF KeyLots
      <3> QED
        BY <1>2, <3>1 DEF Taken
    <2>2. Outstanding(w, k) = 0 /\ Outstanding(w, k)' = 0
      BY <1>2, <1>4 DEF Outstanding
    <2>3. /\ posted[w][k] = Inserted(w, k) - Taken(w, k) - Outstanding(w, k)
          /\ Inserted(w, k) \in Int /\ Taken(w, k) \in Int
      BY LotSumTypes DEF LotsInvariant, LotsFollowJournal, StockInvariant
    <2>4. SumFunctionOnSet(g, S) = SumFunctionOnSet(f, S)
      <3>1. IsFiniteSet(S)
        BY LotsAreFinite DEF StockInvariant
      <3>2. \A l \in S : f[l] = g[l]
        BY <1>3, <1>4 DEF KeyInserts
      <3> HIDE DEF f, g, S
      <3> QED
        BY <3>1, <3>2, SumSame
    <2>5. CASE k = line.key
      <3>1. KeyInserts(w, k)' = S \cup {id}
        BY <1>4, <2>5 DEF KeyInserts
      <3>2. /\ IsFiniteSet(S) /\ id \notin S /\ g[id] = line.qty
            /\ \A l \in S : g[l] \in Int
        <4>1. IsFiniteSet(S)
          BY LotsAreFinite DEF StockInvariant
        <4>2. id \notin S /\ g[id] = line.qty
          BY <1>3, <1>4 DEF KeyInserts
        <4>3. \A l \in S : newLots[w][l].avail \in Int
          BY LotTypes DEF KeyInserts, StockInvariant
        <4>4. \A l \in S : g[l] = newLots[w][l].avail
          BY <1>3, <1>4 DEF KeyInserts
        <4> QED
          BY <4>1, <4>2, <4>3, <4>4
      <3>3. SumFunctionOnSet(g, S \cup {id}) = SumFunctionOnSet(g, S) + line.qty
        <4>1. g[id] \in Int
          BY <1>2, <3>2
        <4> HIDE DEF f, g, S, line
        <4> QED
          BY <3>2, <4>1, SumAdd
      <3>4. Inserted(w, k)' = Inserted(w, k) + line.qty
        BY <2>4, <3>1, <3>3 DEF Inserted
      <3> QED
        BY <1>2, <1>4, <2>1, <2>2, <2>3, <2>5, <3>4
    <2>6. CASE k # line.key
      <3>1. KeyInserts(w, k)' = S
        BY <1>3, <1>4, <2>6 DEF KeyInserts
      <3>2. Inserted(w, k)' = Inserted(w, k)
        BY <2>4, <3>1 DEF Inserted
      <3> QED
        BY <1>4, <2>1, <2>2, <2>3, <2>6, <3>2
    <2> QED
      BY <2>5, <2>6
  <1>7. ASSUME NEW v \in Workers \ {w}
        PROVE  PlanIsOfTheLine(v)' /\ LotsFollowJournal(v)'
    BY <1>2, <1>4, OthersKeepLots
  <1>8. ASSUME NEW v \in Workers
        PROVE  LotsAreApart(v)'
    <2>1. DOMAIN newLots'[w] = DOMAIN newLots[w] \cup {id}
      BY <1>4
    <2> QED
      BY <1>2, <1>3, <1>4, <2>1 DEF LotsInvariant, LotsAreApart
  <1>9. LotsMatchBalance'
    BY <1>2 DEF LotsInvariant, LotsMatchBalance, SumAvail
  <1> QED
    BY <1>5, <1>6, <1>7, <1>8, <1>9 DEF LotsInvariant

(* A commit moves the lots of a key by what its journal says.              *)
LEMMA CommitLots ==
    ASSUME StockInvariant, StockInvariant', LotsInvariant, NEW w \in Workers,
           Commit(w)
    PROVE  LotsInvariant'
  <1> DEFINE ids == DOMAIN lots \cup DOMAIN newLots[w]
  <1>1. /\ pc[w] = "line" /\ todo[w] = <<>> /\ Discard(w)
        /\ DOMAIN lots' = ids
        /\ \A l \in DOMAIN lots : /\ lots'[l].key = lots[l].key
                                 /\ lots'[l].avail = lots[l].avail - taken[w][l]
        /\ \A l \in DOMAIN newLots[w] : lots'[l] = newLots[w][l]
        /\ \A k \in Keys : onHand'[k] = onHand[k] + delta[w][k]
    <2>1. \A l \in DOMAIN lots : lots[l] \in Lot
      BY DEF StockInvariant
    <2>2. DOMAIN newLots[w] \cap DOMAIN lots = {}
      BY DEF LotsInvariant, LotsAreApart
    <2> QED
      BY <2>1, <2>2 DEF Commit, Lot
  <1>2. \A k \in Keys : KeyLots(k)' = KeyLots(k) \cup KeyInserts(w, k)
    BY <1>1 DEF KeyLots, KeyInserts
  <1>3. \A k \in Keys : KeyLots(k) \cap KeyInserts(w, k) = {}
    BY DEF KeyLots, KeyInserts, LotsInvariant, LotsAreApart
  <1>4. ASSUME NEW v \in Workers \ {w}
        PROVE  /\ pc'[v] = pc[v] /\ todo'[v] = todo[v] /\ snap'[v] = snap[v]
               /\ rem'[v] = rem[v] /\ posted'[v] = posted[v]
               /\ taken'[v] = taken[v] /\ newLots'[v] = newLots[v]
    BY <1>1 DEF Discard
  <1>5. ASSUME NEW v \in Workers \ {w}
        PROVE  PlanIsOfTheLine(v)' /\ LotsFollowJournal(v)'
    <2>1. PlanIsOfTheLine(v)'
      BY <1>1, <1>4 DEF LotsInvariant, PlanIsOfTheLine
    <2>2. ASSUME NEW k \in Keys
          PROVE  /\ Taken(v, k)' = Taken(v, k)
                 /\ Inserted(v, k)' = Inserted(v, k)
                 /\ Outstanding(v, k)' = Outstanding(v, k)
      <3>1. Inserted(v, k)' = Inserted(v, k)
        BY <1>4 DEF Inserted, KeyInserts
      <3>2. Outstanding(v, k)' = Outstanding(v, k)
        BY <1>4 DEF Outstanding
      <3> DEFINE f == taken[v]
                 S == KeyLots(k)
                 T == KeyInserts(w, k)
      <3>3. /\ IsFiniteSet(S) /\ IsFiniteSet(T) /\ S \cap T = {}
            /\ S \subseteq LotIds /\ T \subseteq LotIds
        BY <1>3, LotsAreFinite, LotTypes DEF StockInvariant, KeyInserts
      <3>4. \A l \in S \cup T : f[l] \in Int
        BY SMTT(30), <3>3 DEF StockInvariant
      <3>5. \A l \in T : f[l] = 0
        BY <3>3 DEF KeyInserts, LotsInvariant, LotsAreApart
      <3>6. SumFunctionOnSet(f, S) \in Int
        BY LotSumTypes DEF StockInvariant, Taken
      <3>7. SumFunctionOnSet(f, S \cup T) = SumFunctionOnSet(f, S)
        <4> HIDE DEF f, S, T
        <4>1. SumFunctionOnSet(f, T) = 0
          BY <3>3, <3>5, SumZero
        <4>2. SumFunctionOnSet(f, S \cup T)
                = SumFunctionOnSet(f, S) + SumFunctionOnSet(f, T)
          BY <3>3, <3>4, SumUnion
        <4> QED
          BY <3>6, <4>1, <4>2
      <3>8. Taken(v, k)' = Taken(v, k)
        BY <1>2, <1>4, <3>7 DEF Taken
      <3> QED
        BY <3>1, <3>2, <3>8
    <2> QED
      BY <1>4, <2>1, <2>2 DEF LotsInvariant, LotsFollowJournal
  <1>6. PlanIsOfTheLine(w)' /\ LotsFollowJournal(w)'
    BY <1>1, DiscardLots
  <1>7. ASSUME NEW v \in Workers
        PROVE  LotsAreApart(v)'
    BY <1>1 DEF LotsInvariant, LotsAreApart, Discard, StockInvariant, NoLots
  <1>8. LotsMatchBalance'
    <2> SUFFICES ASSUME NEW k \in Keys PROVE SumAvail(k)' = onHand'[k]
      BY DEF LotsMatchBalance
    <2> DEFINE f == [l \in DOMAIN lots |-> lots[l].avail]
               g == [l \in DOMAIN lots' |-> lots'[l].avail]
               n == [l \in DOMAIN newLots[w] |-> newLots[w][l].avail]
               t == taken[w]
               S == KeyLots(k)
               T == KeyInserts(w, k)
    <2>1. /\ IsFiniteSet(S) /\ IsFiniteSet(T) /\ S \cap T = {}
          /\ S \subseteq LotIds /\ S \subseteq DOMAIN lots
          /\ T \subseteq DOMAIN newLots[w]
      BY <1>3, LotsAreFinite DEF StockInvariant, KeyInserts, KeyLots
    <2>2. \A l \in S : f[l] \in Int /\ t[l] \in Int /\ g[l] = f[l] - t[l]
      <3>1. ASSUME NEW l \in S
            PROVE  lots[l].avail \in Int /\ t[l] \in Int
        <4>1. l \in DOMAIN lots /\ l \in LotIds
          BY <2>1
        <4>2. lots[l].avail \in Int
          BY <4>1, LotTypes DEF StockInvariant
        <4>3. t[l] \in Int
          BY <4>1 DEF StockInvariant
        <4> QED
          BY <4>2, <4>3
      <3>2. ASSUME NEW l \in S
            PROVE  /\ f[l] = lots[l].avail /\ g[l] = lots'[l].avail
                   /\ lots'[l].avail = lots[l].avail - t[l]
        BY <1>1, <2>1
      <3> HIDE DEF f, g, t, S
      <3> QED
        BY <3>1, <3>2
    <2>3. \A l \in T : g[l] = n[l] /\ n[l] \in Int
      <3>1. \A l \in T : newLots[w][l].avail \in Int
        BY <2>1, LotTypes DEF StockInvariant
      <3>2. \A l \in T : n[l] = newLots[w][l].avail /\ g[l] = newLots[w][l].avail
        BY <1>1, <2>1
      <3> QED
        BY <3>1, <3>2
    <2>4. \A l \in S \cup T : g[l] \in Int
      <3> HIDE DEF f, g, n, t, S, T
      <3>1. \A l \in S : g[l] \in Int
        BY <2>2
      <3> QED
        BY <2>3, <3>1
    <2>5. SumFunctionOnSet(g, S \cup T)
            = (SumFunctionOnSet(f, S) - SumFunctionOnSet(t, S))
                + SumFunctionOnSet(n, T)
      <3> HIDE DEF f, g, n, t, S, T
      <3>1. SumFunctionOnSet(g, S \cup T)
              = SumFunctionOnSet(g, S) + SumFunctionOnSet(g, T)
        BY <2>1, <2>4, SumUnion
      <3>2. SumFunctionOnSet(g, S)
              = SumFunctionOnSet(f, S) - SumFunctionOnSet(t, S)
        BY <2>1, <2>2, SumMinus
      <3>3. SumFunctionOnSet(g, T) = SumFunctionOnSet(n, T)
        BY <2>1, <2>3, SumSame
      <3> QED
        BY <3>1, <3>2, <3>3
    <2>6. SumAvail(k)' = (SumAvail(k) - Taken(w, k)) + Inserted(w, k)
      <3>1. SumAvail(k)' = SumFunctionOnSet(g, S \cup T)
        BY <1>2 DEF SumAvail, KeyLots
      <3>2. SumAvail(k) = SumFunctionOnSet(f, S)
        BY DEF SumAvail, KeyLots
      <3> QED
        BY <2>5, <3>1, <3>2 DEF Taken, Inserted
    <2>7. posted[w][k] = Inserted(w, k) - Taken(w, k)
      <3>1. posted[w][k] = Inserted(w, k) - Taken(w, k) - Outstanding(w, k)
        BY DEF LotsInvariant, LotsFollowJournal
      <3>2. Outstanding(w, k) = 0
        BY <1>1 DEF Outstanding
      <3>3. Inserted(w, k) \in Int /\ Taken(w, k) \in Int
        BY LotSumTypes DEF StockInvariant
      <3> QED
        BY <3>1, <3>2, <3>3
    <2>8. posted[w][k] = delta[w][k]
      BY <1>1 DEF StockInvariant, LocksProtectBalances, JournalLeadsBalance,
                  JournalLead
    <2>9. SumAvail(k) = onHand[k]
      BY DEF LotsInvariant, LotsMatchBalance
    <2>10. Inserted(w, k) \in Int /\ Taken(w, k) \in Int /\ SumAvail(k) \in Int
      BY LotSumTypes DEF StockInvariant
    <2>11. onHand'[k] = onHand[k] + delta[w][k]
      BY <1>1
    <2> QED
      BY <2>6, <2>7, <2>8, <2>9, <2>10, <2>11
  <1> QED
    BY <1>5, <1>6, <1>7, <1>8 DEF LotsInvariant

LEMMA NextLotsInvariant ==
    StockInvariant /\ StockInvariant' /\ LotsInvariant /\ [StockNext]_stockVars
      => LotsInvariant'
  <1> SUFFICES ASSUME StockInvariant, StockInvariant', LotsInvariant,
                      [StockNext]_stockVars
               PROVE  LotsInvariant'
    OBVIOUS
  <1>1. ASSUME NEW w \in Workers, NEW request \in Requests, Begin(w, request)
        PROVE  LotsInvariant'
    BY <1>1, LotsUntouched DEF Begin, committed, StockInvariant
  <1>2. ASSUME NEW w \in Workers, UpsertBalance(w)
        PROVE  LotsInvariant'
    BY <1>2, LotsUntouched DEF UpsertBalance, committed, StockInvariant
  <1>3. ASSUME NEW w \in Workers, CheckBalance(w)
        PROVE  LotsInvariant'
    <2>1. CASE Rollback(w)
      BY <2>1, RollbackLots
    <2>2. CASE ~Rollback(w)
      BY <1>3, <2>2, LotsUntouched DEF CheckBalance, committed, StockInvariant
    <2> QED
      BY <2>1, <2>2
  <1>4. ASSUME NEW w \in Workers, Step(w)
        PROVE  LotsInvariant'
    BY <1>2, <1>3, <1>4, SelectLotsLots, TakeLotLots, InsertLotLots, CommitLots
    DEF Step
  <1>5. ASSUME NEW w \in Workers, Crash(w) \/ DeadlockVictim(w)
        PROVE  LotsInvariant'
    BY <1>5, RollbackLots DEF Crash, DeadlockVictim
  <1>6. CASE UNCHANGED stockVars
    <2>1. UNCHANGED <<onHand, lots, pc, todo, snap, rem, posted, taken, newLots>>
      BY <1>6 DEF stockVars, committed, pending
    <2>2. ASSUME NEW v \in Workers
          PROVE  PlanIsOfTheLine(v)' /\ LotsFollowJournal(v)'
      BY <2>1, OthersKeepLots
    <2>3. ASSUME NEW v \in Workers
          PROVE  LotsAreApart(v)'
      BY <2>1 DEF LotsInvariant, LotsAreApart
    <2>4. LotsMatchBalance'
      BY <2>1 DEF LotsInvariant, LotsMatchBalance, SumAvail
    <2> QED
      BY <2>2, <2>3, <2>4 DEF LotsInvariant
  <1> QED
    BY <1>1, <1>4, <1>5, <1>6 DEF StockNext

LEMMA LotsInvariantHolds == StockSafety => [](StockInvariant /\ LotsInvariant)
  <1>1. StockInvariant /\ LotsInvariant /\ [StockNext]_stockVars
          => (StockInvariant /\ LotsInvariant)'
    BY NextInvariant, NextLotsInvariant
  <1> QED
    BY <1>1, InitInvariant, InitLotsInvariant, PTL DEF StockSafety

(* The lots of every key add up to its balance, whatever requests overlap: *)
(* allocateLotsFIFO may overdraw a lot, but what it takes off the lots in  *)
(* all is what applyBalanceDelta takes off the balance.                    *)
THEOREM LotsAgree == StockSafety => []LotsMatchBalance
  <1>1. LotsInvariant => LotsMatchBalance
    BY DEF LotsInvariant
  <1> QED
    BY <1>1, LotsInvariantHolds, PTL
----------------------------------------------------------------------------
(* The plans.  As long as nobody else works on its key, what a transaction *)
(* selected is what it finds when it updates: its plan fits the rows, has  *)
(* all of them, and takes them in order.                                   *)

(* What is being posted is a row of the key of the line.                   *)
WorksOnItsLine(w) ==
    /\ pc[w] \in {"take", "upsert", "check"} => Touches(w, Head(todo[w]).key)
    /\ \A l \in DOMAIN newLots[w] : newLots[w][l].avail > 0

PlanFits(w) ==
    \A l \in DOMAIN lots : lots[l].key \notin raced =>
        /\ VisibleAvail(w, l) >= 0
        /\ l \in DOMAIN snap[w] => snap[w][l] = VisibleAvail(w, l)

PlanIsComplete(w) ==
    \A l \in DOMAIN lots :
        (/\ pc[w] = "take" /\ InProgress(w, lots[l].key)
         /\ l \notin DOMAIN snap[w] /\ lots[l].key \notin raced)
        => VisibleAvail(w, l) <= 0

EarlierLotsEmptied(w) ==
    \A l, m \in DOMAIN lots :
        (/\ l # m /\ lots[l].key = lots[m].key /\ EarlierLot(l, m)
         /\ taken[w][m] > 0 /\ lots[l].key \notin raced)
        => VisibleAvail(w, l) <= 0

PlanStands(w) ==
    /\ WorksOnItsLine(w)
    /\ PlanFits(w)
    /\ PlanIsComplete(w)
    /\ EarlierLotsEmptied(w)

OverlapsNoted ==
    \A w \in Workers : \A v \in Workers \ {w} : \A k \in Keys :
        Touches(w, k) /\ Touches(v, k) => k \in raced

PlansInvariant ==
    /\ \A w \in Workers : PlanStands(w)
    /\ OverlapsNoted
    /\ LotsCoveredUnlessRaced

LEMMA VisibleTypes ==
    ASSUME StockTypeOK, NEW w \in Workers, NEW l \in DOMAIN lots
    PROVE  /\ VisibleAvail(w, l) \in Int /\ lots[l].avail \in Int
           /\ taken[w][l] \in Nat /\ l \in LotIds
           /\ VisibleAvail(w, l) = lots[l].avail - taken[w][l]
  <1>1. lots[l].avail \in Int /\ l \in LotIds
    BY LotTypes
  <1>2. taken[w][l] \in Nat
    BY <1>1
  <1> QED
    BY <1>1, <1>2 DEF VisibleAvail

(* The lots received before the behaviour starts were received in full.    *)
LEMMA InitPlansInvariant ==
    ASSUME StockInit
    PROVE  PlansInvariant
  <1>0. LotsCoveredUnlessRaced
    BY InitLotsAssumption DEF LotsCoveredUnlessRaced, StockInit
  <1>1. ASSUME NEW w \in Workers
        PROVE  PlanStands(w)
    <2>1. StockTypeOK
      BY InitInvariant DEF StockInvariant
    <2>2. \A l \in DOMAIN lots : /\ VisibleAvail(w, l) = lots[l].avail
                               /\ taken[w][l] = 0
      <3>1. \A l \in DOMAIN lots : l \in LotIds /\ lots[l].avail \in Int
        BY <2>1, LotTypes
      <3> QED
        BY <3>1 DEF StockInit, VisibleAvail
    <2>3. pc[w] = "idle" /\ snap[w] = NoLots /\ newLots[w] = NoLots
      BY DEF StockInit
    <2>4. WorksOnItsLine(w)
      BY <2>3 DEF WorksOnItsLine, NoLots
    <2>5. PlanFits(w)
      BY <1>0, <2>2, <2>3 DEF PlanFits, LotsCoveredUnlessRaced, NoLots
    <2>6. PlanIsComplete(w) /\ EarlierLotsEmptied(w)
      BY <2>2, <2>3 DEF PlanIsComplete, EarlierLotsEmptied
    <2> QED
      BY <2>4, <2>5, <2>6 DEF PlanStands
  <1>2. OverlapsNoted
    <2>1. \A l \in DOMAIN lots : l \in LotIds
      BY LotsAssumption DEF StockInit
    <2>2. \A w \in Workers : \A k \in Keys : ~Touches(w, k)
      BY <2>1 DEF Touches, StockInit, NoLots
    <2> QED
      BY <2>2 DEF OverlapsNoted
  <1> QED
    BY <1>0, <1>1, <1>2 DEF PlansInvariant
(* What a step of one request leaves to the others.                        *)
LEMMA OthersKeepPlans ==
    ASSUME PlansInvariant, NEW v \in Workers, lots' = lots, raced \subseteq raced',
           pc'[v] = pc[v], todo'[v] = todo[v], snap'[v] = snap[v],
           taken'[v] = taken[v], newLots'[v] = newLots[v], held'[v] = held[v]
    PROVE  /\ PlanStands(v)'
           /\ \A k \in Keys : Touches(v, k)' <=> Touches(v, k)
  <1>1. \A k : Touches(v, k)' <=> Touches(v, k)
    BY DEF Touches
  <1>2. \A l : VisibleAvail(v, l)' = VisibleAvail(v, l)
    BY DEF VisibleAvail
  <1>3. \A l, m : EarlierLot(l, m)' <=> EarlierLot(l, m)
    BY DEF EarlierLot
  <1>4. PlanStands(v)
    BY DEF PlansInvariant
  <1>5. WorksOnItsLine(v)'
    BY <1>1, <1>4 DEF PlanStands, WorksOnItsLine
  <1>6. PlanFits(v)'
    BY <1>2, <1>4 DEF PlanStands, PlanFits
  <1>7. PlanIsComplete(v)'
    BY <1>2, <1>4 DEF PlanStands, PlanIsComplete
  <1>8. EarlierLotsEmptied(v)'
    BY <1>2, <1>3, <1>4 DEF PlanStands, EarlierLotsEmptied
  <1> QED
    BY <1>1, <1>5, <1>6, <1>7, <1>8 DEF PlanStands

(* A request begins to work on a key only where the overlap is noted.      *)
LEMMA StepNotesOverlaps ==
    ASSUME PlansInvariant, NEW w \in Workers, lots' = lots,
           raced \subseteq raced', NEW k0,
           \A v \in Workers \ {w} : /\ pc'[v] = pc[v] /\ todo'[v] = todo[v]
                                  /\ snap'[v] = snap[v] /\ taken'[v] = taken[v]
                                  /\ newLots'[v] = newLots[v]
                                  /\ held'[v] = held[v],
           \A v \in Workers \ {w} : Touches(v, k0) => k0 \in raced' \/ Touches(w, k0),
           \A k \in Keys : Touches(w, k)' => Touches(w, k) \/ k = k0,
           PlanStands(w)'
    PROVE  PlansInvariant'
  <1>1. ASSUME NEW v \in Workers \ {w}
        PROVE  PlanStands(v)' /\ \A k \in Keys : Touches(v, k)' <=> Touches(v, k)
    BY OthersKeepPlans
  <1>2. OverlapsNoted'
    <2> SUFFICES ASSUME NEW u \in Workers, NEW v \in Workers \ {u}, NEW k \in Keys,
                        Touches(u, k)', Touches(v, k)'
                 PROVE  k \in raced'
      BY DEF OverlapsNoted
    <2>1. ASSUME NEW x \in Workers \ {w}, Touches(x, k), Touches(w, k)'
          PROVE  k \in raced'
      <3>1. CASE Touches(w, k)
        BY <2>1, <3>1 DEF PlansInvariant, OverlapsNoted
      <3>2. CASE ~Touches(w, k)
        BY <2>1, <3>2
      <3> QED
        BY <3>1, <3>2
    <2>2. CASE u = w
      BY <1>1, <2>1, <2>2
    <2>3. CASE v = w
      BY <1>1, <2>1, <2>3
    <2>4. CASE u # w /\ v # w
      BY <1>1, <2>4 DEF PlansInvariant, OverlapsNoted
    <2> QED
      BY <2>2, <2>3, <2>4
  <1>3. LotsCoveredUnlessRaced'
    BY DEF PlansInvariant, LotsCoveredUnlessRaced
  <1> QED
    BY <1>1, <1>2, <1>3 DEF PlansInvariant

(* A request that has ended plans nothing.                                 *)
LEMMA DiscardPlans ==
    ASSUME StockInvariant', NEW w \in Workers, Discard(w), StockInvariant,
           \A l \in DOMAIN lots' : lots'[l].key \notin raced' => lots'[l].avail >= 0
    PROVE  /\ PlanStands(w)'
           /\ \A k \in Keys : ~Touches(w, k)'
  <1>1. /\ pc'[w] = "idle" /\ snap'[w] = NoLots /\ newLots'[w] = NoLots
        /\ held'[w] = {} /\ \A l \in LotIds : taken'[w][l] = 0
    BY DEF Discard, StockInvariant
  <1>2. \A l \in DOMAIN lots' : l \in LotIds /\ lots'[l].avail \in Int
    BY DEF StockInvariant, Lot
  <1>3. \A l \in DOMAIN lots' : VisibleAvail(w, l)' = lots'[l].avail
    BY <1>1, <1>2 DEF VisibleAvail
  <1>4. \A k \in Keys : ~Touches(w, k)'
    BY <1>1, <1>2 DEF Touches, NoLots
  <1>5. WorksOnItsLine(w)'
    BY <1>1 DEF WorksOnItsLine, NoLots
  <1>6. PlanFits(w)'
    BY <1>1, <1>3 DEF PlanFits, NoLots
  <1>7. PlanIsComplete(w)'
    BY <1>1 DEF PlanIsComplete
  <1>8. EarlierLotsEmptied(w)'
    BY <1>1, <1>2 DEF EarlierLotsEmptied
  <1> QED
    BY <1>4, <1>5, <1>6, <1>7, <1>8 DEF PlanStands

LEMMA RollbackPlans ==
    ASSUME StockInvariant, StockInvariant', PlansInvariant, NEW w \in Workers,
           Rollback(w)
    PROVE  PlansInvariant'
  <1>1. lots' = lots /\ raced' = raced /\ Discard(w)
    BY DEF Rollback, committed
  <1>2. PlanStands(w)' /\ \A k \in Keys : ~Touches(w, k)'
    <2>1. \A l \in DOMAIN lots' : lots'[l].key \notin raced' => lots'[l].avail >= 0
      BY <1>1 DEF PlansInvariant, LotsCoveredUnlessRaced
    <2> QED
      BY <1>1, <2>1, DiscardPlans
  <1>3. \A v \in Workers \ {w} : /\ pc'[v] = pc[v] /\ todo'[v] = todo[v]
                                /\ snap'[v] = snap[v] /\ taken'[v] = taken[v]
                                /\ newLots'[v] = newLots[v]
                                /\ held'[v] = held[v]
    BY <1>1 DEF Discard, StockInvariant
  <1>4. ASSUME NEW v \in Workers \ {w}
        PROVE  PlanStands(v)' /\ \A k \in Keys : Touches(v, k)' <=> Touches(v, k)
    BY <1>1, <1>3, OthersKeepPlans
  <1>5. OverlapsNoted'
    BY <1>1, <1>2, <1>4 DEF PlansInvariant, OverlapsNoted
  <1>6. LotsCoveredUnlessRaced'
    BY <1>1 DEF PlansInvariant, LotsCoveredUnlessRaced
  <1> QED
    BY <1>2, <1>4, <1>5, <1>6 DEF PlansInvariant
(* A statement that takes no lot, of a request that selected none.         *)
LEMMA PlanUntouched ==
    ASSUME PlansInvariant, NEW w \in Workers, lots' = lots, raced \subseteq raced',
           snap'[w] = snap[w], taken'[w] = taken[w], pc'[w] # "take",
           WorksOnItsLine(w)'
    PROVE  PlanStands(w)'
  <1>1. \A l : VisibleAvail(w, l)' = VisibleAvail(w, l)
    BY DEF VisibleAvail
  <1>2. \A l, m : EarlierLot(l, m)' <=> EarlierLot(l, m)
    BY DEF EarlierLot
  <1>3. PlanStands(w)
    BY DEF PlansInvariant
  <1>4. PlanFits(w)'
    BY <1>1, <1>3 DEF PlanStands, PlanFits
  <1>5. PlanIsComplete(w)'
    BY DEF PlanIsComplete
  <1>6. EarlierLotsEmptied(w)'
    BY <1>1, <1>2, <1>3 DEF PlanStands, EarlierLotsEmptied
  <1> QED
    BY <1>4, <1>5, <1>6 DEF PlanStands

LEMMA BeginPlans ==
    ASSUME StockInvariant, PlansInvariant, NEW w \in Workers, NEW request,
           Begin(w, request)
    PROVE  PlansInvariant'
  <1>1. /\ lots' = lots /\ raced' = raced /\ snap' = snap /\ taken' = taken
        /\ newLots' = newLots /\ held' = held /\ pc'[w] = "line"
        /\ \A v \in Workers \ {w} : pc'[v] = pc[v] /\ todo'[v] = todo[v]
    BY DEF Begin, committed, StockInvariant
  <1>2. \A k \in Keys : Touches(w, k)' <=> Touches(w, k)
    BY <1>1 DEF Touches
  <1>3. WorksOnItsLine(w)'
    BY <1>1 DEF WorksOnItsLine, PlansInvariant, PlanStands
  <1>4. PlanStands(w)'
    BY <1>1, <1>3, PlanUntouched
  <1>5. ASSUME NEW v \in Workers \ {w}
        PROVE  PlanStands(v)' /\ \A k \in Keys : Touches(v, k)' <=> Touches(v, k)
    BY <1>1, OthersKeepPlans
  <1>6. OverlapsNoted'
    BY <1>1, <1>2, <1>5 DEF PlansInvariant, OverlapsNoted
  <1>7. LotsCoveredUnlessRaced'
    BY <1>1 DEF PlansInvariant, LotsCoveredUnlessRaced
  <1> QED
    BY <1>4, <1>5, <1>6, <1>7 DEF PlansInvariant

LEMMA CheckBalancePlans ==
    ASSUME StockInvariant, StockInvariant', PlansInvariant, NEW w \in Workers,
           CheckBalance(w)
    PROVE  PlansInvariant'
  <1>1. CASE Rollback(w)
    BY <1>1, RollbackPlans
  <1>2. CASE ~Rollback(w)
    <2>1. /\ lots' = lots /\ raced' = raced /\ snap' = snap /\ taken' = taken
          /\ newLots' = newLots /\ held' = held /\ pc'[w] = "line"
          /\ \A v \in Workers \ {w} : pc'[v] = pc[v] /\ todo'[v] = todo[v]
      BY <1>2 DEF CheckBalance, committed, StockInvariant
    <2>2. \A k \in Keys : Touches(w, k)' <=> Touches(w, k)
      BY <2>1 DEF Touches
    <2>3. WorksOnItsLine(w)'
      BY <2>1 DEF WorksOnItsLine, PlansInvariant, PlanStands
    <2>4. PlanStands(w)'
      BY <2>1, <2>3, PlanUntouched
    <2>5. ASSUME NEW v \in Workers \ {w}
          PROVE  PlanStands(v)' /\ \A k \in Keys : Touches(v, k)' <=> Touches(v, k)
      BY <2>1, OthersKeepPlans
    <2>6. OverlapsNoted'
      BY <2>1, <2>2, <2>5 DEF PlansInvariant, OverlapsNoted
    <2>7. LotsCoveredUnlessRaced'
      BY <2>1 DEF PlansInvariant, LotsCoveredUnlessRaced
    <2> QED
      BY <2>4, <2>5, <2>6, <2>7 DEF PlansInvariant
  <1> QED
    BY <1>1, <1>2

(* The balance row of a line belongs to a key already worked on.           *)
LEMMA UpsertBalancePlans ==
    ASSUME StockInvariant, PlansInvariant, NEW w \in Workers, UpsertBalance(w)
    PROVE  PlansInvariant'
  <1> DEFINE k0 == Head(todo[w]).key
  <1>1. /\ lots' = lots /\ raced' = raced /\ snap' = snap /\ taken' = taken
        /\ newLots' = newLots /\ todo' = todo
        /\ pc[w] = "upsert" /\ pc'[w] = "check" /\ held'[w] = held[w] \cup {k0}
        /\ \A v \in Workers \ {w} : pc'[v] = pc[v] /\ held'[v] = held[v]
    BY DEF UpsertBalance, committed, StockInvariant
  <1>2. Touches(w, k0)
    BY <1>1 DEF PlansInvariant, PlanStands, WorksOnItsLine
  <1>3. Touches(w, k0)'
    BY <1>1 DEF Touches
  <1>4. \A k \in Keys : Touches(w, k)' => Touches(w, k) \/ k = k0
    BY <1>1 DEF Touches
  <1>5. WorksOnItsLine(w)'
    BY <1>1, <1>3 DEF WorksOnItsLine, PlansInvariant, PlanStands
  <1>6. PlanStands(w)'
    BY <1>1, <1>5, PlanUntouched
  <1> QED
    BY <1>1, <1>2, <1>4, <1>6, StepNotesOverlaps

LEMMA InsertLotPlans ==
    ASSUME StockInvariant, PlansInvariant, NEW w \in Workers, InsertLot(w)
    PROVE  PlansInvariant'
  <1> DEFINE line == Head(todo[w])
             row == [key |-> line.key, rank |-> line.rank, avail |-> line.qty]
  <1>1. PICK id \in UnusedIds :
          newLots' = [newLots EXCEPT
                       ![w] = [l \in DOMAIN @ \cup {id} |->
                                 IF l = id THEN row ELSE @[l]]]
    BY DEF InsertLot
  <1>2. /\ line.key \in Keys /\ line.qty \in Nat \ {0}
        /\ lots' = lots /\ snap' = snap /\ taken' = taken /\ held' = held
        /\ todo' = todo /\ NoteRace(w, line.key)
        /\ pc' = [pc EXCEPT ![w] = "upsert"]
    BY LinesLeft DEF InsertLot, StockInvariant, committed
  <1>3. /\ newLots'[w] = [l \in DOMAIN newLots[w] \cup {id} |->
                            IF l = id THEN row ELSE newLots[w][l]]
        /\ pc'[w] = "upsert"
        /\ \A v \in Workers \ {w} : pc'[v] = pc[v] /\ newLots'[v] = newLots[v]
    BY <1>1, <1>2 DEF StockInvariant
  <1>4. /\ newLots'[w][id].key = line.key /\ newLots'[w][id].avail = line.qty
        /\ DOMAIN newLots'[w] = DOMAIN newLots[w] \cup {id}
        /\ \A l \in DOMAIN newLots[w] : l # id => newLots'[w][l] = newLots[w][l]
    <2>1. newLots'[w][id] = row
      BY <1>3
    <2> QED
      BY <1>3, <2>1
  <1>5. Touches(w, line.key)'
    <2>1. \E l \in DOMAIN newLots'[w] : newLots'[w][l].key = line.key
      BY <1>4
    <2> QED
      BY <1>2, <2>1 DEF Touches
  <1>6. ASSUME NEW k \in Keys, k # line.key, Touches(w, k)'
        PROVE  Touches(w, k)
    <2>1. ASSUME NEW l \in DOMAIN newLots'[w], newLots'[w][l].key = k
          PROVE  \E m \in DOMAIN newLots[w] : newLots[w][m].key = k
      BY <1>4, <1>6, <2>1
    <2> QED
      BY <1>2, <1>6, <2>1 DEF Touches
  <1>7. WorksOnItsLine(w)'
    <2>1. \A l \in DOMAIN newLots[w] : newLots[w][l].avail > 0
      BY DEF WorksOnItsLine, PlansInvariant, PlanStands
    <2>2. \A l \in DOMAIN newLots'[w] : newLots'[w][l].avail > 0
      BY <1>2, <1>4, <2>1
    <2> QED
      BY <1>2, <1>5, <2>2 DEF WorksOnItsLine
  <1>8. /\ raced \subseteq raced'
        /\ \A v \in Workers \ {w} : Touches(v, line.key) => line.key \in raced'
    BY <1>2 DEF NoteRace
  <1>9. PlanStands(w)'
    BY <1>2, <1>3, <1>7, <1>8, PlanUntouched
  <1> HIDE DEF line
  <1> QED
    BY <1>2, <1>3, <1>6, <1>8, <1>9, StepNotesOverlaps
(* A plan holds every row of the key the transaction sees something in.    *)
LEMMA SelectLotsPlans ==
    ASSUME StockInvariant, StockInvariant', PlansInvariant, NEW w \in Workers,
           SelectLots(w)
    PROVE  PlansInvariant'
  <1> DEFINE line == Head(todo[w])
             rows == [l \in Candidates(w, line.key) |-> VisibleAvail(w, l)]
  <1>1. CASE SumFunction(rows) < line.qty
    BY <1>1, RollbackPlans DEF SelectLots
  <1>2. CASE ~(SumFunction(rows) < line.qty)
    <2>1. /\ line.key \in Keys /\ line.qty \in Nat \ {0}
          /\ pc[w] = "line" /\ todo[w] # <<>>
      BY LinesLeft DEF SelectLots, StockInvariant
    <2>2. /\ pc'[w] = "take" /\ snap'[w] = rows
          /\ \A v \in Workers \ {w} : pc'[v] = pc[v] /\ snap'[v] = snap[v]
          /\ lots' = lots /\ todo' = todo /\ taken' = taken /\ held' = held
          /\ newLots' = newLots /\ NoteRace(w, line.key)
      BY <1>2 DEF SelectLots, committed, StockInvariant
    <2>3. /\ raced \subseteq raced'
          /\ \A v \in Workers \ {w} : Touches(v, line.key) => line.key \in raced'
      BY <2>2 DEF NoteRace
    <2>4. Candidates(w, line.key) # {}
      <3>1. SUFFICES ASSUME Candidates(w, line.key) = {} PROVE FALSE
        OBVIOUS
      <3>2. DOMAIN rows = {}
        BY <3>1
      <3>3. SumFunction(rows) = SumFunctionOnSet(rows, {})
        BY <3>2 DEF SumFunction, FoldFunction, SumFunctionOnSet
      <3>4. SumFunction(rows) = 0
        BY <3>3, SumEmpty
      <3> HIDE DEF rows, line
      <3> QED
        BY <1>2, <2>1, <3>4
    <2>5. \A l : VisibleAvail(w, l)' = VisibleAvail(w, l)
      BY <2>2 DEF VisibleAvail
    <2>6. WorksOnItsLine(w)'
      <3>1. Touches(w, line.key)'
        BY <2>2, <2>4 DEF Touches, Candidates
      <3> QED
        BY <2>2, <3>1 DEF WorksOnItsLine, PlansInvariant, PlanStands
    <2>7. \A k \in Keys : Touches(w, k)' => Touches(w, k) \/ k = line.key
      BY <2>2 DEF Touches, Candidates
    <2>8. PlanStands(w)
      BY DEF PlansInvariant
    <2>9. PlanFits(w)'
      BY <2>2, <2>3, <2>5, <2>8 DEF PlanStands, PlanFits
    <2>10. PlanIsComplete(w)'
      <3> SUFFICES ASSUME NEW l \in DOMAIN lots, lots[l].key = line.key,
                          l \notin Candidates(w, line.key)
                   PROVE  VisibleAvail(w, l) <= 0
        BY <2>2, <2>5 DEF PlanIsComplete
      <3>1. VisibleAvail(w, l) \in Int
        BY VisibleTypes DEF StockInvariant
      <3> QED
        BY <3>1 DEF Candidates
    <2>11. EarlierLotsEmptied(w)'
      <3>1. \A l, m : EarlierLot(l, m)' <=> EarlierLot(l, m)
        BY <2>2 DEF EarlierLot
      <3> QED
        BY <2>2, <2>3, <2>5, <2>8, <3>1 DEF PlanStands, EarlierLotsEmptied
    <2>12. PlanStands(w)'
      BY <2>6, <2>9, <2>10, <2>11 DEF PlanStands
    <2> HIDE DEF line
    <2> QED
      BY <2>2, <2>3, <2>7, <2>12, StepNotesOverlaps
  <1> QED
    BY <1>1, <1>2

(* The next row is drawn on for what was seen of it, or for what remains.  *)
LEMMA TakeLotPlans ==
    ASSUME StockInvariant, StockInvariant', LotsInvariant, PlansInvariant,
           NEW w \in Workers, TakeLot(w)
    PROVE  PlansInvariant'
  <1> PICK l \in DOMAIN snap[w] :
        /\ IsNext(w, l)
        /\ taken' = [taken EXCEPT ![w][l] = @ + TakeOf(w, l)]
        /\ rem' = [rem EXCEPT ![w] = @ - TakeOf(w, l)]
        /\ IF rem[w] = TakeOf(w, l)
           THEN /\ pc' = [pc EXCEPT ![w] = "upsert"]
                /\ snap' = [snap EXCEPT ![w] = NoLots]
           ELSE /\ snap' = [snap EXCEPT ![w] = Restrict(@, DOMAIN @ \ {l})]
                /\ UNCHANGED pc
    BY DEF TakeLot
  <1> DEFINE take == TakeOf(w, l)
             k0 == Head(todo[w]).key
  <1>1. /\ pc[w] = "take" /\ todo[w] # <<>>
        /\ lots' = lots /\ todo' = todo /\ newLots' = newLots /\ held' = held
        /\ raced' = raced
    BY DEF TakeLot, committed, StockInvariant, LocksProtectBalances,
           LineInProgress
  <1>2. /\ l \in DOMAIN lots /\ lots[l].key = k0 /\ snap[w][l] > 0
        /\ snap[w][l] \in Nat /\ rem[w] > 0 /\ rem[w] \in Nat /\ l \in LotIds
        /\ k0 \in Keys
    BY <1>1, LinesLeft DEF LotsInvariant, PlanIsOfTheLine, StockInvariant
  <1>3. /\ take \in Nat \ {0} /\ take <= snap[w][l]
        /\ rem[w] # take => take = snap[w][l]
    BY <1>2 DEF TakeOf
  <1>4. /\ taken'[w][l] = taken[w][l] + take
        /\ \A m \in LotIds \ {l} : taken'[w][m] = taken[w][m]
        /\ \A v \in Workers \ {w} : /\ pc'[v] = pc[v] /\ snap'[v] = snap[v]
                                   /\ taken'[v] = taken[v]
    <2>1. taken[w] \in [LotIds -> Nat] /\ taken \in [Workers -> [LotIds -> Nat]]
      BY DEF StockInvariant
    <2>2. taken' = [taken EXCEPT ![w] = [taken[w] EXCEPT ![l] = @ + take]]
      BY <2>1
    <2> HIDE DEF take
    <2>3. /\ taken'[w] = [taken[w] EXCEPT ![l] = @ + take]
          /\ \A v \in Workers \ {w} : taken'[v] = taken[v]
      BY <2>1, <2>2
    <2>4. \A v \in Workers \ {w} : pc'[v] = pc[v] /\ snap'[v] = snap[v]
      BY DEF StockInvariant
    <2> QED
      BY <1>2, <2>1, <2>3, <2>4
  <1>5. \/ pc'[w] = "upsert" /\ snap'[w] = NoLots
        \/ /\ pc'[w] = "take" /\ take = snap[w][l]
           /\ snap'[w] = Restrict(snap[w], DOMAIN snap[w] \ {l})
    BY <1>1, <1>3 DEF StockInvariant
  <1>6. /\ l \notin DOMAIN snap'[w]
        /\ \A m \in DOMAIN snap'[w] : m \in DOMAIN snap[w] /\ snap'[w][m] = snap[w][m]
        /\ pc'[w] = "take" => DOMAIN snap'[w] = DOMAIN snap[w] \ {l}
    BY <1>5 DEF Restrict, NoLots
  <1>7. \A m \in DOMAIN lots :
          /\ VisibleAvail(w, m) \in Int
          /\ VisibleAvail(w, m)' = IF m = l THEN VisibleAvail(w, m) - take
                                            ELSE VisibleAvail(w, m)
          /\ taken'[w][m] > 0 => taken[w][m] > 0 \/ m = l
    <2> SUFFICES ASSUME NEW m \in DOMAIN lots
                 PROVE  /\ VisibleAvail(w, m) \in Int
                        /\ VisibleAvail(w, m)'
                             = IF m = l THEN VisibleAvail(w, m) - take
                                        ELSE VisibleAvail(w, m)
                        /\ taken'[w][m] > 0 => taken[w][m] > 0 \/ m = l
      OBVIOUS
    <2>1. /\ VisibleAvail(w, m) \in Int /\ lots[m].avail \in Int
          /\ taken[w][m] \in Nat /\ m \in LotIds
          /\ VisibleAvail(w, m) = lots[m].avail - taken[w][m]
      BY VisibleTypes DEF StockInvariant
    <2>2. VisibleAvail(w, m)' = lots[m].avail - taken'[w][m]
      BY <1>1 DEF VisibleAvail
    <2>3. CASE m = l
      BY <1>3, <1>4, <2>1, <2>2, <2>3
    <2>4. CASE m # l
      BY <1>4, <2>1, <2>2, <2>4
    <2> QED
      BY <2>1, <2>3, <2>4
  <1>8. PlanStands(w)
    BY DEF PlansInvariant
  <1>9. Touches(w, k0)
    BY <1>2 DEF Touches
  <1>10. Touches(w, k0)'
    <2>1. taken[w][l] \in Nat
      BY <1>2 DEF StockInvariant
    <2>2. taken'[w][l] > 0
      BY <1>3, <1>4, <2>1
    <2> QED
      BY <1>1, <1>2, <2>2 DEF Touches
  <1>11. \A k \in Keys : Touches(w, k)' => Touches(w, k) \/ k = k0
    BY <1>1, <1>2, <1>6, <1>7 DEF Touches
  <1>12. WorksOnItsLine(w)'
    BY <1>1, <1>8, <1>10 DEF PlanStands, WorksOnItsLine
  <1>13. PlanFits(w)'
    <2> SUFFICES ASSUME NEW m \in DOMAIN lots, lots[m].key \notin raced
                 PROVE  /\ VisibleAvail(w, m)' >= 0
                        /\ m \in DOMAIN snap'[w] => snap'[w][m] = VisibleAvail(w, m)'
      BY <1>1 DEF PlanFits
    <2>1. /\ VisibleAvail(w, m) >= 0
          /\ m \in DOMAIN snap[w] => snap[w][m] = VisibleAvail(w, m)
      BY <1>8 DEF PlanStands, PlanFits
    <2>2. CASE m = l
      BY <1>2, <1>3, <1>6, <1>7, <2>1, <2>2
    <2>3. CASE m # l
      BY <1>6, <1>7, <2>1, <2>3
    <2> QED
      BY <2>2, <2>3
  <1>14. PlanIsComplete(w)'
    <2> SUFFICES ASSUME NEW m \in DOMAIN lots, pc'[w] = "take",
                        InProgress(w, lots[m].key), m \notin DOMAIN snap'[w],
                        lots[m].key \notin raced
                 PROVE  VisibleAvail(w, m)' <= 0
      BY <1>1 DEF PlanIsComplete
    <2>1. take = snap[w][l]
      BY <1>5
    <2>2. CASE m = l
      <3>1. snap[w][l] = VisibleAvail(w, l)
        BY <1>8, <2>2 DEF PlanStands, PlanFits
      <3> QED
        BY <1>7, <2>1, <2>2, <3>1
    <2>3. CASE m # l
      <3>1. m \notin DOMAIN snap[w]
        BY <1>6, <2>3
      <3>2. VisibleAvail(w, m) <= 0
        BY <1>1, <1>8, <3>1 DEF PlanStands, PlanIsComplete
      <3> QED
        BY <1>7, <2>3, <3>2
    <2> QED
      BY <2>2, <2>3
  <1>15. EarlierLotsEmptied(w)'
    <2> SUFFICES ASSUME NEW e \in DOMAIN lots, NEW m \in DOMAIN lots, e # m,
                        lots[e].key = lots[m].key, EarlierLot(e, m),
                        taken'[w][m] > 0, lots[e].key \notin raced
                 PROVE  VisibleAvail(w, e)' <= 0
      BY <1>1 DEF EarlierLotsEmptied, EarlierLot
    <2>1. VisibleAvail(w, e) <= 0
      <3>1. CASE taken[w][m] > 0
        BY <1>8, <3>1 DEF PlanStands, EarlierLotsEmptied
      <3>2. CASE ~(taken[w][m] > 0)
        <4>1. m = l
          BY <1>7, <3>2
        <4>2. e \notin DOMAIN snap[w]
          <5>1. SUFFICES ASSUME e \in DOMAIN snap[w] PROVE FALSE
            OBVIOUS
          <5>2. EarlierLot(l, e) /\ EarlierLot(e, l) /\ e # l
            BY <4>1, <5>1 DEF IsNext
          <5>3. /\ lots[l].rank \in Nat /\ lots[e].rank \in Nat
                /\ l \in LotIds /\ e \in LotIds
            BY <1>2, LotTypes DEF StockInvariant
          <5>4. l \in Int /\ e \in Int
            BY <5>3, LotsAssumption DEF LotIds
          <5> QED
            BY <5>2, <5>3, <5>4 DEF EarlierLot
        <4>3. InProgress(w, lots[e].key)
          BY <1>1, <1>2, <4>1
        <4> QED
          BY <1>1, <1>8, <4>2, <4>3 DEF PlanStands, PlanIsComplete
      <3> QED
        BY <3>1, <3>2
    <2> QED
      BY <1>3, <1>7, <2>1
  <1>16. PlanStands(w)'
    BY <1>12, <1>13, <1>14, <1>15 DEF PlanStands
  <1> HIDE DEF k0
  <1> QED
    BY <1>1, <1>4, <1>9, <1>11, <1>16, StepNotesOverlaps
(* A commit changes only rows of keys nobody else works on, or noted ones. *)
LEMMA CommitPlans ==
    ASSUME StockInvariant, StockInvariant', LotsInvariant, PlansInvariant,
           NEW w \in Workers, Commit(w)
    PROVE  PlansInvariant'
  <1>1. /\ Discard(w) /\ raced' = raced
        /\ DOMAIN lots' = DOMAIN lots \cup DOMAIN newLots[w]
        /\ DOMAIN newLots[w] \cap DOMAIN lots = {}
        /\ \A l \in DOMAIN lots : /\ lots'[l].key = lots[l].key
                                 /\ lots'[l].rank = lots[l].rank
                                 /\ lots'[l].avail = VisibleAvail(w, l)
        /\ \A l \in DOMAIN newLots[w] : lots'[l] = newLots[w][l]
    <2>1. \A l \in DOMAIN lots : lots[l] \in Lot
      BY DEF StockInvariant
    <2>2. DOMAIN newLots[w] \cap DOMAIN lots = {}
      BY DEF LotsInvariant, LotsAreApart
    <2> QED
      BY <2>1, <2>2 DEF Commit, Lot, VisibleAvail
  <1>2. PlanStands(w)
    BY DEF PlansInvariant
  <1>3. LotsCoveredUnlessRaced'
    <2> SUFFICES ASSUME NEW l \in DOMAIN lots', lots'[l].key \notin raced
                 PROVE  lots'[l].avail >= 0
      BY <1>1 DEF LotsCoveredUnlessRaced
    <2>1. CASE l \in DOMAIN lots
      BY <1>1, <1>2, <2>1 DEF PlanStands, PlanFits
    <2>2. CASE l \in DOMAIN newLots[w]
      <3>1. newLots[w][l].avail > 0 /\ newLots[w][l].avail \in Int
        BY <1>2, <2>2, LotTypes DEF PlanStands, WorksOnItsLine, StockInvariant
      <3> QED
        BY <1>1, <2>2, <3>1
    <2> QED
      BY <1>1, <2>1, <2>2
  <1>4. PlanStands(w)' /\ \A k \in Keys : ~Touches(w, k)'
    <2>1. \A l \in DOMAIN lots' : lots'[l].key \notin raced' => lots'[l].avail >= 0
      BY <1>1, <1>3 DEF LotsCoveredUnlessRaced
    <2> QED
      BY <1>1, <2>1, DiscardPlans
  <1>5. ASSUME NEW v \in Workers \ {w}
        PROVE  PlanStands(v)' /\ \A k \in Keys : Touches(v, k)' <=> Touches(v, k)
    <2>1. /\ pc'[v] = pc[v] /\ todo'[v] = todo[v] /\ snap'[v] = snap[v]
          /\ taken'[v] = taken[v] /\ newLots'[v] = newLots[v] /\ held'[v] = held[v]
      BY <1>1 DEF Discard, StockInvariant
    <2>2. /\ \A l \in DOMAIN snap[v] : l \in DOMAIN lots /\ pc[v] = "take"
          /\ \A l \in DOMAIN newLots[w] : taken[v][l] = 0 /\ l \notin DOMAIN snap[v]
      <3>1. \A l \in DOMAIN newLots[w] : l \in LotIds
        BY LotTypes DEF StockInvariant
      <3> QED
        BY <1>1, <3>1 DEF LotsInvariant, PlanIsOfTheLine, LotsAreApart
    <2>3. \A k \in Keys : Touches(v, k)' <=> Touches(v, k)
      BY <1>1, <2>1, <2>2 DEF Touches
    <2>4. ASSUME NEW k \in Keys, Touches(v, k), k \notin raced
          PROVE  /\ \A l \in DOMAIN newLots[w] : newLots[w][l].key # k
                 /\ \A l \in DOMAIN lots : lots[l].key = k => taken[w][l] = 0
      <3>1. ~Touches(w, k)
        BY <2>4 DEF PlansInvariant, OverlapsNoted
      <3>2. \A l \in DOMAIN lots : taken[w][l] \in Nat
        BY VisibleTypes DEF StockInvariant
      <3> QED
        BY <3>1, <3>2 DEF Touches
    <2>5. ASSUME NEW l \in DOMAIN lots
          PROVE  /\ VisibleAvail(v, l)' = lots'[l].avail - taken[v][l]
                 /\ taken[w][l] = 0 => VisibleAvail(v, l)' = VisibleAvail(v, l)
      <3>1. /\ VisibleAvail(w, l) = lots[l].avail - taken[w][l]
            /\ lots[l].avail \in Int
        BY VisibleTypes DEF StockInvariant
      <3> QED
        BY <1>1, <2>1, <3>1 DEF VisibleAvail
    <2>6. PlanStands(v)
      BY DEF PlansInvariant
    <2>7. WorksOnItsLine(v)'
      <3>1. pc[v] \in {"take", "upsert", "check"} => Head(todo[v]).key \in Keys
        BY LinesLeft DEF StockInvariant, LocksProtectBalances, LineInProgress
      <3> QED
        BY <2>1, <2>3, <2>6, <3>1 DEF PlanStands, WorksOnItsLine
    <2>8. PlanFits(v)'
      <3> SUFFICES ASSUME NEW l \in DOMAIN lots', lots'[l].key \notin raced
                   PROVE  /\ VisibleAvail(v, l)' >= 0
                          /\ l \in DOMAIN snap[v] => snap[v][l] = VisibleAvail(v, l)'
        BY <1>1, <2>1 DEF PlanFits
      <3>1. CASE l \in DOMAIN newLots[w]
        <4>1. VisibleAvail(v, l)' = newLots[w][l].avail
          <5>1. taken[v][l] = 0 /\ newLots[w][l].avail \in Int
            BY <2>2, <3>1, LotTypes DEF StockInvariant
          <5> QED
            BY <1>1, <2>1, <3>1, <5>1 DEF VisibleAvail
        <4>2. newLots[w][l].avail > 0 /\ newLots[w][l].avail \in Int
          BY <1>2, <3>1, LotTypes DEF PlanStands, WorksOnItsLine, StockInvariant
        <4> QED
          BY <2>2, <3>1, <4>1, <4>2
      <3>2. CASE l \in DOMAIN lots
        <4>1. /\ lots[l].key \notin raced /\ lots[l].key \in Keys
              /\ taken[v][l] \in Nat /\ taken[w][l] \in Nat
          BY <1>1, <3>2, LotTypes, VisibleTypes DEF StockInvariant
        <4>2. CASE taken[w][l] = 0
          BY <2>5, <2>6, <3>2, <4>1, <4>2 DEF PlanStands, PlanFits
        <4>3. CASE taken[w][l] # 0
          <5>1. ~Touches(v, lots[l].key)
            BY <2>4, <3>2, <4>1, <4>3
          <5>2. ~(taken[v][l] > 0) /\ l \notin DOMAIN snap[v]
            BY <3>2, <5>1 DEF Touches
          <5>3. VisibleAvail(v, l)' = VisibleAvail(w, l)
            <6>1. taken[v][l] = 0
              BY <4>1, <5>2
            <6>2. VisibleAvail(w, l) \in Int
              BY <3>2, VisibleTypes DEF StockInvariant
            <6> QED
              BY <1>1, <2>5, <3>2, <6>1, <6>2
          <5>4. VisibleAvail(w, l) >= 0
            BY <1>2, <3>2, <4>1 DEF PlanStands, PlanFits
          <5> QED
            BY <5>2, <5>3, <5>4
        <4> QED
          BY <4>2, <4>3
      <3> QED
        BY <1>1, <3>1, <3>2
    <2>9. PlanIsComplete(v)'
      <3> SUFFICES ASSUME NEW l \in DOMAIN lots', pc[v] = "take",
                          InProgress(v, lots'[l].key), l \notin DOMAIN snap[v],
                          lots'[l].key \notin raced
                   PROVE  VisibleAvail(v, l)' <= 0
        BY <1>1, <2>1 DEF PlanIsComplete
      <3>1. lots'[l].key \in Keys /\ Touches(v, lots'[l].key)
        BY <2>6, LinesLeft DEF PlanStands, WorksOnItsLine, StockInvariant
      <3>2. l \in DOMAIN lots
        BY <1>1, <2>4, <3>1
      <3>3. VisibleAvail(v, l)' = VisibleAvail(v, l)
        BY <1>1, <2>4, <2>5, <3>1, <3>2
      <3> QED
        BY <1>1, <2>6, <3>2, <3>3 DEF PlanStands, PlanIsComplete
    <2>10. EarlierLotsEmptied(v)'
      <3> SUFFICES ASSUME NEW l \in DOMAIN lots', NEW m \in DOMAIN lots', l # m,
                          lots'[l].key = lots'[m].key, EarlierLot(l, m)',
                          taken[v][m] > 0, lots'[l].key \notin raced
                   PROVE  VisibleAvail(v, l)' <= 0
        BY <1>1, <2>1 DEF EarlierLotsEmptied
      <3>1. m \in DOMAIN lots
        BY <1>1, <2>2
      <3>2. lots[m].key \in Keys /\ Touches(v, lots[m].key)
        BY <3>1, LotTypes DEF Touches, StockInvariant
      <3>3. l \in DOMAIN lots
        BY <1>1, <2>4, <3>1, <3>2
      <3>4. VisibleAvail(v, l)' = VisibleAvail(v, l)
        BY <1>1, <2>4, <2>5, <3>1, <3>2, <3>3
      <3>5. EarlierLot(l, m)
        BY <1>1, <3>1, <3>3 DEF EarlierLot
      <3> QED
        BY <1>1, <2>6, <3>1, <3>3, <3>4, <3>5 DEF PlanStands, EarlierLotsEmptied
    <2> QED
      BY <2>3, <2>7, <2>8, <2>9, <2>10 DEF PlanStands
  <1>6. OverlapsNoted'
    BY <1>1, <1>4, <1>5 DEF PlansInvariant, OverlapsNoted
  <1> QED
    BY <1>3, <1>4, <1>5, <1>6 DEF PlansInvariant

LEMMA NextPlansInvariant ==
    /\ StockInvariant /\ StockInvariant' /\ LotsInvariant /\ PlansInvariant
    /\ [StockNext]_stockVars
    => PlansInvariant'
  <1> SUFFICES ASSUME StockInvariant, StockInvariant', LotsInvariant,
                      PlansInvariant, [StockNext]_stockVars
               PROVE  PlansInvariant'
    OBVIOUS
  <1>1. ASSUME NEW w \in Workers, NEW request \in Requests, Begin(w, request)
        PROVE  PlansInvariant'
    BY <1>1, BeginPlans
  <1>2. ASSUME NEW w \in Workers, Step(w)
        PROVE  PlansInvariant'
    BY <1>2, SelectLotsPlans, TakeLotPlans, InsertLotPlans, UpsertBalancePlans,
       CheckBalancePlans, CommitPlans
    DEF Step
  <1>3. ASSUME NEW w \in Workers, Crash(w) \/ DeadlockVictim(w)
        PROVE  PlansInvariant'
    BY <1>3, RollbackPlans DEF Crash, DeadlockVictim
  <1>4. CASE UNCHANGED stockVars
    <2>1. UNCHANGED <<lots, raced, pc, todo, snap, taken, newLots, held>>
      BY <1>4 DEF stockVars, committed, pending
    <2>2. ASSUME NEW v \in Workers
          PROVE  PlanStands(v)' /\ \A k \in Keys : Touches(v, k)' <=> Touches(v, k)
      BY <2>1, OthersKeepPlans
    <2>3. OverlapsNoted'
      BY <2>1, <2>2 DEF PlansInvariant, OverlapsNoted
    <2>4. LotsCoveredUnlessRaced'
      BY <2>1 DEF PlansInvariant, LotsCoveredUnlessRaced
    <2> QED
      BY <2>2, <2>3, <2>4 DEF PlansInvariant
  <1> QED
    BY <1>1, <1>2, <1>3, <1>4 DEF StockNext

LEMMA PlansInvariantHolds ==
    StockSafety => [](StockInvariant /\ LotsInvariant /\ PlansInvariant)
  <1>1. StockInvariant /\ LotsInvariant /\ PlansInvariant /\ [StockNext]_stockVars
          => (StockInvariant /\ LotsInvariant /\ PlansInvariant)'
    BY NextInvariant, NextLotsInvariant, NextPlansInvariant
  <1>2. StockInit => PlansInvariant
    BY InitPlansInvariant
  <1> QED
    BY <1>1, <1>2, InitInvariant, InitLotsInvariant, PTL DEF StockSafety

(* allocateLotsFIFO overdraws no lot as long as no two transactions work   *)
(* on its key at once.                                                     *)
THEOREM LotsAreCovered == StockSafety => []LotsCoveredUnlessRaced
  <1>1. PlansInvariant => LotsCoveredUnlessRaced
    BY DEF PlansInvariant
  <1> QED
    BY <1>1, PlansInvariantHolds, PTL

(* First expired, first out: a commit that draws on a lot leaves nothing   *)
(* in the lots of its key that come before, unless requests overlapped.    *)
THEOREM LotsLeaveInOrder == StockSafety => EarliestLotsFirst
  <1> DEFINE Draws ==
        \A l, m \in DOMAIN lots :
          (/\ l # m /\ lots[l].key = lots[m].key /\ EarlierLot(l, m)
           /\ lots[l].key \notin raced
           /\ lots'[m].avail < lots[m].avail)
          => lots'[l].avail <= 0
  <1>1. StockInvariant /\ LotsInvariant /\ PlansInvariant /\ [StockNext]_stockVars
          => Draws \/ UNCHANGED stockVars
    <2> SUFFICES ASSUME StockInvariant, LotsInvariant, PlansInvariant,
                        [StockNext]_stockVars, ~UNCHANGED stockVars,
                        NEW l \in DOMAIN lots, NEW m \in DOMAIN lots,
                        l # m, lots[l].key = lots[m].key, EarlierLot(l, m),
                        lots[l].key \notin raced,
                        lots'[m].avail < lots[m].avail
                 PROVE  lots'[l].avail <= 0
      OBVIOUS
    <2>1. lots[m].avail \in Int
      BY VisibleTypes, LotTypes DEF StockInvariant
    <2>2. lots' # lots
      BY <2>1
    <2>3. PICK w \in Workers : Commit(w)
      BY <2>2 DEF StockNext, Step, Begin, SelectLots, TakeLot, InsertLot,
         UpsertBalance, CheckBalance, Crash, DeadlockVictim, Rollback, committed
    <2>4. /\ lots'[m].avail = lots[m].avail - taken[w][m]
          /\ lots'[l].avail = lots[l].avail - taken[w][l]
      <3>1. lots[l] \in Lot /\ lots[m] \in Lot
        BY DEF StockInvariant
      <3> QED
        BY <2>3, <3>1 DEF Commit, Lot
    <2>5. /\ taken[w][m] \in Nat
          /\ VisibleAvail(w, l) = lots[l].avail - taken[w][l]
      BY VisibleTypes DEF StockInvariant
    <2>6. taken[w][m] > 0
      BY <2>1, <2>4, <2>5
    <2>7. VisibleAvail(w, l) <= 0
      BY <2>6 DEF PlansInvariant, PlanStands, EarlierLotsEmptied
    <2> QED
      BY <2>4, <2>5, <2>7
  <1>2. StockSafety => [][Draws]_stockVars
    <2> HIDE DEF Draws
    <2> QED
      BY <1>1, PlansInvariantHolds, PTL DEF StockSafety
  <1> QED
    BY <1>2 DEF EarliestLotsFirst
----------------------------------------------------------------------------
(* The book.  A transaction has posted the first lines of its request and  *)
(* has the others left: once none is left, its pending change is the whole *)
(* request's, and a commit publishes that.                                 *)

LineEffects(request, k) == [i \in DOMAIN request |-> Book!LineEffect(request[i], k)]

(* The first n lines are posted; the upsert of a line precedes its test.   *)
PostedUpTo(w, request, n) ==
    /\ Len(todo[w]) = Len(request) - n
    /\ \A i \in 1..Len(todo[w]) : todo[w][i] = request[n + i]
    /\ \A k \in Keys :
         delta[w][k] = SumFunctionOnSet(LineEffects(request, k),
                                        1..(IF pc[w] = "check" THEN n + 1 ELSE n))

Posts(w, request) == \E n \in Nat : PostedUpTo(w, request, n)

BookInvariant ==
    \A w \in Workers : pc[w] # "idle" => \E request \in Requests : Posts(w, request)

LEMMA BookSum ==
    ASSUME NEW f, NEW S
    PROVE  Book!SumFunctionOnSet(f, S) = SumFunctionOnSet(f, S)
  BY Zenon DEF SumFunctionOnSet, FoldFunctionOnSet, MapThenFoldSet,
       Book!SumFunctionOnSet, Book!FoldFunctionOnSet, Book!MapThenFoldSet

LEMMA LineEffectTypes ==
    ASSUME NEW request \in Requests, NEW k \in Keys
    PROVE  /\ request \in Seq(Line) /\ DOMAIN request = 1..Len(request)
           /\ Len(request) \in Nat
           /\ \A i \in 1..Len(request) :
                /\ LineEffects(request, k)[i]
                     = IF request[i].key = k THEN Signed(request[i]) ELSE 0
                /\ LineEffects(request, k)[i] \in Int
  <1>1. request \in Seq(Line)
    BY RequestsAssumption
  <1>2. DOMAIN request = 1..Len(request) /\ Len(request) \in Nat
    BY <1>1
  <1>3. ASSUME NEW i \in 1..Len(request)
        PROVE  /\ LineEffects(request, k)[i]
                    = IF request[i].key = k THEN Signed(request[i]) ELSE 0
               /\ LineEffects(request, k)[i] \in Int
    <2>1. request[i] \in Line
      BY <1>1
    <2>2. LineEffects(request, k)[i] = Book!LineEffect(request[i], k)
      BY <1>2 DEF LineEffects
    <2>3. request[i].qty \in Nat /\ request[i].dir \in {"in", "out"}
      BY <2>1 DEF Line
    <2>4. Signed(request[i]) \in Int
      BY <2>3 DEF Signed
    <2> QED
      BY <2>2, <2>3, <2>4 DEF Book!LineEffect, Signed
  <1> QED
    BY <1>1, <1>2, <1>3

LEMMA InitBookInvariant == StockInit => BookInvariant
  BY DEF StockInit, BookInvariant

(* A step that changes neither what is left nor what is pending.           *)
LEMMA StillPosts ==
    ASSUME NEW v \in Workers, NEW request, Posts(v, request),
           todo'[v] = todo[v], delta'[v] = delta[v],
           pc'[v] = "check" <=> pc[v] = "check"
    PROVE  Posts(v, request)'
  BY DEF Posts, PostedUpTo, LineEffects, Book!LineEffect

LEMMA BeginPosts ==
    ASSUME StockInvariant, NEW w \in Workers, NEW request \in Requests,
           Begin(w, request)
    PROVE  Posts(w, request)'
  <1>1. /\ pc[w] = "idle" /\ pc'[w] = "line" /\ todo'[w] = request
        /\ delta' = delta
    BY DEF Begin, StockInvariant
  <1>2. PostedUpTo(w, request, 0)'
    <2>1. Len(todo'[w]) = Len(request) - 0 /\ Len(request) \in Nat
      BY <1>1, RequestsAssumption
    <2>2. \A i \in 1..Len(todo'[w]) : todo'[w][i] = request[0 + i]
      BY <1>1, <2>1
    <2>3. ASSUME NEW k \in Keys
          PROVE  delta'[w][k] = SumFunctionOnSet(LineEffects(request, k), 1..0)
      <3>1. delta'[w][k] = 0
        BY <1>1 DEF StockInvariant, LocksProtectBalances, LineInProgress
      <3>2. 1..0 = {}
        OBVIOUS
      <3> QED
        BY <3>1, <3>2, SumEmpty
    <2> QED
      BY <1>1, <2>1, <2>2, <2>3 DEF PostedUpTo, LineEffects, Book!LineEffect
  <1> QED
    BY <1>2 DEF Posts

LEMMA UpsertBalancePosts ==
    ASSUME StockInvariant, NEW w \in Workers, NEW request \in Requests,
           Posts(w, request), UpsertBalance(w)
    PROVE  Posts(w, request)'
  <1> DEFINE line == Head(todo[w])
  <1>1. /\ pc[w] = "upsert" /\ todo' = todo /\ pc'[w] = "check"
        /\ delta' = [delta EXCEPT ![w][line.key] = @ + Signed(line)]
    BY DEF UpsertBalance, StockInvariant
  <1>2. /\ todo[w] # <<>> /\ todo[w] \in Seq(Line) /\ line.key \in Keys
        /\ Signed(line) \in Int
    BY <1>1, LinesLeft DEF StockInvariant, LocksProtectBalances, LineInProgress
  <1>3. PICK n \in Nat : PostedUpTo(w, request, n)
    BY DEF Posts
  <1>4. /\ Len(request) \in Nat /\ n + 1 \in 1..Len(request)
        /\ request[n + 1] = line
    <2>1. Len(todo[w]) \in Nat /\ Len(todo[w]) > 0 /\ line = todo[w][1]
      BY <1>2
    <2>2. Len(request) \in Nat
      BY RequestsAssumption
    <2>3. Len(todo[w]) = Len(request) - n /\ todo[w][1] = request[n + 1]
      BY <1>3, <2>1 DEF PostedUpTo
    <2> HIDE DEF line
    <2> QED
      BY <2>1, <2>2, <2>3
  <1>5. ASSUME NEW k \in Keys
        PROVE  delta'[w][k] = SumFunctionOnSet(LineEffects(request, k), 1..(n + 1))
    <2> DEFINE f == LineEffects(request, k)
    <2>1. /\ delta[w][k] = SumFunctionOnSet(f, 1..n) /\ delta[w][k] \in Int
      BY <1>1, <1>3 DEF PostedUpTo, StockInvariant
    <2>2. /\ \A i \in 1..n : f[i] \in Int
          /\ f[n + 1] \in Int
          /\ f[n + 1] = IF line.key = k THEN Signed(line) ELSE 0
      BY <1>4, LineEffectTypes
    <2>3. /\ IsFiniteSet(1..n) /\ n + 1 \notin 1..n
          /\ 1..(n + 1) = (1..n) \cup {n + 1}
      BY FS_Interval
    <2>4. SumFunctionOnSet(f, (1..n) \cup {n + 1})
            = SumFunctionOnSet(f, 1..n) + f[n + 1]
      <3> HIDE DEF f
      <3> QED
        BY <2>2, <2>3, SumAdd
    <2>5. delta'[w][k] = IF line.key = k THEN delta[w][k] + Signed(line)
                                         ELSE delta[w][k]
      BY <1>1, <1>2 DEF StockInvariant
    <2> HIDE DEF f, line
    <2>6. delta'[w][k] = SumFunctionOnSet(f, (1..n) \cup {n + 1})
      BY <1>2, <2>1, <2>2, <2>4, <2>5
    <2> QED
      BY <2>3, <2>6 DEF f
  <1>6. PostedUpTo(w, request, n)'
    <2>1. \A k : LineEffects(request, k)' = LineEffects(request, k)
      BY DEF LineEffects, Book!LineEffect
    <2> QED
      BY <1>1, <1>3, <1>5, <2>1 DEF PostedUpTo
  <1> QED
    BY <1>6 DEF Posts

LEMMA CheckBalancePosts ==
    ASSUME StockInvariant, NEW w \in Workers, NEW request \in Requests,
           Posts(w, request), CheckBalance(w), ~Rollback(w)
    PROVE  Posts(w, request)'
  <1>1. /\ pc[w] = "check" /\ pc'[w] = "line" /\ delta' = delta
        /\ todo'[w] = Tail(todo[w])
    BY DEF CheckBalance, StockInvariant
  <1>2. todo[w] # <<>> /\ todo[w] \in Seq(Line)
    BY <1>1 DEF StockInvariant, LocksProtectBalances, LineInProgress
  <1>3. PICK n \in Nat : PostedUpTo(w, request, n)
    BY DEF Posts
  <1>4. Len(request) \in Nat
    BY RequestsAssumption
  <1>5. Len(todo'[w]) = Len(request) - (n + 1)
    BY <1>1, <1>2, <1>3, <1>4 DEF PostedUpTo
  <1>6. ASSUME NEW i \in 1..Len(todo'[w])
        PROVE  todo'[w][i] = request[(n + 1) + i]
    <2>1. i + 1 \in 1..Len(todo[w]) /\ todo'[w][i] = todo[w][i + 1]
      BY <1>1, <1>2
    <2>2. todo[w][i + 1] = request[n + (i + 1)]
      BY <1>3, <2>1 DEF PostedUpTo
    <2>3. n + (i + 1) = (n + 1) + i
      OBVIOUS
    <2> QED
      BY <2>1, <2>2, <2>3
  <1>7. ASSUME NEW k \in Keys
        PROVE  delta'[w][k] = SumFunctionOnSet(LineEffects(request, k), 1..(n + 1))
    BY <1>1, <1>3 DEF PostedUpTo
  <1>8. PostedUpTo(w, request, n + 1)'
    <2>1. \A k : LineEffects(request, k)' = LineEffects(request, k)
      BY DEF LineEffects, Book!LineEffect
    <2> QED
      BY <1>1, <1>5, <1>6, <1>7, <2>1 DEF PostedUpTo
  <1>9. n + 1 \in Nat
    OBVIOUS
  <1> QED
    BY <1>8, <1>9 DEF Posts

(* As long as its transaction is open, a worker posts the same request.    *)
LEMMA StepPosts ==
    ASSUME StockInvariant, NEW w \in Workers, NEW request \in Requests,
           Posts(w, request), Step(w), pc'[w] # "idle"
    PROVE  Posts(w, request)'
  <1>1. ~Rollback(w) /\ ~Commit(w)
    <2>1. ~Discard(w)
      BY DEF Discard, StockInvariant
    <2> QED
      BY <2>1 DEF Rollback, Commit
  <1>2. CASE SelectLots(w) \/ TakeLot(w) \/ InsertLot(w)
    <2>1. todo' = todo /\ delta' = delta
      BY <1>1, <1>2 DEF SelectLots, TakeLot, InsertLot
    <2>2. pc[w] # "check" /\ pc'[w] # "check"
      BY <1>1, <1>2 DEF SelectLots, TakeLot, InsertLot, StockInvariant
    <2> QED
      BY <2>1, <2>2, StillPosts
  <1> QED
    BY <1>1, <1>2, UpsertBalancePosts, CheckBalancePosts DEF Step

(* What one worker does leaves the transactions of the others alone.       *)
LEMMA OthersUntouched ==
    ASSUME StockInvariant, NEW w \in Workers, NEW v \in Workers \ {w},
           \/ Step(w) \/ Discard(w)
           \/ \E request \in Requests : Begin(w, request)
    PROVE  pc'[v] = pc[v] /\ todo'[v] = todo[v] /\ delta'[v] = delta[v]
  <1>1. CASE Discard(w)
    BY <1>1 DEF Discard, StockInvariant
  <1>2. CASE ~Discard(w) /\ Step(w)
    BY <1>2 DEF Step, SelectLots, TakeLot, InsertLot, UpsertBalance,
       CheckBalance, Commit, Rollback, StockInvariant
  <1>3. CASE \E request \in Requests : Begin(w, request)
    BY <1>3 DEF Begin, StockInvariant
  <1> QED
    BY <1>1, <1>2, <1>3

LEMMA NextBookInvariant ==
    StockInvariant /\ BookInvariant /\ [StockNext]_stockVars => BookInvariant'
  <1> SUFFICES ASSUME StockInvariant, BookInvariant, [StockNext]_stockVars,
                      NEW v \in Workers, pc'[v] # "idle"
               PROVE  \E request \in Requests : Posts(v, request)'
    BY DEF BookInvariant
  <1>1. CASE UNCHANGED stockVars
    <2>1. UNCHANGED <<pc, todo, delta>>
      BY <1>1 DEF stockVars, committed, pending
    <2> QED
      BY <2>1, StillPosts DEF BookInvariant
  <1>2. ASSUME NEW request \in Requests, Begin(v, request)
        PROVE  Posts(v, request)'
    BY <1>2, BeginPosts
  <1>3. CASE Step(v)
    <2>1. pc[v] # "idle"
      BY <1>3 DEF Step, SelectLots, TakeLot, InsertLot, UpsertBalance,
         CheckBalance, Commit
    <2> QED
      BY <1>3, <2>1, StepPosts DEF BookInvariant
  <1>4. ~Discard(v)
    BY DEF Discard, StockInvariant
  <1>5. ASSUME NEW w \in Workers \ {v},
               \/ Step(w) \/ Discard(w)
               \/ \E other \in Requests : Begin(w, other)
        PROVE  \E request \in Requests : Posts(v, request)'
    <2>1. pc'[v] = pc[v] /\ todo'[v] = todo[v] /\ delta'[v] = delta[v]
      BY <1>5, OthersUntouched
    <2> QED
      BY <2>1, StillPosts DEF BookInvariant
  <1> QED
    BY <1>1, <1>2, <1>3, <1>4, <1>5
    DEF StockNext, Crash, DeadlockVictim, Rollback

LEMMA BookInvariantHolds == StockSafety => [](StockInvariant /\ BookInvariant)
  <1>1. StockInvariant /\ BookInvariant /\ [StockNext]_stockVars
          => (StockInvariant /\ BookInvariant)'
    BY NextInvariant, NextBookInvariant
  <1> QED
    BY <1>1, InitInvariant, InitBookInvariant, PTL DEF StockSafety

(* A commit posts the whole request.                                       *)
LEMMA CommitPosts ==
    ASSUME NEW w \in Workers, NEW request \in Requests, Posts(w, request),
           Commit(w)
    PROVE  onHand' = [k \in Keys |-> onHand[k] + Book!Effect(request, k)]
  <1>1. /\ pc[w] = "line" /\ todo[w] = <<>>
        /\ onHand' = [k \in Keys |-> onHand[k] + delta[w][k]]
    BY DEF Commit
  <1>2. PICK n \in Nat : PostedUpTo(w, request, n)
    BY DEF Posts
  <1>3. n = Len(request) /\ DOMAIN request = 1..n
    <2>1. Len(request) \in Nat /\ DOMAIN request = 1..Len(request)
      BY RequestsAssumption
    <2>2. Len(todo[w]) = Len(request) - n /\ Len(todo[w]) = 0
      BY <1>1, <1>2 DEF PostedUpTo
    <2>3. n = Len(request)
      <3> DEFINE a == Len(todo[w])
                 b == Len(request)
      <3>1. a = b - n /\ a = 0 /\ b \in Nat
        BY <2>1, <2>2
      <3> HIDE DEF a, b
      <3>2. n = b
        BY <3>1
      <3> QED
        BY <3>2 DEF b
    <2> QED
      BY <2>1, <2>3
  <1>4. ASSUME NEW k \in Keys
        PROVE  delta[w][k] = Book!Effect(request, k)
    <2>1. delta[w][k] = SumFunctionOnSet(LineEffects(request, k), DOMAIN request)
      BY <1>1, <1>2, <1>3 DEF PostedUpTo
    <2>2. Book!Effect(request, k)
            = Book!SumFunctionOnSet(LineEffects(request, k), DOMAIN request)
      BY DEF Book!Effect, LineEffects
    <2> QED
      BY <2>1, <2>2, BookSum
  <1> QED
    BY <1>1, <1>4

(* The promise to the callers is kept: the committed balances change only  *)
(* by whole requests, none of which takes a quantity below zero, however   *)
(* the statements of concurrent transactions interleave or fail.           *)
THEOREM BookIsKept == StockSafety => ImplementsStockBook
  <1>1. StockInit => Book!BookInit
    BY LotsAssumption DEF StockInit, Book!BookInit
  <1>2. StockInvariant /\ BookInvariant /\ StockInvariant' /\ [StockNext]_stockVars
          => [\E request \in Requests : Book!Post(request)]_onHand
    <2> SUFFICES ASSUME StockInvariant, BookInvariant, StockInvariant',
                        [StockNext]_stockVars, onHand' # onHand
                 PROVE  \E request \in Requests : Book!Post(request)
      OBVIOUS
    <2>1. PICK w \in Workers : Commit(w)
      BY DEF StockNext, Step, Begin, SelectLots, TakeLot, InsertLot,
         UpsertBalance, CheckBalance, Crash, DeadlockVictim, Rollback,
         committed, stockVars
    <2>2. PICK request \in Requests : Posts(w, request)
      BY <2>1 DEF Commit, BookInvariant
    <2>3. \A k \in Keys : onHand'[k] >= 0
      BY DEF StockInvariant, OnHandNeverNegative
    <2> QED
      BY <2>1, <2>2, <2>3, CommitPosts DEF Book!Post
  <1> QED
    BY <1>1, <1>2, BookInvariantHolds, PTL
    DEF StockSafety, ImplementsStockBook, Book!BookSpec
============================================================================
