---------------------------- MODULE FilesProofs ----------------------------
(* What holds of the files and lists of a user's tools for any number of     *)
(* mails, files, calls, workers, items of OneDrive and lists: each component *)
(* has an inductive invariant of its own, and those of the component at work *)
(* give the promises of Files.  The proofs are in the order of the parts:    *)
(* sums over finite sets, conversions, records, OneDrive, to-do lists, saved *)
(* mails, and then all of them together.                                     *)
EXTENDS Files, Functions, FiniteSetTheorems, SequenceTheorems, TLAPS

-----------------------------------------------------------------------------
(* Sums over finite sets, as a quota and a budget need them.                         *)

\* What holds of 0 and passes from each number to the next holds of every number.
LEMMA Numbers ==
  ASSUME NEW T, T \subseteq Nat, 0 \in T, \A n \in T : n + 1 \in T
  PROVE  T = Nat
<1> DEFINE B == {n \in Nat : n \notin T}
           I == {0 .. n : n \in B}
           R == StrictSubsetOrdering(Nat)
<1> SUFFICES ASSUME B # {} PROVE FALSE
  OBVIOUS
<1>1. I \subseteq FiniteSubsetsOf(Nat) /\ I # {}
  <2>1. \A n \in Nat : 0 .. n \in SUBSET Nat /\ IsFiniteSet(0 .. n)
    BY FS_Interval
  <2> QED BY <2>1 DEF FiniteSubsetsOf
<1>2. IsWellFoundedOn(R, FiniteSubsetsOf(Nat))
  BY FS_StrictSubsetOrderingWellFounded
<1> HIDE DEF I, R
<1>3. PICK U \in I : \A V \in I : ~(<<V, U>> \in R)
  BY <1>1, <1>2, WFMin
<1>4. PICK m \in B : U = 0 .. m
  BY <1>3 DEF I
<1>5. m # 0 /\ m - 1 \in Nat
  BY <1>4
<1>6. CASE m - 1 \in B
  <2>1. 0 .. (m - 1) \in I
    BY <1>6 DEF I
  <2>2. 0 .. (m - 1) \subseteq 0 .. m /\ m \in 0 .. m /\ m \notin 0 .. (m - 1)
    BY <1>5
  <2>3. <<0 .. (m - 1), 0 .. m>> \in R
    <3>1. 0 .. (m - 1) \in SUBSET Nat /\ 0 .. m \in SUBSET Nat
      BY <1>4, <1>5
    <3> QED BY <2>2, <3>1 DEF R, StrictSubsetOrdering
  <2> QED BY <1>3, <1>4, <2>1, <2>3
<1>7. CASE m - 1 \in T
  <2>1. (m - 1) + 1 = m
    BY <1>5
  <2> QED BY <1>4, <1>7, <2>1
<1> QED BY <1>4, <1>5, <1>6, <1>7

LEMMA LeastExists ==
  ASSUME NEW S \in SUBSET Nat, S # {}
  PROVE  \E x \in S : \A y \in S : x =< y
<1> DEFINE T == {n \in Nat : \A k \in 0 .. n : k \notin S}
<1>1. SUFFICES ASSUME \A x \in S : ~(\A y \in S : x =< y) PROVE FALSE
  OBVIOUS
<1>2. 0 \in T
  <2>1. 0 \notin S
    BY <1>1
  <2> QED BY <2>1
<1>3. ASSUME NEW n \in T PROVE n + 1 \in T
  <2>1. n + 1 \notin S
    <3>1. SUFFICES ASSUME n + 1 \in S PROVE FALSE
      OBVIOUS
    <3>2. PICK y \in S : ~(n + 1 =< y)
      BY <1>1, <3>1
    <3>3. y \in 0 .. n
      BY <3>2
    <3> QED BY <3>3
  <2> QED BY <2>1
<1>4. T = Nat
  <2> HIDE DEF T
  <2>1. T \subseteq Nat
    BY DEF T
  <2> QED BY <1>2, <1>3, <2>1, Numbers
<1>5. PICK x \in S : TRUE
  OBVIOUS
<1>6. x \in T /\ x \in 0 .. x
  BY <1>4
<1> QED BY <1>6

\* One element taken out of a finite set.
LEMMA OneOut ==
  ASSUME NEW s, IsFiniteSet(s), NEW x \in s
  PROVE  /\ IsFiniteSet(s \ {x}) /\ Cardinality(s \ {x}) \in Nat /\ Cardinality(s) \in Nat
         /\ Cardinality(s) = Cardinality(s \ {x}) + 1
<1>1. IsFiniteSet(s \ {x}) /\ Cardinality(s \ {x}) = Cardinality(s) - 1
  BY FS_RemoveElement
<1>2. Cardinality(s \ {x}) \in Nat /\ Cardinality(s) \in Nat
  BY <1>1, FS_CardinalityType
<1> QED BY <1>1, <1>2

\* The recursion of SumFunctionOnSet: an element of s, and the sum of the others.
AnyOf(s) == CHOOSE x \in s : TRUE
Adding(w, S, g) ==
  [s \in SUBSET S |-> IF s = {} THEN 0 ELSE w[AnyOf(s)] + g[s \ {AnyOf(s)}]]
Sums(w, S, g) == g = Adding(w, S, g)

LEMMA AnyOfIs == ASSUME NEW s, s # {} PROVE AnyOf(s) \in s
  BY DEF AnyOf

\* There is a function that adds up the subsets of a finite set.
LEMMA SumsExist == ASSUME NEW S, IsFiniteSet(S), NEW w PROVE \E g : Sums(w, S, g)
<1> DEFINE Upto(g, n) == \A s \in SUBSET S : Cardinality(s) <= n => g[s] = Adding(w, S, g)[s]
           T == {n \in Nat : \E g : Upto(g, n)}
<1>a. \A s \in SUBSET S : IsFiniteSet(s) /\ Cardinality(s) \in Nat /\ Cardinality(s) <= Cardinality(S)
  BY FS_Subset, FS_CardinalityType
<1>1. 0 \in T
  <2> DEFINE g == [s \in SUBSET S |-> 0]
  <2>1. \A s \in SUBSET S : Cardinality(s) <= 0 => s = {}
    BY <1>a, FS_EmptySet
  <2>2. Upto(g, 0)
    BY <2>1 DEF Adding
  <2> HIDE DEF g, Upto
  <2> QED BY <2>2
<1>2. ASSUME NEW n \in T PROVE n + 1 \in T
  <2>1. PICK g : Upto(g, n)
    OBVIOUS
  <2> DEFINE h == Adding(w, S, g)
  <2>2. ASSUME NEW s \in SUBSET S, Cardinality(s) <= n + 1, s # {}
        PROVE  h[s] = w[AnyOf(s)] + h[s \ {AnyOf(s)}]
    <3> DEFINE r == s \ {AnyOf(s)}
    <3>1. r \in SUBSET S /\ Cardinality(r) <= n
      <4>1. AnyOf(s) \in s
        BY <2>2, AnyOfIs
      <4>2. Cardinality(s) = Cardinality(r) + 1 /\ Cardinality(r) \in Nat
        BY <1>a, <4>1, OneOut
      <4> HIDE DEF r
      <4>3. Cardinality(r) <= n
        BY <2>2, <4>2
      <4> QED BY <4>3 DEF r
    <3>2. g[r] = h[r]
      BY <2>1, <3>1
    <3>3. h[s] = w[AnyOf(s)] + g[r]
      BY <2>2 DEF Adding
    <3> QED BY <3>2, <3>3
  <2>3. h[{}] = 0
    BY DEF Adding
  <2> HIDE DEF h
  <2>4. \A s \in SUBSET S : Adding(w, S, h)[s] = IF s = {} THEN 0 ELSE w[AnyOf(s)] + h[s \ {AnyOf(s)}]
    BY DEF Adding
  <2>5. Upto(h, n + 1)
    BY <2>2, <2>3, <2>4
  <2> HIDE DEF Upto
  <2> QED BY <2>5
<1> HIDE DEF Upto
<1>3. T = Nat
  <2>1. T \subseteq Nat
    OBVIOUS
  <2> HIDE DEF T
  <2> QED BY <1>1, <1>2, <2>1, Numbers
<1>4. PICK g : Upto(g, Cardinality(S))
  BY <1>3, FS_CardinalityType
<1>5. \A s \in SUBSET S : g[s] = Adding(w, S, g)[s]
  BY <1>4, <1>a DEF Upto
<1> DEFINE h == Adding(w, S, g)
<1>6. \A s \in SUBSET S : h[s] = g[s]
  BY <1>5
<1>7. \A s \in SUBSET S : s \ {AnyOf(s)} \in SUBSET S
  OBVIOUS
<1>8. h = Adding(w, S, h)
  BY <1>6, <1>7 DEF Adding
<1> QED BY <1>8 DEF Sums

LEMMA SumIsOne ==
  ASSUME NEW S, IsFiniteSet(S), NEW w
  PROVE  \E g : Sums(w, S, g) /\ SumFunctionOnSet(w, S) = g[S]
<1> DEFINE iter == CHOOSE g : g = [s \in SUBSET S |-> IF s = {} THEN 0 ELSE w[AnyOf(s)] + g[s \ {AnyOf(s)}]]
<1>1. SumFunctionOnSet(w, S) = iter[S]
  BY DEF SumFunctionOnSet, FoldFunctionOnSet, MapThenFoldSet, AnyOf
<1>2. Sums(w, S, iter)
  <2>1. \E g : g = [s \in SUBSET S |-> IF s = {} THEN 0 ELSE w[AnyOf(s)] + g[s \ {AnyOf(s)}]]
    <3>1. PICK g : Sums(w, S, g)
      BY SumsExist
    <3>2. g = [s \in SUBSET S |-> IF s = {} THEN 0 ELSE w[AnyOf(s)] + g[s \ {AnyOf(s)}]]
      BY <3>1, Zenon DEF Sums, Adding
    <3> QED BY <3>2
  <2>2. iter = [s \in SUBSET S |-> IF s = {} THEN 0 ELSE w[AnyOf(s)] + iter[s \ {AnyOf(s)}]]
    BY <2>1, Zenon
  <2> HIDE DEF iter
  <2> QED BY <2>2 DEF Sums, Adding
<1> QED BY <1>1, <1>2

\* Two of them give the same sum to a set whose elements they weigh alike.
LEMMA SumsAgree ==
  ASSUME NEW S, NEW T, NEW v, NEW w, NEW g, NEW h, Sums(v, S, g), Sums(w, T, h),
         NEW U, IsFiniteSet(U), U \subseteq S \cap T, \A x \in U : v[x] = w[x]
  PROVE  g[U] = h[U]
<1> DEFINE Alike(n) == \A s \in SUBSET U : Cardinality(s) = n => g[s] = h[s]
           N == {n \in Nat : Alike(n)}
<1>a. \A s \in SUBSET U : IsFiniteSet(s) /\ Cardinality(s) \in Nat
  BY FS_Subset, FS_CardinalityType
<1>b. \A s \in SUBSET U :
        /\ g[s] = IF s = {} THEN 0 ELSE v[AnyOf(s)] + g[s \ {AnyOf(s)}]
        /\ h[s] = IF s = {} THEN 0 ELSE w[AnyOf(s)] + h[s \ {AnyOf(s)}]
  <2> TAKE s \in SUBSET U
  <2>1. s \in SUBSET S /\ s \in SUBSET T
    OBVIOUS
  <2>2. g[s] = Adding(v, S, g)[s] /\ h[s] = Adding(w, T, h)[s]
    BY DEF Sums
  <2> QED BY <2>1, <2>2 DEF Adding
<1>1. 0 \in N
  <2>1. \A s \in SUBSET U : Cardinality(s) = 0 => s = {}
    BY <1>a, FS_EmptySet
  <2> QED BY <1>b, <2>1
<1>2. ASSUME NEW n \in N PROVE n + 1 \in N
  <2> SUFFICES ASSUME NEW s \in SUBSET U, Cardinality(s) = n + 1 PROVE g[s] = h[s]
    OBVIOUS
  <2>1. s # {}
    <3>1. n \in Nat
      OBVIOUS
    <3> HIDE DEF N
    <3> QED BY <3>1, FS_EmptySet
  <2> DEFINE x == AnyOf(s)
             r == s \ {x}
  <2>2. x \in s
    BY <2>1, AnyOfIs
  <2>3. Cardinality(s) = Cardinality(r) + 1 /\ Cardinality(r) \in Nat
    BY <1>a, <2>2, OneOut
  <2>4. r \in SUBSET U
    OBVIOUS
  <2>5. Cardinality(r) = n
    <3> HIDE DEF r
    <3> QED BY <2>3
  <2>6. g[r] = h[r]
    BY <2>4, <2>5
  <2>7. v[x] = w[x]
    BY <2>2
  <2>8. g[s] = v[x] + g[r] /\ h[s] = w[x] + h[r]
    BY <1>b, <2>1
  <2> QED BY <2>6, <2>7, <2>8
<1>3. N = Nat
  <2>1. N \subseteq Nat
    OBVIOUS
  <2> HIDE DEF N
  <2> QED BY <1>1, <1>2, <2>1, Numbers
<1>4. Alike(Cardinality(U))
  BY <1>3, FS_CardinalityType
<1> QED BY <1>4

\* It adds up numbers to a number, and any element may be the first.
LEMMA SumsAdd ==
  ASSUME NEW S, IsFiniteSet(S), NEW w, \A x \in S : w[x] \in Nat, NEW g, Sums(w, S, g)
  PROVE  \A s \in SUBSET S : g[s] \in Nat /\ \A y \in s : g[s] = w[y] + g[s \ {y}]
<1> DEFINE Adds(n) == \A s \in SUBSET S : Cardinality(s) <= n =>
                        g[s] \in Nat /\ \A y \in s : g[s] = w[y] + g[s \ {y}]
           N == {n \in Nat : Adds(n)}
<1>a. \A s \in SUBSET S : IsFiniteSet(s) /\ Cardinality(s) \in Nat
  BY FS_Subset, FS_CardinalityType
<1>b. \A s \in SUBSET S : g[s] = IF s = {} THEN 0 ELSE w[AnyOf(s)] + g[s \ {AnyOf(s)}]
  <2> TAKE s \in SUBSET S
  <2>2. g[s] = Adding(w, S, g)[s]
    BY DEF Sums
  <2> QED BY <2>2 DEF Adding
<1>1. 0 \in N
  <2>1. \A s \in SUBSET S : Cardinality(s) <= 0 => s = {}
    BY <1>a, FS_EmptySet
  <2> QED BY <1>b, <2>1
<1>2. ASSUME NEW n \in N PROVE n + 1 \in N
  <2> SUFFICES ASSUME NEW s \in SUBSET S, Cardinality(s) <= n + 1
               PROVE  g[s] \in Nat /\ \A y \in s : g[s] = w[y] + g[s \ {y}]
    OBVIOUS
  <2>0. CASE s = {}
    BY <1>b, <2>0
  <2>1. SUFFICES ASSUME s # {} PROVE g[s] \in Nat /\ \A y \in s : g[s] = w[y] + g[s \ {y}]
    BY <2>0
  <2>2. ASSUME NEW y \in s PROVE s \ {y} \in SUBSET S /\ Cardinality(s \ {y}) <= n
    <3> DEFINE r == s \ {y}
    <3>1. Cardinality(s) = Cardinality(r) + 1 /\ Cardinality(r) \in Nat
      BY <1>a, OneOut
    <3> HIDE DEF r
    <3>2. Cardinality(r) <= n
      BY <3>1
    <3> QED BY <3>2 DEF r
  <2> DEFINE x == AnyOf(s)
  <2>3. x \in s /\ w[x] \in Nat
    BY <2>1, AnyOfIs
  <2>4. g[s] = w[x] + g[s \ {x}]
    BY <1>b, <2>1
  <2> HIDE DEF x
  <2>5. g[s \ {x}] \in Nat
    BY <2>2, <2>3
  <2>6. ASSUME NEW y \in s PROVE g[s] = w[y] + g[s \ {y}]
    <3>1. CASE y = x
      BY <2>4, <3>1
    <3>2. CASE y # x
      <4> DEFINE r == (s \ {x}) \ {y}
      <4>1. g[s \ {x}] = w[y] + g[r]
        BY <2>2, <2>3, <3>2
      <4>2. (s \ {y}) \ {x} = r
        OBVIOUS
      <4>3. g[s \ {y}] = w[x] + g[r]
        <5>1. g[s \ {y}] = w[x] + g[(s \ {y}) \ {x}]
          BY <2>2, <2>3, <3>2
        <5> HIDE DEF r
        <5> QED BY <4>2, <5>1
      <4>4. w[y] \in Nat /\ w[x] \in Nat
        BY <2>3
      <4>5. g[r] \in Nat
        <5>1. y \in s \ {x} /\ IsFiniteSet(s \ {x})
          BY <1>a, <2>2, <2>3, <3>2
        <5>2. Cardinality(s \ {x}) = Cardinality(r) + 1 /\ Cardinality(r) \in Nat
          BY <5>1, OneOut
        <5>3. Cardinality(r) <= n /\ r \in SUBSET S
          <6>1. Cardinality(s \ {x}) <= n /\ r \in SUBSET S
            BY <2>2, <2>3
          <6> HIDE DEF r
          <6> QED BY <5>2, <6>1
        <5> QED BY <5>3
      <4> HIDE DEF r
      <4> QED BY <2>4, <4>1, <4>3, <4>4, <4>5
    <3> QED BY <3>1, <3>2
  <2> QED BY <2>3, <2>4, <2>5, <2>6
<1>3. N = Nat
  <2>1. N \subseteq Nat
    OBVIOUS
  <2> HIDE DEF N
  <2> QED BY <1>1, <1>2, <2>1, Numbers
<1> QED BY <1>3, <1>a

\* The sum of the weights of a set: nothing of nothing, a number, alike for like weights, and
\* growing by the weight of what is added.
LEMMA EmptySum == ASSUME NEW w PROVE SumFunctionOnSet(w, {}) = 0
<1>1. PICK g : Sums(w, {}, g) /\ SumFunctionOnSet(w, {}) = g[{}]
  BY SumIsOne, FS_EmptySet
<1>2. g[{}] = Adding(w, {}, g)[{}]
  BY <1>1 DEF Sums
<1> QED BY <1>1, <1>2 DEF Adding

LEMMA SumNat ==
  ASSUME NEW S, IsFiniteSet(S), NEW w, \A x \in S : w[x] \in Nat
  PROVE  SumFunctionOnSet(w, S) \in Nat
<1>1. PICK g : Sums(w, S, g) /\ SumFunctionOnSet(w, S) = g[S]
  BY SumIsOne
<1> QED BY <1>1, SumsAdd

LEMMA SumAlike ==
  ASSUME NEW S, IsFiniteSet(S), NEW v, NEW w, \A x \in S : v[x] = w[x]
  PROVE  SumFunctionOnSet(v, S) = SumFunctionOnSet(w, S)
<1>1. PICK g : Sums(v, S, g) /\ SumFunctionOnSet(v, S) = g[S]
  BY SumIsOne
<1>2. PICK h : Sums(w, S, h) /\ SumFunctionOnSet(w, S) = h[S]
  BY SumIsOne
<1>3. g[S] = h[S]
  BY <1>1, <1>2, SumsAgree
<1> QED BY <1>1, <1>2, <1>3

LEMMA SumGrows ==
  ASSUME NEW S, IsFiniteSet(S), NEW x, x \notin S, NEW w, \A y \in S \cup {x} : w[y] \in Nat
  PROVE  SumFunctionOnSet(w, S \cup {x}) = w[x] + SumFunctionOnSet(w, S)
<1> DEFINE T == S \cup {x}
<1>0. IsFiniteSet(T)
  BY FS_AddElement
<1>1. PICK g : Sums(w, S, g) /\ SumFunctionOnSet(w, S) = g[S]
  BY SumIsOne
<1>2. PICK h : Sums(w, T, h) /\ SumFunctionOnSet(w, T) = h[T]
  BY <1>0, SumIsOne
<1>3. h[T] = w[x] + h[T \ {x}]
  <2>1. x \in T /\ T \in SUBSET T /\ \A y \in T : w[y] \in Nat
    OBVIOUS
  <2> HIDE DEF T
  <2> QED BY <1>0, <1>2, <2>1, SumsAdd
<1>4. T \ {x} = S
  OBVIOUS
<1>5. g[S] = h[S]
  <2>1. S \subseteq S \cap T
    OBVIOUS
  <2> HIDE DEF T
  <2> QED BY <1>1, <1>2, <2>1, SumsAgree
<1> QED BY <1>1, <1>2, <1>3, <1>4, <1>5

-----------------------------------------------------------------------------
(* Conversions: who holds a slot, a directory, a share of the budget.                *)

\* Every converter that runs holds a slot of its domain, and the slots are MaxWorkers.
Holds == {t \in Converts!Converters : thread[t] = "running"} \subseteq taken
SlotsBounded ==
  /\ IsFiniteSet(taken)
  /\ \A s \in Converts!Services : Cardinality(taken \cap Converts!ThreadsOf(s)) <= MaxWorkers

\* A service is closed only while no call uses it, and then no converter starts.
CallsOutside ==
  \A c \in Converts!ConvertCalls : closing[Converts!ServiceOf(c)] # "open" => call[c].pc \in {"idle", "over"}

\* Only a call that is over can have been made to a service that is no more.
EarlierOver ==
  \A c \in Converts!ConvertCalls : call[c].service # "open" => call[c].pc = "over"

\* The directory of a file call, from its beginning to the last of its group's threads.
DirectoryKept ==
  \A c \in FileCalls :
    /\ call[c].pc = "idle" => Converts!AliveOf(c) = {} /\ ~call[c].dir
    /\ call[c].pc \notin {"idle", "over"} => call[c].dir
    /\ call[c].pc = "over" /\ Converts!AliveOf(c) # {} => call[c].dir /\ c \in deferred
    /\ call[c].pc = "over" /\ Converts!AliveOf(c) = {} =>
         \/ ~call[c].dir /\ call[c].got = {}
         \/ c \in deferred /\ Converts!GroupOf(c) # {}
    /\ c \in deferred => call[c].pc = "over"

\* What a call has drawn from its budget, and the files it keeps.
BudgetDrawn ==
  \A c \in FileCalls :
    SumFunctionOnSet(Size, call[c].got) <= call[c].bytes /\ call[c].bytes <= Budget

ConvertInv == /\ Converts!ConvertTypeOK /\ Holds /\ SlotsBounded
        /\ CallsOutside /\ EarlierOver /\ Converts!ClosedIsQuiet /\ DirectoryKept /\ BudgetDrawn

-----------------------------------------------------------------------------
(* Types                                                                       *)

ConvertCall ==
  [pc: {"idle", "fetch", "slot", "wait", "leaving", "joining", "over"},
   kind: Converts!Kinds \cup {"mail"}, at: 1 .. PerCall, late: BOOLEAN,
   bytes: Nat, files: 0 .. MaxFiles,
   dir: BOOLEAN, got: SUBSET (1 .. PerCall), texts: SUBSET (1 .. PerCall),
   answer: {"none", "text", "error", "overloaded"}, service: {"open", "closed", "failed"}]

LEMMA SameCardinality == \A S : Converts!Cardinality(S) = Cardinality(S)
BY DEF Converts!Cardinality, Cardinality
LEMMA SameSum == \A w, S : Converts!SumFunctionOnSet(w, S) = SumFunctionOnSet(w, S)
BY DEF Converts!SumFunctionOnSet, Converts!FoldFunctionOnSet, Converts!MapThenFoldSet,
       SumFunctionOnSet, FoldFunctionOnSet, MapThenFoldSet

\* In the initial states.
LEMMA ConvertStart == ASSUME Converts!ConversionAssumption, Converts!ConvertInit PROVE ConvertInv
<1>1. Converts!ConvertTypeOK
  BY DEF Converts!ConversionAssumption, Converts!ConvertInit, Converts!ConvertTypeOK, Converts!Kinds
<1>2. Holds /\ CallsOutside /\ EarlierOver /\ Converts!ClosedIsQuiet /\ DirectoryKept
  BY DEF Converts!ConvertInit, Holds, CallsOutside, EarlierOver, Converts!ClosedIsQuiet, DirectoryKept, Converts!Services, Converts!ServiceOf,
         Converts!ThreadsOf, Converts!AliveOf, Converts!Alive, Converts!Converters, Converts!ConvertCalls
<1>3. SlotsBounded
  <2>1. \A s \in Converts!Services : taken \cap Converts!ThreadsOf(s) = {}
    BY DEF Converts!ConvertInit
  <2> QED BY <2>1, FS_EmptySet DEF Converts!ConvertInit, SlotsBounded, Converts!ConversionAssumption
<1>4. BudgetDrawn
  <2>1. \A c \in FileCalls : call[c].got = {} /\ call[c].bytes = 0
    BY DEF Converts!ConvertInit, Converts!ConvertCalls
  <2>2. SumFunctionOnSet(Size, {}) = 0 /\ 0 <= Budget
    BY EmptySum DEF Converts!ConversionAssumption
  <2> SUFFICES ASSUME NEW c \in FileCalls
               PROVE  SumFunctionOnSet(Size, call[c].got) <= call[c].bytes /\ call[c].bytes <= Budget
    BY DEF BudgetDrawn
  <2>3. SumFunctionOnSet(Size, call[c].got) = 0
    BY <2>1, <2>2
  <2> QED BY <2>1, <2>2, <2>3
<1> QED BY <1>1, <1>2, <1>3, <1>4 DEF ConvertInv

\* What the end of a file makes of the record of its call.
LEMMA AfterIsRecord ==
  ASSUME Converts!ConversionAssumption, Converts!ConvertTypeOK, NEW c \in FileCalls, NEW r \in ConvertCall
  PROVE  Converts!After(r, c) \in ConvertCall
<1>1. Converts!Last(c) \in 1 .. PerCall
  BY DEF Converts!Last, Converts!ConversionAssumption
<1>2. CASE r.at < Converts!Last(c)
  <2>1. r.at + 1 \in 1 .. PerCall
    BY <1>1, <1>2 DEF ConvertCall, Converts!ConversionAssumption
  <2> QED BY <1>2, <2>1 DEF Converts!After, ConvertCall
<1>3. CASE ~(r.at < Converts!Last(c))
  BY <1>3 DEF Converts!After, ConvertCall
<1> QED BY <1>2, <1>3

LEMMA CallFields ==
  ASSUME NEW r \in ConvertCall
  PROVE  /\ r.files \in 0 .. MaxFiles /\ r.bytes \in Nat /\ r.got \in SUBSET (1 .. PerCall)
         /\ r.at \in 1 .. PerCall /\ r.dir \in BOOLEAN
         /\ \A b, f : /\ [r EXCEPT !.bytes = b, !.files = f].got = r.got
                      /\ [r EXCEPT !.bytes = b, !.files = f].bytes = b
                      /\ [r EXCEPT !.bytes = b, !.files = f].dir = r.dir
                      /\ [r EXCEPT !.bytes = b, !.files = f].service = r.service
BY DEF ConvertCall

\* What the steps change in a record leaves it one.
LEMMA ConvertChanges ==
  ASSUME NEW r \in ConvertCall
  PROVE  /\ [r EXCEPT !.pc = "wait", !.late = FALSE] \in ConvertCall
         /\ \A k \in Converts!Kinds : [r EXCEPT !.pc = "fetch", !.kind = k, !.dir = TRUE] \in ConvertCall
         /\ \A g \in SUBSET (1 .. PerCall), b \in Nat, f \in 0 .. MaxFiles :
              [r EXCEPT !.got = g, !.bytes = b, !.files = f] \in ConvertCall
         /\ \A b \in Nat, f \in 0 .. MaxFiles : [r EXCEPT !.bytes = b, !.files = f] \in ConvertCall
         /\ [r EXCEPT !.late = TRUE] \in ConvertCall
         /\ \A x \in {"over"}, g \in SUBSET (1 .. PerCall) :
              [r EXCEPT !.pc = x, !.dir = FALSE, !.got = g] \in ConvertCall
         /\ [r EXCEPT !.dir = FALSE, !.got = {}] \in ConvertCall
         /\ \A s \in {"closed", "failed"} : [r EXCEPT !.service = s] \in ConvertCall
<1>1. [r EXCEPT !.pc = "wait", !.late = FALSE] \in ConvertCall
  BY DEF ConvertCall
<1>2. ASSUME NEW k \in Converts!Kinds PROVE [r EXCEPT !.pc = "fetch", !.kind = k, !.dir = TRUE] \in ConvertCall
  BY DEF ConvertCall
<1>3. ASSUME NEW g \in SUBSET (1 .. PerCall), NEW b \in Nat, NEW f \in 0 .. MaxFiles
      PROVE  [r EXCEPT !.got = g, !.bytes = b, !.files = f] \in ConvertCall
  BY DEF ConvertCall
<1>4. ASSUME NEW b \in Nat, NEW f \in 0 .. MaxFiles
      PROVE  [r EXCEPT !.bytes = b, !.files = f] \in ConvertCall
  BY DEF ConvertCall
<1>5. [r EXCEPT !.late = TRUE] \in ConvertCall
  BY DEF ConvertCall
<1>6. ASSUME NEW x \in {"over"}, NEW g \in SUBSET (1 .. PerCall)
      PROVE  [r EXCEPT !.pc = x, !.dir = FALSE, !.got = g] \in ConvertCall
  BY DEF ConvertCall
<1>7. [r EXCEPT !.dir = FALSE, !.got = {}] \in ConvertCall
  BY DEF ConvertCall
<1>8. ASSUME NEW s \in {"closed", "failed"} PROVE [r EXCEPT !.service = s] \in ConvertCall
  BY DEF ConvertCall
<1> QED BY <1>1, <1>2, <1>3, <1>4, <1>5, <1>6, <1>7, <1>8

\* Every step keeps the types.
LEMMA ConvertTypeStep ==
  ASSUME Converts!ConversionAssumption, Converts!ConvertTypeOK, [Converts!ConvertNext]_convertVars
  PROVE  Converts!ConvertTypeOK'
<1> DEFINE Calls == call' \in [Converts!ConvertCalls -> ConvertCall]
           Thread == thread' \in [Converts!Converters -> {"none", "unstarted", "running", "released", "ended"}]
           Rest == /\ taken' \subseteq Converts!Converters /\ deferred' \subseteq FileCalls
                   /\ closing' \in [Converts!Services -> {"open", "joining", "closed", "failed"}]
<1> SUFFICES Calls /\ Thread /\ Rest
  BY DEF Converts!ConvertTypeOK, ConvertCall
<1>a. call \in [Converts!ConvertCalls -> ConvertCall]
  BY DEF Converts!ConvertTypeOK, ConvertCall
<1>b. /\ UNCHANGED call => Calls
      /\ UNCHANGED thread => Thread
      /\ UNCHANGED <<taken, deferred, closing>> => Rest
  BY <1>a DEF Converts!ConvertTypeOK
<1>c. Converts!NoThread => Thread /\ Rest
  BY <1>b DEF Converts!NoThread
<1>d. ASSUME NEW c \in Converts!ConvertCalls, NEW r \in ConvertCall, call' = [call EXCEPT ![c] = r]
      PROVE  Calls
  BY <1>a, <1>d
<1>e. ASSUME NEW c \in Converts!ConvertCalls, NEW pc \in {"slot", "wait", "leaving", "joining", "over"},
             Converts!Goes(c, pc)
      PROVE  Calls
  BY <1>a, <1>e DEF Converts!Goes, ConvertCall
<1>f. ASSUME NEW c \in Converts!ConvertCalls, NEW told \in {"text", "error", "overloaded"},
             Converts!Fails(c, told) \/ Converts!Answers(c, told)
      PROVE  Calls
  BY <1>a, <1>f DEF Converts!Fails, Converts!Answers, ConvertCall
<1>g. MailCalls \subseteq Converts!ConvertCalls /\ FileCalls \subseteq Converts!ConvertCalls
  BY DEF Converts!ConvertCalls
<1>h. \A c \in FileCalls : call[c] \in ConvertCall /\ call[c].at \in 1 .. PerCall
                          /\ Size[call[c].at] \in Nat \ {0}
  BY <1>a, <1>g DEF ConvertCall, Converts!ConversionAssumption
<1>j. /\ thread \in [Converts!Converters -> {"none", "unstarted", "running", "released", "ended"}]
      /\ taken \subseteq Converts!Converters /\ deferred \subseteq FileCalls
      /\ closing \in [Converts!Services -> {"open", "joining", "closed", "failed"}]
  BY DEF Converts!ConvertTypeOK
<1>1. ASSUME NEW c \in MailCalls, Converts!BeginMail(c) PROVE Calls /\ Thread /\ Rest
  BY <1>1, <1>c, <1>e, <1>g DEF Converts!BeginMail
<1>2. ASSUME NEW c \in MailCalls, Converts!MailTakesSlot(c) PROVE Calls /\ Thread /\ Rest
  <2>1. Calls
    <3>1. CASE call' = [call EXCEPT ![c].pc = "wait", ![c].late = FALSE]
      <4>1. call[c] \in ConvertCall
        BY <1>a, <1>g
      <4>2. call' = [call EXCEPT ![c] = [call[c] EXCEPT !.pc = "wait", !.late = FALSE]]
        BY <1>a, <1>g, <3>1
      <4> QED BY <1>d, <1>g, <4>1, <4>2, ConvertChanges, Zenon
    <3>2. CASE Converts!Answers(c, "error")
      BY <1>f, <1>g, <3>2
    <3>3. \/ call' = [call EXCEPT ![c].pc = "wait", ![c].late = FALSE]
          \/ Converts!Answers(c, "error")
      BY <1>2, Zenon DEF Converts!MailTakesSlot
    <3> QED BY <3>1, <3>2, <3>3
  <2>2. <<c, 1>> \in Converts!Converters
    BY <1>g DEF Converts!Converters, Converts!ConversionAssumption
  <2>3. Thread /\ Rest
    BY <1>2, <1>j, <2>2 DEF Converts!MailTakesSlot
  <2> QED BY <2>1, <2>3
<1>3. ASSUME NEW c \in MailCalls, Converts!MailOverloaded(c) \/ Converts!MailAnswer(c) PROVE Calls /\ Thread /\ Rest
  BY <1>3, <1>c, <1>f, <1>g DEF Converts!MailOverloaded, Converts!MailAnswer
<1>4. ASSUME NEW c \in FileCalls, Converts!BeginFile(c) PROVE Calls /\ Thread /\ Rest
  <2>1. PICK k \in Converts!Kinds :
          call' = [call EXCEPT ![c] = [call[c] EXCEPT !.pc = "fetch", !.kind = k, !.dir = TRUE]]
    BY <1>4, <1>a, <1>g DEF Converts!BeginFile
  <2>2. [call[c] EXCEPT !.pc = "fetch", !.kind = k, !.dir = TRUE] \in ConvertCall
    BY <1>h, ConvertChanges, Zenon
  <2> QED BY <1>4, <1>c, <1>d, <1>g, <2>1, <2>2 DEF Converts!BeginFile
<1>5. ASSUME NEW c \in FileCalls, Converts!FetchRefused(c) \/ Converts!FileOverloaded(c) PROVE Calls /\ Thread /\ Rest
  BY <1>5, <1>c, <1>f, <1>g DEF Converts!FetchRefused, Converts!FileOverloaded
<1>6. ASSUME NEW c \in FileCalls, Converts!Fetched(c) PROVE Calls /\ Thread /\ Rest
  <2> DEFINE r == [call[c] EXCEPT !.got = @ \cup {call[c].at}, !.bytes = @ + Size[call[c].at],
                                  !.files = @ + Converts!Counted(c)]
             next == IF r.kind = "onedrive" /\ r.at < PerCall THEN [r EXCEPT !.at = @ + 1]
                     ELSE IF r.kind = "onedrive" THEN [r EXCEPT !.at = 1, !.pc = "slot"]
                     ELSE [r EXCEPT !.pc = "slot"]
  <2>1. call' = [call EXCEPT ![c] = next] /\ Converts!NoThread
    BY <1>6 DEF Converts!Fetched
  <2>2. call[c].files + Converts!Counted(c) \in 0 .. MaxFiles
    <3>1. call[c].files \in 0 .. MaxFiles /\ MaxFiles \in Nat
      BY <1>h DEF ConvertCall, Converts!ConversionAssumption
    <3>2. call[c].kind # "local" => call[c].files < MaxFiles
      BY <1>6 DEF Converts!Fetched, Converts!FetchAllowed
    <3> QED BY <3>1, <3>2 DEF Converts!Counted
  <2>a. /\ call[c].got \cup {call[c].at} \in SUBSET (1 .. PerCall)
        /\ call[c].bytes + Size[call[c].at] \in Nat
    BY <1>h, CallFields
  <2>3. r \in ConvertCall
    BY <1>h, <2>2, <2>a, ConvertChanges, Zenon
  <2>4. next \in ConvertCall
    <3>1. CASE r.kind = "onedrive" /\ r.at < PerCall
      <4> HIDE DEF r
      <4>1. r.at + 1 \in 1 .. PerCall
        BY <2>3, <3>1 DEF ConvertCall, Converts!ConversionAssumption
      <4> QED BY <2>3, <3>1, <4>1 DEF ConvertCall
    <3>2. CASE ~(r.kind = "onedrive" /\ r.at < PerCall)
      <4> HIDE DEF r
      <4>1. 1 \in 1 .. PerCall
        BY DEF Converts!ConversionAssumption
      <4> QED BY <2>3, <3>2, <4>1 DEF ConvertCall
    <3> QED BY <3>1, <3>2
  <2> HIDE DEF next
  <2> QED BY <1>c, <1>d, <1>g, <2>1, <2>4
<1>7. ASSUME NEW c \in FileCalls, Converts!FetchFailed(c) PROVE Calls /\ Thread /\ Rest
  <2>1. PICK piece \in 0 .. Size[call[c].at] - 1 :
          LET r == [call[c] EXCEPT !.bytes = @ + piece, !.files = @ + Converts!Counted(c)]
          IN  call' = [call EXCEPT ![c] =
                IF r.kind = "onedrive" THEN [r EXCEPT !.pc = "leaving", !.answer = "error"]
                ELSE Converts!After(r, c)]
    BY <1>7 DEF Converts!FetchFailed
  <2> DEFINE r == [call[c] EXCEPT !.bytes = @ + piece, !.files = @ + Converts!Counted(c)]
             next == IF r.kind = "onedrive" THEN [r EXCEPT !.pc = "leaving", !.answer = "error"]
                     ELSE Converts!After(r, c)
  <2>2. call[c].files + Converts!Counted(c) \in 0 .. MaxFiles
    <3>1. call[c].files \in 0 .. MaxFiles /\ MaxFiles \in Nat
      BY <1>h DEF ConvertCall, Converts!ConversionAssumption
    <3>2. call[c].kind # "local" => call[c].files < MaxFiles
      BY <1>7 DEF Converts!FetchFailed, Converts!FetchAllowed
    <3> QED BY <3>1, <3>2 DEF Converts!Counted
  <2>a. call[c].bytes + piece \in Nat
    BY <1>h, CallFields
  <2>3. r \in ConvertCall
    BY <1>h, <2>2, <2>a, ConvertChanges, Zenon
  <2>4. call' = [call EXCEPT ![c] = next] /\ Converts!NoThread
    BY <1>7, <2>1 DEF Converts!FetchFailed
  <2>5. next \in ConvertCall
    <3> HIDE DEF r
    <3> QED BY <2>3, AfterIsRecord DEF ConvertCall
  <2> HIDE DEF next
  <2> QED BY <1>c, <1>d, <1>g, <2>4, <2>5
<1>i. \A c \in FileCalls : Converts!After(call[c], c) \in ConvertCall
  BY <1>h, AfterIsRecord
<1>8. ASSUME NEW c \in FileCalls, Converts!FileTakesSlot(c) PROVE Calls /\ Thread /\ Rest
  <2>1. Calls
    BY <1>8, <1>d, <1>e, <1>g, <1>i DEF Converts!FileTakesSlot
  <2>2. Thread /\ Rest
    <3>1. <<c, call[c].at>> \in Converts!Converters
      BY <1>g, <1>h DEF Converts!Converters
    <3> QED BY <1>8, <1>j, <3>1 DEF Converts!FileTakesSlot
  <2> QED BY <2>1, <2>2
<1>9. ASSUME NEW c \in FileCalls, Converts!TooLate(c) \/ Converts!ConversionTimesOut(c) PROVE Calls /\ Thread /\ Rest
  BY <1>9, <1>c, <1>d, <1>g, <1>i DEF Converts!TooLate, Converts!ConversionTimesOut
<1>10. ASSUME NEW c \in FileCalls, Converts!Converted(c) PROVE Calls /\ Thread /\ Rest
  <2>1. PICK text \in {{}, {call[c].at}} :
          call' = [call EXCEPT ![c] = Converts!After([call[c] EXCEPT !.texts = @ \cup text], c)]
    BY <1>10 DEF Converts!Converted
  <2>2. [call[c] EXCEPT !.texts = @ \cup text] \in ConvertCall
    BY <1>h DEF ConvertCall
  <2>3. Converts!After([call[c] EXCEPT !.texts = @ \cup text], c) \in ConvertCall
    BY <2>2, AfterIsRecord
  <2> QED BY <1>10, <1>c, <1>d, <1>g, <2>1, <2>3 DEF Converts!Converted
<1>11. ASSUME NEW c \in FileCalls, Converts!LeaveDownloads(c) PROVE Calls /\ Thread /\ Rest
  BY <1>11, <1>a, <1>c, <1>g DEF Converts!LeaveDownloads, ConvertCall
<1>12. ASSUME NEW c \in FileCalls, Converts!LeaveFile(c) PROVE Calls /\ Thread /\ Rest
  <2>1. Calls
    BY <1>12, <1>a, <1>e, <1>g, SMTT(40) DEF Converts!LeaveFile, ConvertCall
  <2>2. Thread /\ Rest
    BY <1>12 DEF Converts!LeaveFile, Converts!ConvertTypeOK
  <2> QED BY <2>1, <2>2
<1>13. ASSUME NEW c \in Converts!ConvertCalls, Converts!Deadline(c) PROVE Calls /\ Thread /\ Rest
  <2>1. call[c] \in ConvertCall /\ call' = [call EXCEPT ![c] = [call[c] EXCEPT !.late = TRUE]]
    BY <1>13, <1>a DEF Converts!Deadline
  <2>2. Calls
    BY <1>d, <2>1, ConvertChanges, Zenon
  <2> QED BY <1>13, <1>c, <2>2 DEF Converts!Deadline
<1>14. ASSUME NEW t \in Converts!Converters, Converts!ReleaseSlot(t) \/ Converts!Finished(t) PROVE Calls /\ Thread /\ Rest
  <2>1. Calls
    <3>1. t[1] \in Converts!ConvertCalls /\ call[t[1]] \in ConvertCall
      BY <1>a, Zenon DEF Converts!Converters
    <3>2. CASE call' = [call EXCEPT ![t[1]].dir = FALSE, ![t[1]].got = {}]
      <4>1. call' = [call EXCEPT ![t[1]] = [call[t[1]] EXCEPT !.dir = FALSE, !.got = {}]]
        BY <1>a, <3>1, <3>2
      <4> QED BY <1>d, <3>1, <4>1, ConvertChanges, Zenon
    <3> QED BY <1>14, <1>b, <3>2 DEF Converts!ReleaseSlot, Converts!Finished
  <2>2. Thread /\ Rest
    BY <1>14 DEF Converts!ReleaseSlot, Converts!Finished, Converts!ConvertTypeOK
  <2> QED BY <2>1, <2>2
<1>15. ASSUME (\E s \in Converts!Services : Converts!BeginClose(s)) \/ Converts!CloseMail \/ Converts!CloseFile
       PROVE  Calls /\ Thread /\ Rest
  BY <1>15, <1>b DEF Converts!BeginClose, Converts!CloseMail, Converts!CloseFile, Converts!ConvertTypeOK, Converts!Services
<1>17. ASSUME NEW s \in Converts!Services, Converts!Reopen(s) PROVE Calls /\ Thread /\ Rest
  <2>1. \A c \in Converts!ConvertCalls : [call[c] EXCEPT !.service = closing[s]] \in ConvertCall
    BY <1>17, <1>a, ConvertChanges DEF Converts!Reopen
  <2>2. Calls
    BY <1>17, <1>a, <2>1 DEF Converts!Reopen
  <2> QED BY <1>17, <2>2, <1>b DEF Converts!Reopen, Converts!ConvertTypeOK
<1>16. CASE UNCHANGED convertVars
  BY <1>16, <1>b DEF convertVars
<1> QED BY <1>1, <1>2, <1>3, <1>4, <1>5, <1>6, <1>7, <1>8, <1>9, <1>10, <1>11, <1>12, <1>13,
           <1>14, <1>15, <1>16, <1>17 DEF Converts!ConvertNext, Converts!MailSteps, Converts!FileSteps

-----------------------------------------------------------------------------
(* What a step does                                                            *)

Others(c) == \A d \in Converts!ConvertCalls \ {c} : call'[d] = call[d]

\* A call begins, in an open service.
Begins(c) ==
  /\ call[c].pc = "idle" /\ closing[Converts!ServiceOf(c)] = "open"
  /\ call'[c].pc \notin {"idle", "over"} /\ (c \in FileCalls => call'[c].dir)
  /\ call'[c].service = call[c].service
  /\ Others(c) /\ Converts!NoThread

\* A call goes on, and may take a slot and start a converter.
Works(c) ==
  /\ call[c].pc \notin {"idle", "over"}
  /\ call'[c].pc # "idle" /\ call'[c].service = call[c].service
  /\ c \in FileCalls => call'[c].pc # "over" /\ call'[c].dir = call[c].dir
  /\ Others(c)
  /\ UNCHANGED <<deferred, closing>>
  /\ \/ UNCHANGED <<thread, taken>>
     \/ \E t \in Converts!Converters :
          /\ t[1] = c /\ Converts!SlotFree(Converts!ServiceOf(c)) /\ taken' = taken \cup {t}
          /\ \E s \in {"running", "unstarted"} : thread' = [thread EXCEPT ![t] = s]

\* A service begins to close or ends its closing.
Closes ==
  /\ UNCHANGED <<call, thread, taken, deferred>>
  /\ \E s \in Converts!Services :
       \/ /\ closing' = [closing EXCEPT ![s] = "joining"]
          /\ \A c \in Converts!ConvertCalls : Converts!ServiceOf(c) = s => call[c].pc \in {"idle", "over"}
       \/ /\ closing[s] # "open" /\ Converts!LiveOf(s) = {}
          /\ closing' = [closing EXCEPT ![s] = "closed"]
       \/ closing[s] # "open" /\ closing' = [closing EXCEPT ![s] = "failed"]

\* Every step is one of these.
LEMMA ConvertMoves ==
  ASSUME Converts!ConversionAssumption, Converts!ConvertTypeOK, [Converts!ConvertNext]_convertVars
  PROVE  \/ \E c \in Converts!ConvertCalls : Begins(c) \/ Works(c)
         \/ \E c \in FileCalls : Converts!LeaveFile(c)
         \/ \E t \in Converts!Converters : Converts!ReleaseSlot(t) \/ Converts!Finished(t)
         \/ Closes \/ \E s \in Converts!Services : Converts!Reopen(s)
         \/ UNCHANGED convertVars
<1>a. call \in [Converts!ConvertCalls -> ConvertCall]
  BY DEF Converts!ConvertTypeOK, ConvertCall
<1>g. MailCalls \subseteq Converts!ConvertCalls /\ FileCalls \subseteq Converts!ConvertCalls /\ MailCalls \cap FileCalls = {}
  BY DEF Converts!ConvertCalls, Converts!ConversionAssumption
<1>i. \A c \in FileCalls, r \in ConvertCall :
        /\ Converts!After(r, c).pc \notin {"idle", "over"} /\ Converts!After(r, c).dir = r.dir
        /\ Converts!After(r, c).service = r.service
  <2> SUFFICES ASSUME NEW c \in FileCalls, NEW r \in ConvertCall
               PROVE  /\ Converts!After(r, c).pc \notin {"idle", "over"} /\ Converts!After(r, c).dir = r.dir
                      /\ Converts!After(r, c).service = r.service
    OBVIOUS
  <2>1. CASE r.at < Converts!Last(c)
    BY <2>1 DEF Converts!After, ConvertCall
  <2>2. CASE ~(r.at < Converts!Last(c))
    BY <2>2 DEF Converts!After, ConvertCall
  <2> QED BY <2>1, <2>2
<1>1. ASSUME NEW c \in MailCalls, Converts!BeginMail(c) PROVE Begins(c)
  BY <1>1, <1>a, <1>g DEF Converts!BeginMail, Begins, Converts!Goes, Converts!ServiceOf, Others, ConvertCall
<1>2. ASSUME NEW c \in MailCalls, Converts!MailTakesSlot(c) PROVE Works(c)
  <2>1. <<c, 1>> \in Converts!Converters /\ <<c, 1>>[1] = c /\ Converts!ServiceOf(c) = "mail"
    BY <1>g DEF Converts!Converters, Converts!ConversionAssumption, Converts!ServiceOf
  <2>2. /\ call[c].pc \notin {"idle", "over"} /\ call'[c].pc # "idle" /\ Others(c)
        /\ call'[c].service = call[c].service
    BY <1>2, <1>a, <1>g DEF Converts!MailTakesSlot, Converts!Answers, Others, ConvertCall
  <2>3. UNCHANGED <<deferred, closing>> /\ c \notin FileCalls
    BY <1>2, <1>g DEF Converts!MailTakesSlot
  <2>4. \/ UNCHANGED <<thread, taken>>
        \/ /\ Converts!SlotFree("mail") /\ taken' = taken \cup {<<c, 1>>}
           /\ thread' = [thread EXCEPT ![<<c, 1>>] = "running"]
    BY <1>2 DEF Converts!MailTakesSlot
  <2> QED BY <2>1, <2>2, <2>3, <2>4 DEF Works
<1>3. ASSUME NEW c \in MailCalls, Converts!MailOverloaded(c) \/ Converts!MailAnswer(c) PROVE Works(c)
  BY <1>3, <1>a, <1>g DEF Converts!MailOverloaded, Converts!MailAnswer, Works, Converts!Answers, Converts!NoThread, Others, ConvertCall
<1>4. ASSUME NEW c \in FileCalls, Converts!BeginFile(c) PROVE Begins(c)
  BY <1>4, <1>a, <1>g DEF Converts!BeginFile, Begins, Converts!ServiceOf, Others, ConvertCall
<1>5. ASSUME NEW c \in FileCalls, Converts!FetchRefused(c) \/ Converts!FileOverloaded(c) PROVE Works(c)
  BY <1>5, <1>a, <1>g DEF Converts!FetchRefused, Converts!FileOverloaded, Works, Converts!Fails, Converts!NoThread, Others, ConvertCall
<1>6. ASSUME NEW c \in FileCalls, Converts!Fetched(c) PROVE Works(c)
  <2>1. call[c].pc = "fetch" /\ Others(c) /\ Converts!NoThread
    BY <1>6, <1>a, <1>g DEF Converts!Fetched, Converts!FetchAllowed, Others
  <2>2. /\ call'[c].pc \notin {"idle", "over"} /\ call'[c].dir = call[c].dir
        /\ call'[c].service = call[c].service
    BY <1>6, <1>a, <1>g, <2>1 DEF Converts!Fetched, ConvertCall
  <2> QED BY <2>1, <2>2 DEF Works, Converts!NoThread
<1>7. ASSUME NEW c \in FileCalls, Converts!FetchFailed(c) PROVE Works(c)
  <2>1. call[c].pc = "fetch" /\ Others(c) /\ Converts!NoThread
    BY <1>7, <1>a, <1>g DEF Converts!FetchFailed, Converts!FetchAllowed, Others
  <2>2. PICK piece \in 0 .. Size[call[c].at] - 1 :
          LET r == [call[c] EXCEPT !.bytes = @ + piece, !.files = @ + Converts!Counted(c)]
          IN  call' = [call EXCEPT ![c] =
                IF r.kind = "onedrive" THEN [r EXCEPT !.pc = "leaving", !.answer = "error"]
                ELSE Converts!After(r, c)]
    BY <1>7 DEF Converts!FetchFailed
  <2> DEFINE r == [call[c] EXCEPT !.bytes = @ + piece, !.files = @ + Converts!Counted(c)]
  <2>3. call[c] \in ConvertCall /\ Size[call[c].at] \in Nat \ {0}
    BY <1>a, <1>g DEF ConvertCall, Converts!ConversionAssumption
  <2>4. call[c].bytes + piece \in Nat
    BY <2>3 DEF ConvertCall
  <2>b. call[c].files + Converts!Counted(c) \in 0 .. MaxFiles
    <3>1. call[c].files \in 0 .. MaxFiles /\ MaxFiles \in Nat
      BY <2>3 DEF ConvertCall, Converts!ConversionAssumption
    <3>2. call[c].kind # "local" => call[c].files < MaxFiles
      BY <1>7 DEF Converts!FetchFailed, Converts!FetchAllowed
    <3> QED BY <3>1, <3>2 DEF Converts!Counted
  <2>c. r.dir = call[c].dir /\ r.service = call[c].service
    BY <2>3, CallFields
  <2>5. r \in ConvertCall
    BY <2>3, <2>4, <2>b, ConvertChanges, Zenon
  <2>6. call'[c] = IF r.kind = "onedrive" THEN [r EXCEPT !.pc = "leaving", !.answer = "error"]
                   ELSE Converts!After(r, c)
    BY <1>a, <1>g, <2>2
  <2> HIDE DEF r
  <2>7. /\ call'[c].pc \notin {"idle", "over"} /\ call'[c].dir = call[c].dir
        /\ call'[c].service = call[c].service
    BY <1>i, <2>5, <2>6, <2>c DEF ConvertCall
  <2> QED BY <2>1, <2>7 DEF Works, Converts!NoThread
<1>8. ASSUME NEW c \in FileCalls, Converts!FileTakesSlot(c) PROVE Works(c)
  <2> DEFINE t == <<c, call[c].at>>
  <2>1. t \in Converts!Converters /\ t[1] = c /\ Converts!ServiceOf(c) = "file"
    BY <1>a, <1>g DEF Converts!Converters, ConvertCall, Converts!ServiceOf
  <2>2. call[c].pc \notin {"idle", "over"} /\ Others(c)
    BY <1>8, <1>a, <1>g DEF Converts!FileTakesSlot, Converts!Goes, Others
  <2>3. /\ call'[c].pc \notin {"idle", "over"} /\ call'[c].dir = call[c].dir
        /\ call'[c].service = call[c].service
    BY <1>8, <1>a, <1>g, <1>i DEF Converts!FileTakesSlot, Converts!Goes, ConvertCall
  <2>4. /\ UNCHANGED <<deferred, closing>> /\ Converts!SlotFree("file") /\ taken' = taken \cup {t}
        /\ \E s \in {"running", "unstarted"} : thread' = [thread EXCEPT ![t] = s]
    BY <1>8 DEF Converts!FileTakesSlot
  <2> HIDE DEF t
  <2> QED BY <2>1, <2>2, <2>3, <2>4 DEF Works
<1>9. ASSUME NEW c \in FileCalls, Converts!TooLate(c) \/ Converts!ConversionTimesOut(c) PROVE Works(c)
  BY <1>9, <1>a, <1>g, <1>i DEF Converts!TooLate, Converts!ConversionTimesOut, Works, Converts!NoThread, Others
<1>10. ASSUME NEW c \in FileCalls, Converts!Converted(c) PROVE Works(c)
  <2>1. PICK text \in {{}, {call[c].at}} :
          call' = [call EXCEPT ![c] = Converts!After([call[c] EXCEPT !.texts = @ \cup text], c)]
    BY <1>10 DEF Converts!Converted
  <2>2. [call[c] EXCEPT !.texts = @ \cup text] \in ConvertCall
    BY <1>a, <1>g DEF ConvertCall
  <2>3. /\ call'[c].pc \notin {"idle", "over"} /\ call'[c].dir = call[c].dir
        /\ call'[c].service = call[c].service
    BY <1>a, <1>g, <1>i, <2>1, <2>2 DEF ConvertCall
  <2> QED BY <1>10, <1>a, <1>g, <2>1, <2>3 DEF Converts!Converted, Works, Converts!NoThread, Others
<1>11. ASSUME NEW c \in FileCalls, Converts!LeaveDownloads(c) PROVE Works(c)
  BY <1>11, <1>a, <1>g DEF Converts!LeaveDownloads, Works, Converts!NoThread, Others, ConvertCall
<1>12. ASSUME NEW c \in Converts!ConvertCalls, Converts!Deadline(c) PROVE Works(c)
  BY <1>12, <1>a DEF Converts!Deadline, Works, Converts!NoThread, Others, ConvertCall
<1>13. ASSUME (\E s \in Converts!Services : Converts!BeginClose(s)) \/ Converts!CloseMail \/ Converts!CloseFile
       PROVE  Closes
  <2>1. CASE \E s \in Converts!Services : Converts!BeginClose(s)
    BY <2>1 DEF Converts!BeginClose, Closes
  <2>2. CASE Converts!CloseMail
    BY <2>2 DEF Converts!CloseMail, Closes, Converts!Services
  <2>3. CASE Converts!CloseFile
    BY <2>3 DEF Converts!CloseFile, Closes, Converts!Services
  <2> QED BY <1>13, <2>1, <2>2, <2>3
<1> QED BY <1>g, <1>1, <1>2, <1>3, <1>4, <1>5, <1>6, <1>7, <1>8, <1>9, <1>10, <1>11, <1>12, <1>13
        DEF Converts!ConvertNext, Converts!MailSteps, Converts!FileSteps

-----------------------------------------------------------------------------
(* Slots                                                                       *)

\* A thread more in a domain that has a free slot.
LEMMA SlotTaken ==
  ASSUME Converts!ConversionAssumption, SlotsBounded, NEW t \in Converts!Converters, Converts!SlotFree(Converts!ServiceOf(t[1])),
         taken' = taken \cup {t}
  PROVE  SlotsBounded'
<1>1. IsFiniteSet(taken')
  BY FS_AddElement DEF SlotsBounded
<1>2. ASSUME NEW s \in Converts!Services PROVE Cardinality(taken' \cap Converts!ThreadsOf(s)) <= MaxWorkers
  <2> DEFINE U == taken \cap Converts!ThreadsOf(s)
  <2>1. IsFiniteSet(U)
    BY FS_Subset DEF SlotsBounded
  <2>2. Cardinality(U) \in Nat
    BY <2>1, FS_CardinalityType
  <2>3. CASE Converts!ServiceOf(t[1]) = s
    <3>1. taken' \cap Converts!ThreadsOf(s) = U \cup {t}
      BY <2>3 DEF Converts!ThreadsOf
    <3>2. Cardinality(U) < MaxWorkers
      BY <2>3, SameCardinality DEF Converts!SlotFree
    <3> HIDE DEF U
    <3>3. /\ IsFiniteSet(U \cup {t})
          /\ Cardinality(U \cup {t}) = IF t \in U THEN Cardinality(U) ELSE Cardinality(U) + 1
      BY <2>1, FS_AddElement, Zenon
    <3> DEFINE n == Cardinality(U) m == Cardinality(U \cup {t})
    <3>4. n \in Nat /\ MaxWorkers \in Nat /\ n < MaxWorkers /\ m \in {n, n + 1}
      BY <2>2, <3>2, <3>3 DEF Converts!ConversionAssumption
    <3> HIDE DEF n, m
    <3>5. m <= MaxWorkers
      BY <3>4
    <3> QED BY <3>1, <3>5 DEF m
  <2>4. CASE Converts!ServiceOf(t[1]) # s
    <3>1. taken' \cap Converts!ThreadsOf(s) = taken \cap Converts!ThreadsOf(s)
      BY <2>4 DEF Converts!ThreadsOf
    <3> QED BY <3>1 DEF SlotsBounded
  <2> QED BY <2>3, <2>4
<1>3. \A s \in Converts!Services : Converts!ThreadsOf(s)' = Converts!ThreadsOf(s)
  BY DEF Converts!ThreadsOf
<1> QED BY <1>1, <1>2, <1>3 DEF SlotsBounded

\* A thread less.
LEMMA SlotReturned ==
  ASSUME Converts!ConversionAssumption, SlotsBounded, taken' \subseteq taken
  PROVE  SlotsBounded'
<1>1. IsFiniteSet(taken')
  BY FS_Subset DEF SlotsBounded
<1>2. ASSUME NEW s \in Converts!Services PROVE Cardinality(taken' \cap Converts!ThreadsOf(s)) <= MaxWorkers
  <2>1. IsFiniteSet(taken \cap Converts!ThreadsOf(s)) /\ taken' \cap Converts!ThreadsOf(s) \subseteq taken \cap Converts!ThreadsOf(s)
    BY FS_Subset DEF SlotsBounded
  <2>2. /\ IsFiniteSet(taken' \cap Converts!ThreadsOf(s))
        /\ Cardinality(taken' \cap Converts!ThreadsOf(s)) <= Cardinality(taken \cap Converts!ThreadsOf(s))
    BY <2>1, FS_Subset
  <2>3. /\ Cardinality(taken \cap Converts!ThreadsOf(s)) \in Nat
        /\ Cardinality(taken' \cap Converts!ThreadsOf(s)) \in Nat
    BY <2>1, <2>2, FS_CardinalityType
  <2> QED BY <2>2, <2>3 DEF SlotsBounded, Converts!ConversionAssumption
<1> QED BY <1>1, <1>2 DEF SlotsBounded

\* Every step keeps the slots.
LEMMA SlotStep ==
  ASSUME Converts!ConversionAssumption, Converts!ConvertTypeOK, Holds, SlotsBounded, [Converts!ConvertNext]_convertVars
  PROVE  Holds' /\ SlotsBounded'
<1>j. thread \in [Converts!Converters -> {"none", "unstarted", "running", "released", "ended"}]
  BY DEF Converts!ConvertTypeOK
<1>1. CASE UNCHANGED <<thread, taken>>
  BY <1>1 DEF Holds, SlotsBounded
<1>2. ASSUME NEW c \in Converts!ConvertCalls, Works(c) PROVE Holds' /\ SlotsBounded'
  <2>1. ASSUME NEW t \in Converts!Converters, t[1] = c, Converts!SlotFree(Converts!ServiceOf(c)), taken' = taken \cup {t},
               NEW s \in {"running", "unstarted"}, thread' = [thread EXCEPT ![t] = s]
        PROVE  Holds' /\ SlotsBounded'
    <3>1. SlotsBounded'
      BY <2>1, SlotTaken
    <3>2. Holds'
      BY <1>j, <2>1 DEF Holds
    <3> QED BY <3>1, <3>2
  <2> QED BY <1>1, <1>2, <2>1 DEF Works
<1>3. ASSUME NEW t \in Converts!Converters, Converts!ReleaseSlot(t) PROVE Holds' /\ SlotsBounded'
  <2>1. SlotsBounded'
    BY <1>3, SlotReturned DEF Converts!ReleaseSlot
  <2>2. Holds'
    BY <1>3, <1>j DEF Converts!ReleaseSlot, Holds
  <2> QED BY <2>1, <2>2
<1>4. ASSUME NEW t \in Converts!Converters, Converts!Finished(t) PROVE Holds' /\ SlotsBounded'
  <2>1. SlotsBounded'
    BY <1>4, SlotReturned DEF Converts!Finished
  <2>2. Holds'
    BY <1>4, <1>j DEF Converts!Finished, Holds
  <2> QED BY <2>1, <2>2
<1>5. CASE \/ (\E c \in Converts!ConvertCalls : Begins(c)) \/ (\E c \in FileCalls : Converts!LeaveFile(c))
           \/ Closes \/ \E s \in Converts!Services : Converts!Reopen(s)
  BY <1>1, <1>5 DEF Begins, Converts!NoThread, Converts!LeaveFile, Closes, Converts!Reopen
<1>6. CASE UNCHANGED convertVars
  BY <1>1, <1>6 DEF convertVars
<1> QED BY <1>2, <1>3, <1>4, <1>5, <1>6, ConvertMoves

-----------------------------------------------------------------------------
(* Closing                                                                     *)

\* Every step keeps calls out of closed services, these quiet, and calls of earlier
\* services over.
LEMMA CloseStep ==
  ASSUME Converts!ConversionAssumption, Converts!ConvertTypeOK, CallsOutside, EarlierOver,
         Converts!ClosedIsQuiet, [Converts!ConvertNext]_convertVars
  PROVE  CallsOutside' /\ EarlierOver' /\ Converts!ClosedIsQuiet'
<1> DEFINE Ends == CallsOutside' /\ EarlierOver' /\ Converts!ClosedIsQuiet'
<1>a. /\ thread \in [Converts!Converters -> {"none", "unstarted", "running", "released", "ended"}]
      /\ closing \in [Converts!Services -> {"open", "joining", "closed", "failed"}]
      /\ FileCalls \subseteq Converts!ConvertCalls
      /\ \A c \in Converts!ConvertCalls : Converts!ServiceOf(c) \in Converts!Services
      /\ \A t \in Converts!Converters : t[1] \in Converts!ConvertCalls
  BY DEF Converts!ConvertTypeOK, Converts!ConvertCalls, Converts!ServiceOf, Converts!Services, Converts!Converters
<1>b. ASSUME \A d \in Converts!ConvertCalls : call'[d].service = call[d].service,
             \A u \in Converts!Converters : Converts!Alive(u)' => Converts!Alive(u), closing' = closing
      PROVE  Converts!ClosedIsQuiet'
  BY <1>a, <1>b DEF Converts!ClosedIsQuiet, Converts!ThreadsOf
<1>1. ASSUME NEW c \in Converts!ConvertCalls, Begins(c) PROVE Ends
  <2>1. /\ \A d \in Converts!ConvertCalls : call'[d].service = call[d].service
        /\ \A u \in Converts!Converters : Converts!Alive(u)' => Converts!Alive(u)
        /\ closing' = closing
    BY <1>1 DEF Begins, Others, Converts!NoThread, Converts!Alive
  <2>2. CallsOutside'
    BY <1>1 DEF Begins, Others, Converts!NoThread, CallsOutside
  <2>3. EarlierOver'
    BY <1>1 DEF Begins, Others, EarlierOver
  <2> QED BY <1>b, <2>1, <2>2, <2>3
<1>2. ASSUME NEW c \in Converts!ConvertCalls, Works(c) PROVE Ends
  <2>1. closing[Converts!ServiceOf(c)] = "open" /\ call[c].service = "open"
    BY <1>2 DEF Works, CallsOutside, EarlierOver
  <2>2. CallsOutside' /\ EarlierOver'
    BY <1>2, <2>1 DEF Works, Others, CallsOutside, EarlierOver
  <2>3. \A t \in Converts!Converters : t[1] # c => thread'[t] = thread[t]
    BY <1>2, <1>a DEF Works
  <2>4. /\ \A d \in Converts!ConvertCalls : call'[d].service = call[d].service
        /\ closing' = closing
    BY <1>2 DEF Works, Others
  <2>5. ASSUME NEW s \in Converts!Services, NEW t \in Converts!Converters,
               t \in Converts!ThreadsOf(s), Converts!Alive(t)'
        PROVE  /\ call'[t[1]].service # "closed"
               /\ closing'[s] = "closed" => call'[t[1]].service = "failed"
    <3>1. CASE t[1] = c
      <4>1. s = Converts!ServiceOf(c)
        BY <2>5, <3>1 DEF Converts!ThreadsOf
      <4> QED BY <2>1, <2>4, <3>1, <4>1
    <3>2. CASE t[1] # c
      <4>1. Converts!Alive(t)
        BY <2>3, <2>5, <3>2 DEF Converts!Alive
      <4> QED BY <1>a, <2>4, <2>5, <4>1 DEF Converts!ClosedIsQuiet
    <3> QED BY <3>1, <3>2
  <2>6. Converts!ClosedIsQuiet'
    BY <2>5 DEF Converts!ClosedIsQuiet, Converts!ThreadsOf
  <2> QED BY <2>2, <2>6
<1>3. ASSUME NEW c \in FileCalls, Converts!LeaveFile(c) PROVE Ends
  <2>1. \A d \in Converts!ConvertCalls : /\ call'[d].pc = call[d].pc \/ call'[d].pc = "over"
                                        /\ call'[d].service = call[d].service
    BY <1>3, <1>a DEF Converts!LeaveFile, Converts!Goes, Converts!ConvertTypeOK
  <2>2. closing' = closing /\ \A u \in Converts!Converters : Converts!Alive(u)' => Converts!Alive(u)
    BY <1>3 DEF Converts!LeaveFile, Converts!Alive
  <2>3. CallsOutside' /\ EarlierOver'
    BY <2>1, <2>2 DEF CallsOutside, EarlierOver
  <2> QED BY <1>b, <2>1, <2>2, <2>3
<1>4. ASSUME NEW t \in Converts!Converters, Converts!ReleaseSlot(t) \/ Converts!Finished(t) PROVE Ends
  <2>1. \A d \in Converts!ConvertCalls : call'[d].pc = call[d].pc /\ call'[d].service = call[d].service
    BY <1>4 DEF Converts!ReleaseSlot, Converts!Finished, Converts!ConvertTypeOK
  <2>2. \A u \in Converts!Converters : Converts!Alive(u)' => Converts!Alive(u)
    BY <1>4, <1>a DEF Converts!ReleaseSlot, Converts!Finished, Converts!Alive
  <2>3. closing' = closing
    BY <1>4 DEF Converts!ReleaseSlot, Converts!Finished
  <2>4. CallsOutside' /\ EarlierOver'
    BY <2>1, <2>3 DEF CallsOutside, EarlierOver
  <2> QED BY <1>b, <2>1, <2>2, <2>3, <2>4
<1>5. CASE Closes
  <2>1. CallsOutside'
    BY <1>5, <1>a DEF Closes, CallsOutside
  <2>2. EarlierOver'
    BY <1>5 DEF Closes, EarlierOver
  <2>3. Converts!ClosedIsQuiet'
    <3> SUFFICES ASSUME NEW s \in Converts!Services, NEW t \in Converts!Converters,
                        t \in Converts!ThreadsOf(s), Converts!Alive(t)
                 PROVE  /\ call[t[1]].service # "closed"
                        /\ closing'[s] = "closed" => call[t[1]].service = "failed"
      BY <1>5 DEF Closes, Converts!ClosedIsQuiet, Converts!ThreadsOf, Converts!Alive
    <3>1. /\ call[t[1]].service # "closed"
          /\ closing[s] = "closed" => call[t[1]].service = "failed"
      BY DEF Converts!ClosedIsQuiet
    <3>2. ASSUME Converts!LiveOf(s) = {} PROVE call[t[1]].service = "failed"
      <4>1. call[t[1]].service # "open"
        BY <3>2 DEF Converts!LiveOf
      <4>2. call[t[1]].service \in {"open", "closed", "failed"}
        BY <1>a DEF Converts!ConvertTypeOK
      <4> QED BY <3>1, <4>1, <4>2
    <3>3. closing'[s] = "closed" => closing[s] = "closed" \/ Converts!LiveOf(s) = {}
      BY <1>5, <1>a DEF Closes
    <3> QED BY <3>1, <3>2, <3>3
  <2> QED BY <2>1, <2>2, <2>3
<1>6. ASSUME NEW s \in Converts!Services, Converts!Reopen(s) PROVE Ends
  <2>1. \A d \in Converts!ConvertCalls :
          /\ call'[d].pc = call[d].pc
          /\ \/ call'[d].service = call[d].service
             \/ /\ Converts!ServiceOf(d) = s /\ call[d].pc # "idle" /\ call[d].service = "open"
                /\ call'[d].service = closing[s]
    BY <1>6 DEF Converts!Reopen, Converts!ConvertTypeOK
  <2>2. closing[s] \in {"closed", "failed"} /\ closing' = [closing EXCEPT ![s] = "open"] /\ thread' = thread
    BY <1>6 DEF Converts!Reopen
  <2>3. CallsOutside'
    BY <1>a, <2>1, <2>2 DEF CallsOutside
  <2>4. EarlierOver'
    BY <2>1, <2>2 DEF CallsOutside, EarlierOver
  <2>5. Converts!ClosedIsQuiet'
    <3> SUFFICES ASSUME NEW q \in Converts!Services, NEW t \in Converts!Converters,
                        t \in Converts!ThreadsOf(q), Converts!Alive(t)
                 PROVE  /\ call'[t[1]].service # "closed"
                        /\ closing'[q] = "closed" => call'[t[1]].service = "failed"
      BY <2>2 DEF Converts!ClosedIsQuiet, Converts!ThreadsOf, Converts!Alive
    <3>1. /\ call[t[1]].service # "closed"
          /\ closing[q] = "closed" => call[t[1]].service = "failed"
      BY DEF Converts!ClosedIsQuiet
    <3>2. t[1] \in Converts!ConvertCalls /\ Converts!ServiceOf(t[1]) = q
      BY <1>a DEF Converts!ThreadsOf
    <3> QED BY <1>a, <2>1, <2>2, <3>1, <3>2
  <2> QED BY <2>3, <2>4, <2>5
<1>7. CASE UNCHANGED convertVars
  BY <1>7 DEF convertVars, CallsOutside, EarlierOver, Converts!ClosedIsQuiet, Converts!Alive, Converts!ThreadsOf
<1> QED BY <1>1, <1>2, <1>3, <1>4, <1>5, <1>6, <1>7, ConvertMoves

-----------------------------------------------------------------------------
(* Work directories                                                            *)

\* What DirectoryKept says of one call.
Kept(c) ==
  /\ call[c].pc = "idle" => Converts!AliveOf(c) = {} /\ ~call[c].dir
  /\ call[c].pc \notin {"idle", "over"} => call[c].dir
  /\ call[c].pc = "over" /\ Converts!AliveOf(c) # {} => call[c].dir /\ c \in deferred
  /\ call[c].pc = "over" /\ Converts!AliveOf(c) = {} =>
       \/ ~call[c].dir /\ call[c].got = {}
       \/ c \in deferred /\ Converts!GroupOf(c) # {}
  /\ c \in deferred => call[c].pc = "over"

\* A call whose record, threads and cleanup are as they were is kept as it was.
LEMMA KeptStays ==
  ASSUME NEW c \in FileCalls, Kept(c),
         call'[c].pc = call[c].pc, call'[c].dir = call[c].dir, call'[c].got = call[c].got,
         \A t \in {c} \X (1 .. PerCall) : thread'[t] = thread[t],
         c \in deferred' <=> c \in deferred
  PROVE  Kept(c)'
<1>1. Converts!AliveOf(c)' = Converts!AliveOf(c) /\ Converts!GroupOf(c)' = Converts!GroupOf(c)
  BY DEF Converts!AliveOf, Converts!GroupOf, Converts!Alive
<1> QED BY <1>1 DEF Kept

\* Every step keeps the directories.
LEMMA DirectoryStep ==
  ASSUME Converts!ConversionAssumption, Converts!ConvertTypeOK, DirectoryKept, [Converts!ConvertNext]_convertVars
  PROVE  DirectoryKept'
<1>a. /\ thread \in [Converts!Converters -> {"none", "unstarted", "running", "released", "ended"}]
      /\ call \in [Converts!ConvertCalls -> ConvertCall] /\ FileCalls \subseteq Converts!ConvertCalls
      /\ \A c \in FileCalls : {c} \X (1 .. PerCall) \subseteq Converts!Converters
  BY DEF Converts!ConvertTypeOK, ConvertCall, Converts!ConvertCalls, Converts!Converters
<1>b. SUFFICES ASSUME NEW d \in FileCalls PROVE Kept(d)'
  BY DEF DirectoryKept, Kept
<1>c. Kept(d)
  BY DEF DirectoryKept, Kept
<1>1. ASSUME NEW c \in Converts!ConvertCalls, Begins(c) PROVE Kept(d)'
  <2>1. Converts!AliveOf(d)' = Converts!AliveOf(d)
    BY <1>1 DEF Begins, Converts!NoThread, Converts!AliveOf, Converts!Alive
  <2>2. CASE c = d
    BY <1>1, <1>c, <2>1, <2>2 DEF Begins, Converts!NoThread, Kept
  <2>3. CASE c # d
    BY <1>1, <1>a, <1>c, <2>3, KeptStays DEF Begins, Others, Converts!NoThread
  <2> QED BY <2>2, <2>3
<1>2. ASSUME NEW c \in Converts!ConvertCalls, Works(c) PROVE Kept(d)'
  <2>1. CASE c = d
    BY <1>2, <1>c, <2>1 DEF Works, Kept
  <2>2. CASE c # d
    <3>1. \A t \in {d} \X (1 .. PerCall) : thread'[t] = thread[t]
      BY <1>2, <1>a, <2>2 DEF Works
    <3> QED BY <1>2, <1>a, <1>c, <2>2, <3>1, KeptStays DEF Works, Others
  <2> QED BY <2>1, <2>2
<1>3. ASSUME NEW c \in FileCalls, Converts!LeaveFile(c) PROVE Kept(d)'
  <2>1. Converts!AliveOf(d)' = Converts!AliveOf(d) /\ thread' = thread
    BY <1>3 DEF Converts!LeaveFile, Converts!AliveOf, Converts!Alive
  <2>2. CASE c # d
    <3>1. call'[d] = call[d] /\ (d \in deferred' <=> d \in deferred)
      BY <1>3, <1>a, <2>2 DEF Converts!LeaveFile, Converts!Goes
    <3> QED BY <1>c, <2>1, <3>1, KeptStays
  <2>3. CASE c = d
    <3>1. call[d].pc = "joining" /\ call[d] \in ConvertCall
      BY <1>3, <1>a, <2>3 DEF Converts!LeaveFile
    <3>2. CASE Converts!AliveOf(d) = {}
      <4>1. call' = [call EXCEPT ![d].pc = "over", ![d].dir = FALSE, ![d].got = {}] /\ deferred' = deferred
        BY <1>3, <2>3, <3>2 DEF Converts!LeaveFile
      <4>2. call'[d].pc = "over" /\ ~call'[d].dir /\ call'[d].got = {}
        BY <1>a, <3>1, <4>1 DEF ConvertCall
      <4> QED BY <2>1, <3>2, <4>2 DEF Kept
    <3>3. CASE Converts!AliveOf(d) # {}
      <4>1. Converts!Goes(d, "over") /\ deferred' = deferred \cup {d}
        BY <1>3, <2>3, <3>3 DEF Converts!LeaveFile
      <4>2. call'[d].pc = "over" /\ call'[d].dir = call[d].dir
        BY <1>a, <3>1, <4>1 DEF Converts!Goes, ConvertCall
      <4> QED BY <1>c, <2>1, <3>1, <3>3, <4>1, <4>2 DEF Kept
    <3> QED BY <3>2, <3>3
  <2> QED BY <2>2, <2>3
<1>4. ASSUME NEW t \in Converts!Converters, Converts!ReleaseSlot(t) PROVE Kept(d)'
  <2>1. Converts!AliveOf(d)' = Converts!AliveOf(d)
    BY <1>4, <1>a DEF Converts!ReleaseSlot, Converts!AliveOf, Converts!Alive
  <2>2. Converts!GroupOf(d)' = Converts!GroupOf(d)
    BY <1>4, <1>a DEF Converts!ReleaseSlot, Converts!GroupOf, Converts!Alive
  <2> QED BY <1>4, <1>c, <2>1, <2>2 DEF Converts!ReleaseSlot, Kept
<1>5. ASSUME NEW t \in Converts!Converters, Converts!Finished(t) PROVE Kept(d)'
  <2>1. CASE t[1] # d
    <3>1. /\ \A u \in {d} \X (1 .. PerCall) : thread'[u] = thread[u]
          /\ call'[d] = call[d] /\ (d \in deferred' <=> d \in deferred)
      BY <1>5, <1>a, <2>1 DEF Converts!Finished
    <3> QED BY <1>c, <3>1, KeptStays
  <2>2. CASE t[1] = d
    <3>1. t \in Converts!AliveOf(d) /\ Converts!AliveOf(d)' = Converts!AliveOf(d) \ {t}
      BY <1>5, <1>a, <2>2 DEF Converts!Finished, Converts!AliveOf, Converts!Alive, Converts!Converters
    <3>5. t \in Converts!GroupOf(d) /\ Converts!GroupOf(d)' = Converts!GroupOf(d) \ {t}
      BY <1>5, <1>a, <2>2 DEF Converts!Finished, Converts!GroupOf, Converts!Alive, Converts!Converters
    <3>6. Converts!AliveOf(d) \subseteq Converts!GroupOf(d)
      BY DEF Converts!AliveOf, Converts!GroupOf
    <3>2. call[d] \in ConvertCall
      BY <1>a
    <3>3. CASE d \in deferred /\ Converts!GroupOf(d) = {t}
      <4>1. call' = [call EXCEPT ![d].dir = FALSE, ![d].got = {}] /\ deferred' = deferred \ {d}
        BY <1>5, <2>2, <3>3 DEF Converts!Finished
      <4>2. call'[d].pc = call[d].pc /\ ~call'[d].dir /\ call'[d].got = {}
        BY <1>a, <3>2, <4>1 DEF ConvertCall
      <4> QED BY <1>c, <3>1, <3>3, <3>6, <4>1, <4>2 DEF Kept
    <3>4. CASE ~(d \in deferred /\ Converts!GroupOf(d) = {t})
      <4>1. call' = call /\ deferred' = deferred
        BY <1>5, <2>2, <3>4 DEF Converts!Finished
      <4>2. d \in deferred => Converts!GroupOf(d)' # {}
        BY <3>4, <3>5
      <4>3. call[d].pc = "over" => d \in deferred
        BY <1>c, <3>1 DEF Kept
      <4> QED BY <1>c, <3>1, <4>1, <4>2, <4>3 DEF Kept
    <3> QED BY <3>3, <3>4
  <2> QED BY <2>1, <2>2
<1>6. CASE Closes \/ UNCHANGED convertVars
  BY <1>6, <1>c, KeptStays DEF Closes, convertVars
<1>7. ASSUME NEW s \in Converts!Services, Converts!Reopen(s) PROVE Kept(d)'
  <2>1. call'[d].pc = call[d].pc /\ call'[d].dir = call[d].dir /\ call'[d].got = call[d].got
    BY <1>7, <1>a DEF Converts!Reopen, ConvertCall
  <2> QED BY <1>7, <1>c, <2>1, KeptStays DEF Converts!Reopen
<1> QED BY <1>1, <1>2, <1>3, <1>4, <1>5, <1>6, <1>7, ConvertMoves

-----------------------------------------------------------------------------
(* Budgets                                                                     *)

\* What a step does to the files of a call and to what it has drawn.
Draws(d) ==
  \/ call'[d].got \in {{}, call[d].got} /\ call'[d].bytes = call[d].bytes
  \/ \E i \in 1 .. PerCall : /\ call'[d].got = call[d].got \cup {i}
                             /\ call'[d].bytes = call[d].bytes + Size[i]
                             /\ call'[d].bytes <= Budget
  \/ /\ call'[d].got = call[d].got
     /\ call[d].bytes <= call'[d].bytes /\ call'[d].bytes <= Budget

LEMMA DrawSteps ==
  ASSUME Converts!ConversionAssumption, Converts!ConvertTypeOK, [Converts!ConvertNext]_convertVars,
         NEW d \in FileCalls
  PROVE  Draws(d)
<1>a. call \in [Converts!ConvertCalls -> ConvertCall]
  BY DEF Converts!ConvertTypeOK, ConvertCall
<1>g. MailCalls \subseteq Converts!ConvertCalls /\ FileCalls \subseteq Converts!ConvertCalls /\ MailCalls \cap FileCalls = {}
  BY DEF Converts!ConvertCalls, Converts!ConversionAssumption
<1>b. ASSUME NEW c \in Converts!ConvertCalls, NEW r \in ConvertCall, call' = [call EXCEPT ![c] = r],
             c = d => r.got \in {{}, call[d].got} /\ r.bytes = call[d].bytes
      PROVE  Draws(d)
  <2>1. call'[d].got \in {{}, call[d].got} /\ call'[d].bytes = call[d].bytes
    <3>1. CASE c = d
      BY <1>a, <1>b, <1>g, <3>1
    <3>2. CASE c # d
      BY <1>a, <1>b, <1>g, <3>2
    <3> QED BY <3>1, <3>2
  <2> QED BY <2>1 DEF Draws
<1>c. \A c \in FileCalls, r \in ConvertCall :
        /\ Converts!After(r, c) \in ConvertCall
        /\ Converts!After(r, c).got = r.got /\ Converts!After(r, c).bytes = r.bytes
  <2> SUFFICES ASSUME NEW c \in FileCalls, NEW r \in ConvertCall
               PROVE  /\ Converts!After(r, c) \in ConvertCall
                      /\ Converts!After(r, c).got = r.got /\ Converts!After(r, c).bytes = r.bytes
    OBVIOUS
  <2>1. Converts!After(r, c) \in ConvertCall
    BY AfterIsRecord
  <2>2. CASE r.at < Converts!Last(c)
    BY <2>1, <2>2 DEF Converts!After, ConvertCall
  <2>3. CASE ~(r.at < Converts!Last(c))
    BY <2>1, <2>3 DEF Converts!After, ConvertCall
  <2> QED BY <2>2, <2>3
<1>d. ASSUME NEW c \in MailCalls, \A e \in Converts!ConvertCalls \ {c} : call'[e] = call[e] PROVE Draws(d)
  BY <1>d, <1>g DEF Draws
<1>1. ASSUME NEW c \in MailCalls, Converts!BeginMail(c) \/ Converts!MailSteps(c) PROVE Draws(d)
  <2>1. \A e \in Converts!ConvertCalls \ {c} : call'[e] = call[e]
    BY <1>1, <1>a DEF Converts!BeginMail, Converts!MailSteps, Converts!MailTakesSlot, Converts!MailOverloaded,
       Converts!MailAnswer, Converts!Goes, Converts!Answers
  <2> QED BY <1>d, <2>1
<1>2. ASSUME NEW c \in FileCalls, Converts!BeginFile(c) PROVE Draws(d)
  <2>1. PICK k \in Converts!Kinds :
          call' = [call EXCEPT ![c] = [call[c] EXCEPT !.pc = "fetch", !.kind = k, !.dir = TRUE]]
    BY <1>2, <1>a, <1>g DEF Converts!BeginFile
  <2>2. [call[c] EXCEPT !.pc = "fetch", !.kind = k, !.dir = TRUE] \in ConvertCall
    BY <1>a, <1>g, ConvertChanges, Zenon
  <2>3. call[c] \in ConvertCall
    BY <1>a, <1>g
  <2> QED BY <1>b, <1>g, <2>1, <2>2, <2>3 DEF ConvertCall
<1>3. ASSUME NEW c \in FileCalls, Converts!FetchRefused(c) \/ Converts!FileOverloaded(c) PROVE Draws(d)
  BY <1>3, <1>a, <1>g DEF Converts!FetchRefused, Converts!FileOverloaded, Converts!Fails, Draws, ConvertCall
<1>4. ASSUME NEW c \in FileCalls, Converts!Fetched(c) PROVE Draws(d)
  <2>1. /\ call[c] \in ConvertCall /\ Converts!Fits(c)
    BY <1>4, <1>a, <1>g DEF Converts!Fetched
  <2>2. CASE c = d
    <3>1. /\ call'[d].got = call[d].got \cup {call[d].at}
          /\ call'[d].bytes = call[d].bytes + Size[call[d].at]
      BY <1>4, <1>a, <1>g, <2>1, <2>2 DEF Converts!Fetched, ConvertCall
    <3> QED BY <2>1, <2>2, <3>1 DEF Draws, Converts!Fits, ConvertCall
  <2>3. CASE c # d
    <3>1. call'[d] = call[d]
      BY <1>4, <1>a, <1>g, <2>3 DEF Converts!Fetched
    <3> QED BY <3>1 DEF Draws
  <2> QED BY <2>2, <2>3
<1>5. ASSUME NEW c \in FileCalls, Converts!FetchFailed(c) PROVE Draws(d)
  <2>1. PICK piece \in 0 .. Size[call[c].at] - 1 :
          /\ piece <= MaxFileSize /\ call[c].bytes + piece <= Budget
          /\ LET r == [call[c] EXCEPT !.bytes = @ + piece, !.files = @ + Converts!Counted(c)]
             IN  call' = [call EXCEPT ![c] =
                   IF r.kind = "onedrive" THEN [r EXCEPT !.pc = "leaving", !.answer = "error"]
                   ELSE Converts!After(r, c)]
    BY <1>5 DEF Converts!FetchFailed
  <2> DEFINE r == [call[c] EXCEPT !.bytes = @ + piece, !.files = @ + Converts!Counted(c)]
  <2>2. call[c] \in ConvertCall /\ Size[call[c].at] \in Nat \ {0}
    BY <1>a, <1>g DEF ConvertCall, Converts!ConversionAssumption
  <2>3. call[c].bytes + piece \in Nat /\ call[c].bytes <= call[c].bytes + piece
    BY <2>2 DEF ConvertCall
  <2>4. call[c].files + Converts!Counted(c) \in 0 .. MaxFiles
    <3>1. call[c].files \in 0 .. MaxFiles /\ MaxFiles \in Nat
      BY <2>2 DEF ConvertCall, Converts!ConversionAssumption
    <3>2. call[c].kind # "local" => call[c].files < MaxFiles
      BY <1>5 DEF Converts!FetchFailed, Converts!FetchAllowed
    <3> QED BY <3>1, <3>2 DEF Converts!Counted
  <2>5. r \in ConvertCall /\ r.got = call[c].got /\ r.bytes = call[c].bytes + piece
    <3>1. r \in ConvertCall
      BY <2>2, <2>3, <2>4, ConvertChanges, Zenon
    <3> QED BY <2>2, <3>1, CallFields
  <2>6. call' = [call EXCEPT ![c] =
                   IF r.kind = "onedrive" THEN [r EXCEPT !.pc = "leaving", !.answer = "error"]
                   ELSE Converts!After(r, c)]
    BY <2>1
  <2> HIDE DEF r
  <2>7. CASE c = d
    <3>1. call'[d].got = call[d].got /\ call'[d].bytes = call[d].bytes + piece
      BY <1>a, <1>c, <1>g, <2>5, <2>6, <2>7 DEF ConvertCall
    <3> QED BY <2>1, <2>3, <2>7, <3>1 DEF Draws
  <2>8. CASE c # d
    BY <1>a, <1>g, <2>6, <2>8 DEF Draws
  <2> QED BY <2>7, <2>8
<1>6. ASSUME NEW c \in FileCalls,
             \/ call' = [call EXCEPT ![c] = Converts!After(call[c], c)]
             \/ \E text \in {{}, {call[c].at}} :
                  call' = [call EXCEPT ![c] = Converts!After([call[c] EXCEPT !.texts = @ \cup text], c)]
      PROVE  Draws(d)
  <2>1. PICK r \in ConvertCall : /\ call' = [call EXCEPT ![c] = Converts!After(r, c)]
                                 /\ r.got = call[c].got /\ r.bytes = call[c].bytes
    BY <1>6, <1>a, <1>g DEF ConvertCall
  <2> DEFINE s == Converts!After(r, c)
  <2>2. s \in ConvertCall /\ s.got = call[c].got /\ s.bytes = call[c].bytes
    BY <1>c, <2>1
  <2>3. call' = [call EXCEPT ![c] = s] /\ c \in Converts!ConvertCalls
    BY <1>g, <2>1
  <2> HIDE DEF s
  <2> QED BY <1>b, <2>2, <2>3
<1>7. ASSUME NEW c \in FileCalls, Converts!FileTakesSlot(c) PROVE Draws(d)
  <2>1. CASE Converts!Goes(c, "wait")
    BY <2>1, <1>a, <1>g DEF Converts!Goes, Draws, ConvertCall
  <2>2. CASE call' = [call EXCEPT ![c] = Converts!After(@, c)]
    BY <1>6, <2>2
  <2> QED BY <1>7, <2>1, <2>2 DEF Converts!FileTakesSlot
<1>8. ASSUME NEW c \in FileCalls, \/ Converts!TooLate(c) \/ Converts!ConversionTimesOut(c)
                                  \/ Converts!Converted(c)
      PROVE  Draws(d)
  BY <1>6, <1>8 DEF Converts!TooLate, Converts!ConversionTimesOut, Converts!Converted
<1>9. ASSUME NEW c \in FileCalls, Converts!LeaveDownloads(c) \/ Converts!LeaveFile(c) PROVE Draws(d)
  BY <1>9, <1>a, <1>g DEF Converts!LeaveDownloads, Converts!LeaveFile, Converts!Goes, Draws, ConvertCall
<1>10. ASSUME NEW c \in Converts!ConvertCalls, Converts!Deadline(c) PROVE Draws(d)
  BY <1>10, <1>a, <1>g DEF Converts!Deadline, Draws, ConvertCall
<1>11. ASSUME NEW t \in Converts!Converters, Converts!ReleaseSlot(t) \/ Converts!Finished(t) PROVE Draws(d)
  <2>1. t[1] \in Converts!ConvertCalls
    BY DEF Converts!Converters
  <2> QED BY <1>11, <1>a, <1>g, <2>1 DEF Converts!ReleaseSlot, Converts!Finished, Draws, ConvertCall
<1>12. CASE UNCHANGED call
  BY <1>12 DEF Draws
<1>13. ASSUME (\E s \in Converts!Services : Converts!BeginClose(s)) \/ Converts!CloseMail \/ Converts!CloseFile
       PROVE  Draws(d)
  BY <1>12, <1>13 DEF Converts!BeginClose, Converts!CloseMail, Converts!CloseFile
<1>14. ASSUME NEW s \in Converts!Services, Converts!Reopen(s) PROVE Draws(d)
  BY <1>14, <1>a, <1>g DEF Converts!Reopen, Draws, ConvertCall
<1> QED BY <1>1, <1>2, <1>3, <1>4, <1>5, <1>7, <1>8, <1>9, <1>10, <1>11, <1>12, <1>13, <1>14
        DEF Converts!ConvertNext, Converts!FileSteps, convertVars

\* Every step keeps the budgets.
LEMMA BudgetStep ==
  ASSUME Converts!ConversionAssumption, Converts!ConvertTypeOK, BudgetDrawn,
         [Converts!ConvertNext]_convertVars
  PROVE  BudgetDrawn'
<1> SUFFICES ASSUME NEW d \in FileCalls
             PROVE  SumFunctionOnSet(Size, call'[d].got) <= call'[d].bytes /\ call'[d].bytes <= Budget
  BY DEF BudgetDrawn
<1>1. /\ Budget \in Nat /\ \A i \in 1 .. PerCall : Size[i] \in Nat
      /\ IsFiniteSet(1 .. PerCall) /\ PerCall \in Nat
  <2>1. PerCall \in Nat /\ Budget \in Nat /\ Size \in [1 .. PerCall -> Nat \ {0}]
    BY DEF Converts!ConversionAssumption
  <2>2. IsFiniteSet(1 .. PerCall)
    BY <2>1, FS_Interval
  <2> QED BY <2>1, <2>2
<1>2. call[d].got \in SUBSET (1 .. PerCall) /\ call[d].bytes \in Nat
  BY DEF Converts!ConvertTypeOK, Converts!ConvertCalls
<1>3. SumFunctionOnSet(Size, call[d].got) <= call[d].bytes /\ call[d].bytes <= Budget
  BY DEF BudgetDrawn
<1>4. IsFiniteSet(call[d].got) /\ SumFunctionOnSet(Size, call[d].got) \in Nat
  <2>1. IsFiniteSet(call[d].got)
    BY <1>1, <1>2, FS_Subset
  <2> QED BY <1>1, <1>2, <2>1, SumNat
<1>5. CASE call'[d].got \in {{}, call[d].got} /\ call'[d].bytes = call[d].bytes
  BY <1>2, <1>3, <1>5, EmptySum
<1>6. ASSUME NEW i \in 1 .. PerCall, call'[d].got = call[d].got \cup {i},
             call'[d].bytes = call[d].bytes + Size[i], call'[d].bytes <= Budget
      PROVE  SumFunctionOnSet(Size, call'[d].got) <= call'[d].bytes /\ call'[d].bytes <= Budget
  <2>1. Size[i] \in Nat
    BY <1>1
  <2>2. CASE i \in call[d].got
    <3>1. call'[d].got = call[d].got
      BY <1>6, <2>2
    <3> QED BY <1>2, <1>3, <1>4, <1>6, <2>1, <3>1
  <2>3. CASE i \notin call[d].got
    <3> DEFINE G == call[d].got
    <3>1. SumFunctionOnSet(Size, G \cup {i}) = Size[i] + SumFunctionOnSet(Size, G)
      <4>1. IsFiniteSet(G) /\ i \notin G /\ \A y \in G \cup {i} : Size[y] \in Nat
        BY <1>1, <1>2, <1>4, <2>3
      <4> HIDE DEF G
      <4> QED BY <4>1, SumGrows
    <3>2. SumFunctionOnSet(Size, call'[d].got) = Size[i] + SumFunctionOnSet(Size, call[d].got)
      BY <1>6, <3>1
    <3> QED BY <1>2, <1>3, <1>4, <1>6, <2>1, <3>2
  <2> QED BY <2>2, <2>3
<1>7. CASE /\ call'[d].got = call[d].got
           /\ call[d].bytes <= call'[d].bytes /\ call'[d].bytes <= Budget
  <2>1. call'[d].bytes \in Nat
    BY ConvertTypeStep DEF Converts!ConvertTypeOK, Converts!ConvertCalls
  <2> QED BY <1>2, <1>3, <1>4, <1>7, <2>1
<1> QED BY <1>5, <1>6, <1>7, DrawSteps DEF Draws

-----------------------------------------------------------------------------
(* Theorems                                                                    *)

\* The invariant that the theorems below follow from.

LEMMA ConvertHolds ==
  ASSUME Converts!ConversionAssumption, ConvertInv, [Converts!ConvertNext]_convertVars
  PROVE  ConvertInv'
BY ConvertTypeStep, SlotStep, CloseStep, DirectoryStep, BudgetStep DEF ConvertInv

\* What the state of conversions promises.
LEMMA ConvertHeld ==
  ASSUME Converts!ConversionAssumption
  PROVE  ConvertInv => /\ Converts!ConvertTypeOK /\ Converts!ClosedIsQuiet /\ Converts!WorkersBounded
                       /\ Converts!DirectoryHeld /\ Converts!BudgetKept
<1>1. ConvertInv => Converts!ConvertTypeOK /\ Converts!ClosedIsQuiet
  BY DEF ConvertInv
<1>2. ConvertInv => Converts!WorkersBounded
  <2> SUFFICES ASSUME ConvertInv, NEW s \in Converts!Services
               PROVE  Cardinality({t \in Converts!ThreadsOf(s) : thread[t] = "running"}) <= MaxWorkers
    BY SameCardinality DEF Converts!WorkersBounded
  <2> DEFINE R == {t \in Converts!ThreadsOf(s) : thread[t] = "running"}
             S == taken \cap Converts!ThreadsOf(s)
  <2>1. R \subseteq S
    BY DEF ConvertInv, Holds, Converts!ThreadsOf
  <2>2. IsFiniteSet(S) /\ Cardinality(S) <= MaxWorkers
    BY FS_Subset DEF ConvertInv, SlotsBounded
  <2>3. IsFiniteSet(R) /\ Cardinality(R) <= Cardinality(S)
    BY <2>1, <2>2, FS_Subset
  <2>4. Cardinality(S) \in Nat /\ Cardinality(R) \in Nat /\ MaxWorkers \in Nat
    BY <2>2, <2>3, FS_CardinalityType DEF Converts!ConversionAssumption
  <2> QED BY <2>2, <2>3, <2>4
<1>3. ConvertInv => Converts!DirectoryHeld
  BY DEF ConvertInv, DirectoryKept, Converts!DirectoryHeld
<1>4. ConvertInv => Converts!BudgetKept
  <2> SUFFICES ASSUME ConvertInv, NEW c \in FileCalls PROVE SumFunctionOnSet(Size, call[c].got) <= Budget
    BY SameSum DEF Converts!BudgetKept
  <2>1. /\ call[c].got \in SUBSET (1 .. PerCall) /\ call[c].bytes \in Nat
        /\ Size \in [1 .. PerCall -> Nat \ {0}] /\ PerCall \in Nat /\ Budget \in Nat
    BY DEF ConvertInv, Converts!ConvertTypeOK, Converts!ConvertCalls, Converts!ConversionAssumption
  <2>2. SumFunctionOnSet(Size, call[c].got) \in Nat
    <3>1. IsFiniteSet(call[c].got)
      <4>1. IsFiniteSet(1 .. PerCall)
        BY <2>1, FS_Interval
      <4> QED BY <2>1, <4>1, FS_Subset
    <3> QED BY <2>1, <3>1, SumNat
  <2> QED BY <2>1, <2>2 DEF ConvertInv, BudgetDrawn
<1> QED BY <1>1, <1>2, <1>3, <1>4

THEOREM ConvertInvariance == ASSUME Converts!ConversionAssumption PROVE Converts!ConvertSpec => []ConvertInv
<1>1. Converts!ConvertInit => ConvertInv
  BY ConvertStart
<1>2. ConvertInv /\ [Converts!ConvertNext]_convertVars => ConvertInv'
  BY ConvertHolds
<1> QED BY <1>1, <1>2, PTL DEF Converts!ConvertSpec, Converts!convertVars, convertVars

\* The state of calls, threads and services keeps its type.
THEOREM ConvertTypeCorrect ==
  ASSUME Converts!ConversionAssumption PROVE Converts!ConvertSpec => []Converts!ConvertTypeOK
BY ConvertHeld, ConvertInvariance, PTL

\* No more converters of a domain run for the user than there are slots, whatever timed
\* out or was abandoned (conversion_workers.py).
THEOREM ConvertersBounded ==
  ASSUME Converts!ConversionAssumption PROVE Converts!ConvertSpec => []Converts!WorkersBounded
BY ConvertHeld, ConvertInvariance, PTL

\* A service that closed without an error has left none of its own converters running,
\* then or later, whatever service follows it (conversion_workers.py, service.py).
THEOREM ClosedQuiet ==
  ASSUME Converts!ConversionAssumption PROVE Converts!ConvertSpec => []Converts!ClosedIsQuiet
BY ConvertHeld, ConvertInvariance, PTL

\* A call's work directory is there while one of its threads runs, and gone with all in it
\* when the call is over and its threads have ended, unless one of them could not be
\* started: then a clean-up that was left to the threads never runs (file_manager.py,
\* conversion_workers.py).
THEOREM DirectoriesHeld ==
  ASSUME Converts!ConversionAssumption PROVE Converts!ConvertSpec => []Converts!DirectoryHeld
BY ConvertHeld, ConvertInvariance, PTL

\* The files a call holds on disk never exceed the budget of its request, whatever failed
\* half way (limits.py, request_scope.py).
THEOREM BudgetsKept ==
  ASSUME Converts!ConversionAssumption PROVE Converts!ConvertSpec => []Converts!BudgetKept
BY ConvertHeld, ConvertInvariance, PTL

-----------------------------------------------------------------------------
(* The records of files                                                        *)

RecordInv == Saved!RecordTypeOK /\ Saved!SearchIsLiteral

\* What is left of a list of keywords is a list of keywords.
LEMMA ClampedIs ==
  ASSUME Saved!RecordAssumption, NEW words \in Saved!KeywordLists
  PROVE  Saved!Clamped(words) \in Saved!KeywordLists
<1>1. PICK n \in 0 .. MaxKeywords + 1 : words \in [1 .. n -> Keywords]
  BY DEF Saved!KeywordLists
<1> DEFINE m == IF n > MaxKeywords THEN MaxKeywords ELSE n
<1>2. words \in Seq(Keywords) /\ Len(words) = n
  BY <1>1
<1>3. m \in 0 .. MaxKeywords + 1 /\ m <= n
  BY DEF Saved!RecordAssumption
<1>4. Saved!Clamped(words) = SubSeq(words, 1, m)
  BY <1>2 DEF Saved!Clamped
<1>5. SubSeq(words, 1, m) = [i \in 1 .. m |-> words[i]]
  BY <1>2, <1>3
<1> HIDE DEF m
<1>6. [i \in 1 .. m |-> words[i]] \in [1 .. m -> Keywords]
  BY <1>1, <1>3
<1> QED BY <1>3, <1>4, <1>5, <1>6 DEF Saved!KeywordLists

LEMMA RowIs ==
  ASSUME Saved!RecordAssumption, NEW words \in Saved!KeywordLists, NEW at \in 0 .. MaxTime
  PROVE  [keywords |-> Saved!Joined(Saved!Clamped(words)), created |-> at] \in Saved!Rows
<1>1. Saved!Joined(Saved!Clamped(words)) \in {Saved!Joined(k) : k \in Saved!KeywordLists}
  BY ClampedIs
<1> QED BY <1>1 DEF Saved!Rows

\* Every step keeps the types.
LEMMA RecordTypeStep ==
  ASSUME Saved!RecordAssumption, Saved!RecordTypeOK, [Saved!RecordNext]_recordVars
  PROVE  Saved!RecordTypeOK'
<1> DEFINE Row == Saved!Rows \cup {NoRow}
           Table == [Owners -> [Refs -> Row]]
<1>a. /\ table \in Table /\ memory \in [Refs -> Row] /\ now \in 0 .. MaxTime /\ frozen \in BOOLEAN
      /\ store \in {"owned", "sqlite", "json"} /\ MaxTime \in Nat
  BY DEF Saved!RecordTypeOK, Saved!RecordAssumption
<1> SUFFICES table' \in Table /\ memory' \in [Refs -> Row] /\ now' \in 0 .. MaxTime
             /\ frozen' \in BOOLEAN /\ store' \in {"owned", "sqlite", "json"}
  BY DEF Saved!RecordTypeOK
<1>b. Saved!Tick => now' \in 0 .. MaxTime
  BY <1>a DEF Saved!Tick
<1>c. \A words \in Saved!KeywordLists : Saved!LegacyRow(Saved!Clamped(words)) \in Row
  BY <1>a, RowIs DEF Saved!LegacyRow
<1>d. \A o \in Owners, r \in Refs, words \in Saved!KeywordLists :
        Saved!OwnedRow(o, r, Saved!Clamped(words)) \in Row
  <2> SUFFICES ASSUME NEW o \in Owners, NEW r \in Refs, NEW words \in Saved!KeywordLists
               PROVE  Saved!OwnedRow(o, r, Saved!Clamped(words)) \in Row
    OBVIOUS
  <2> DEFINE at == IF table[o][r] = NoRow THEN now ELSE table[o][r].created
  <2>1. table[o][r] \in Row
    BY <1>a
  <2>2. at \in 0 .. MaxTime
    BY <1>a, <2>1 DEF Saved!Rows
  <2>3. Saved!OwnedRow(o, r, Saved!Clamped(words)) =
          [keywords |-> Saved!Joined(Saved!Clamped(words)), created |-> at]
    BY DEF Saved!OwnedRow
  <2> HIDE DEF at
  <2> QED BY <2>2, <2>3, RowIs
<1> HIDE DEF Row
<1>e. NoRow \in Row /\ Saved!NoFile \in [Refs -> Row]
  BY DEF Row, Saved!NoFile
<1>1. ASSUME NEW o \in Owners, NEW r \in Refs, NEW words \in Saved!KeywordLists, Saved!Save(o, r, words)
      PROVE  table' \in Table /\ memory' \in [Refs -> Row]
  <2> DEFINE w == Saved!Clamped(words)
  <2>1. CASE Saved!SaveOwned(o, r, w)
    BY <2>1, <1>a, <1>d DEF Saved!SaveOwned
  <2>2. CASE Saved!SaveSqlite(r, w)
    BY <2>2, <1>a, <1>c DEF Saved!SaveSqlite
  <2>3. CASE Saved!SaveJson(r, w)
    BY <2>3, <1>a, <1>c DEF Saved!SaveJson
  <2> QED BY <1>1, <2>1, <2>2, <2>3 DEF Saved!Save
<1>2. ASSUME NEW o \in Owners, NEW r \in Refs, NEW words \in Saved!KeywordLists, Saved!SaveFails(o, r, words)
      PROVE  table' \in Table /\ memory' \in [Refs -> Row]
  BY <1>2, <1>a, <1>c DEF Saved!SaveFails
<1>3. ASSUME NEW o \in Owners, NEW r \in Refs, Saved!Delete(o, r)
      PROVE  table' \in Table /\ memory' \in [Refs -> Row]
  BY <1>3, <1>a, <1>e DEF Saved!Delete, Saved!DeleteOwned, Saved!DeleteLegacy
<1>4. ASSUME Saved!Restart PROVE table' \in Table /\ memory' \in [Refs -> Row]
  BY <1>4, <1>a, <1>e DEF Saved!Restart, Saved!RecordAssumption
<1>5. CASE \E o \in Owners, r \in Refs, words \in Saved!KeywordLists :
             Saved!Save(o, r, words) \/ Saved!SaveFails(o, r, words)
  BY <1>5, <1>1, <1>2, <1>a, <1>b DEF Saved!Save, Saved!SaveFails
<1>6. CASE \E o \in Owners, r \in Refs : Saved!Delete(o, r)
  BY <1>6, <1>3, <1>a, <1>b DEF Saved!Delete
<1>7. CASE \/ \E o \in Owners, r \in Refs : Saved!Get(o, r)
           \/ \E o \in Owners, text \in Keywords : Saved!SearchRecords(o, text)
           \/ Saved!Freeze \/ UNCHANGED recordVars
  BY <1>7, <1>a DEF Saved!Get, Saved!SearchRecords, Saved!Freeze, recordVars
<1>8. CASE Saved!Restart
  BY <1>8, <1>4, <1>a DEF Saved!Restart
<1> QED BY <1>5, <1>6, <1>7, <1>8 DEF Saved!RecordNext

\* A search is answered with the rows that hold the text, and whatever changes them after
\* it has an answer of its own.
LEMMA SearchStep ==
  ASSUME Saved!SearchIsLiteral, [Saved!RecordNext]_recordVars PROVE Saved!SearchIsLiteral'
<1>1. ASSUME NEW o \in Owners, NEW r \in Refs, NEW words \in Saved!KeywordLists,
             Saved!Save(o, r, words) \/ Saved!SaveFails(o, r, words)
      PROVE  Saved!SearchIsLiteral'
  BY <1>1 DEF Saved!Save, Saved!SaveFails, Saved!SearchIsLiteral
<1>2. ASSUME NEW o \in Owners, NEW r \in Refs, Saved!Delete(o, r) \/ Saved!Get(o, r)
      PROVE  Saved!SearchIsLiteral'
  BY <1>2 DEF Saved!Delete, Saved!Get, Saved!SearchIsLiteral
<1>3. ASSUME NEW o \in Owners, NEW text \in Keywords, Saved!SearchRecords(o, text)
      PROVE  Saved!SearchIsLiteral'
  <2> SUFFICES ASSUME store = "owned"
               PROVE  DOMAIN answer'.rows =
                        {r \in Refs : table'[answer'.owner][r] # NoRow
                           /\ Saved!Within(answer'.text, table'[answer'.owner][r].keywords)}
    BY <1>3 DEF Saved!SearchRecords, Saved!SearchIsLiteral, Saved!Within
  <2>1. DOMAIN answer'.rows = Saved!Found(o, text) /\ answer'.owner = o /\ answer'.text = text
        /\ table' = table
    BY <1>3 DEF Saved!SearchRecords
  <2>2. Saved!Found(o, text) = {r \in Refs : table[o][r] # NoRow /\ Saved!Within(text, table[o][r].keywords)}
    BY DEF Saved!Found, Saved!Current, Saved!OwnedMatches, Saved!MatchesEscaped
  <2> QED BY <2>1, <2>2
<1>4. CASE Saved!Restart
  BY <1>4 DEF Saved!Restart, Saved!SearchIsLiteral
<1>5. CASE Saved!Freeze \/ UNCHANGED recordVars
  BY <1>5 DEF Saved!Freeze, recordVars, Saved!SearchIsLiteral, Saved!Within
<1> QED BY <1>1, <1>2, <1>3, <1>4, <1>5 DEF Saved!RecordNext

\* In a user's store a step changes the caller's row, and no row's age.
LEMMA RowsStep ==
  ASSUME Saved!RecordTypeOK, [Saved!RecordNext]_recordVars
  PROVE  Saved!RowsStayTheirOwners
<1> SUFFICES ASSUME store = "owned", NEW p \in Owners, NEW q \in Refs
             PROVE  /\ table'[p][q] # table[p][q] =>
                         answer'.op \in {"save", "delete"} /\ answer'.owner = p /\ answer'.ref = q
                    /\ table[p][q] # NoRow /\ table'[p][q] # NoRow =>
                         table'[p][q].created = table[p][q].created
  BY DEF Saved!RowsStayTheirOwners
<1>a. table \in [Owners -> [Refs -> Saved!Rows \cup {NoRow}]]
  BY DEF Saved!RecordTypeOK
<1>1. CASE UNCHANGED table
  BY <1>1
<1>2. ASSUME NEW o \in Owners, NEW r \in Refs, NEW words \in Saved!KeywordLists, Saved!Save(o, r, words)
      PROVE  /\ table'[p][q] # table[p][q] =>
                  answer'.op \in {"save", "delete"} /\ answer'.owner = p /\ answer'.ref = q
             /\ table[p][q] # NoRow /\ table'[p][q] # NoRow =>
                  table'[p][q].created = table[p][q].created
  <2> DEFINE row == Saved!OwnedRow(o, r, Saved!Clamped(words))
  <2>1. /\ table' = [table EXCEPT ![o][r] = row]
        /\ answer'.op = "save" /\ answer'.owner = o /\ answer'.ref = r
    BY <1>2 DEF Saved!Save, Saved!SaveOwned, Saved!SaveSqlite, Saved!SaveJson
  <2>2. table[o][r] # NoRow => row.created = table[o][r].created
    BY DEF Saved!OwnedRow
  <2> HIDE DEF row
  <2>3. CASE p = o /\ q = r
    BY <1>a, <2>1, <2>2, <2>3
  <2>4. CASE ~(p = o /\ q = r)
    BY <1>a, <2>1, <2>4
  <2> QED BY <2>3, <2>4
<1>3. ASSUME NEW o \in Owners, NEW r \in Refs, Saved!Delete(o, r)
      PROVE  /\ table'[p][q] # table[p][q] =>
                  answer'.op \in {"save", "delete"} /\ answer'.owner = p /\ answer'.ref = q
             /\ table[p][q] # NoRow /\ table'[p][q] # NoRow =>
                  table'[p][q].created = table[p][q].created
  <2>1. /\ table' = [table EXCEPT ![o][r] = NoRow]
        /\ answer'.op = "delete" /\ answer'.owner = o /\ answer'.ref = r
    BY <1>3 DEF Saved!Delete, Saved!DeleteOwned
  <2>2. CASE p = o /\ q = r
    BY <1>a, <2>1, <2>2
  <2>3. CASE ~(p = o /\ q = r)
    BY <1>a, <2>1, <2>3
  <2> QED BY <2>2, <2>3
<1>4. CASE \E o \in Owners, r \in Refs, words \in Saved!KeywordLists : Saved!SaveFails(o, r, words)
  BY <1>1, <1>4 DEF Saved!SaveFails
<1>5. CASE \/ \E o \in Owners, r \in Refs : Saved!Get(o, r)
           \/ \E o \in Owners, text \in Keywords : Saved!SearchRecords(o, text)
           \/ Saved!Restart \/ Saved!Freeze \/ UNCHANGED recordVars
  BY <1>1, <1>5 DEF Saved!Get, Saved!SearchRecords, Saved!Restart, Saved!Freeze, recordVars
<1> QED BY <1>2, <1>3, <1>4, <1>5 DEF Saved!RecordNext

LEMMA RecordStart == ASSUME Saved!RecordAssumption, Saved!RecordInit PROVE RecordInv
<1>1. Saved!NoFile \in [Refs -> Saved!Rows \cup {NoRow}] /\ 0 \in 0 .. MaxTime
  BY DEF Saved!NoFile, Saved!RecordAssumption
<1>2. Saved!RecordTypeOK
  BY <1>1 DEF Saved!RecordInit, Saved!RecordTypeOK
<1> QED BY <1>2 DEF RecordInv, Saved!RecordInit, Saved!SearchIsLiteral

-----------------------------------------------------------------------------
(* OneDrive: the tree of items, the copies Graph has taken on, the call.             *)

DriveItems == Drive!Files \cup Drive!Folders
IsThere(d, i) == d[i] # Nothing
LiesWell(d, x) == x = Root \/ (x \in DriveIds /\ IsThere(d, x) /\ d[x].kind = "folder")

\* No two items of a folder have one name, and an item lies in a folder that is there.
Tree(d) ==
  /\ d \in [DriveIds -> DriveItems \cup {Nothing}]
  /\ \A i, j \in DriveIds : i # j /\ IsThere(d, i) /\ IsThere(d, j) /\ d[i].in = d[j].in
                             => d[i].name # d[j].name
  /\ \A i \in DriveIds : IsThere(d, i) => LiesWell(d, d[i].in)

\* A copy goes from a file to a folder, as long as they are there.
CopyOrders == [from : DriveIds, to : DriveIds, name : DriveNames]
Ordered(d, cs) ==
  /\ cs \subseteq CopyOrders
  /\ \A c \in cs : /\ IsThere(d, c.from) => d[c.from].kind = "file"
                   /\ IsThere(d, c.to) => d[c.to].kind = "folder"

DriveOps == Drive!Lookups \cup Drive!Relocations \cup Drive!Changes \cup {"read_file"}
DriveDests == {<<w>> : w \in DriveNames} \cup {Nothing}
DriveAnswerSet == {"none", "success", "content", "refused", "unsure", "no_token", "bad_address",
                   "redirected_again"}
DriveAnswered == [pc : {"idle"}, answer : DriveAnswerSet, cutOff : BOOLEAN]
DriveBusy == [pc : {"destination", "request", "redirected", "download"}, answer : {"none"},
              op : DriveOps, path : Drive!DrivePaths, dest : DriveDests,
              name : DriveNames \cup {Nothing}, text : Texts, overwrite : BOOLEAN,
              folder : DriveIds \cup {Nothing}, cutOff : BOOLEAN]

\* A call that was cut off still has its redirect at hand, and the account gets no token.
DriveInv ==
  /\ Tree(drive) /\ Ordered(drive, copying)
  /\ enabled \in BOOLEAN /\ driveCall \in DriveAnswered \cup DriveBusy
  /\ driveCall.cutOff => driveCall.pc = "redirected" /\ ~enabled

LEMMA ItemFields ==
  ASSUME Drive!DriveAssumption
  PROVE  /\ Nothing \notin DriveItems
         /\ \A x \in DriveItems : /\ x.kind \in {"file", "folder"} /\ x.in \in DriveIds \cup {Root}
                                  /\ x.name \in DriveNames
                                  /\ x.kind = "file" => x \in Drive!Files
                                  /\ x.kind = "folder" => x \in Drive!Folders /\ x.in = Root
         /\ \A p \in DriveIds \cup {Root}, w \in DriveNames, t \in Texts :
              [kind |-> "file", in |-> p, name |-> w, text |-> t] \in DriveItems
         /\ \A w \in DriveNames :
              [kind |-> "folder", in |-> Root, name |-> w, text |-> Nothing] \in DriveItems
<1>1. Nothing \notin DriveItems
  <2>1. SUFFICES ASSUME NEW x \in DriveItems PROVE x # Nothing
    OBVIOUS
  <2>2. CASE x \in Drive!Files
    <3>1. x = [kind |-> "file", in |-> x.in, name |-> x.name, text |-> x.text]
          /\ x.in \in DriveIds \cup {Root} /\ x.name \in DriveNames /\ x.text \in Texts
      BY <2>2 DEF Drive!Files
    <3> QED BY <3>1 DEF Drive!DriveAssumption
  <2>3. CASE x \in Drive!Folders
    <3>1. x = [kind |-> "folder", in |-> x.in, name |-> x.name, text |-> x.text]
          /\ x.in \in DriveIds \cup {Root} /\ x.name \in DriveNames /\ x.text = Nothing
      BY <2>3 DEF Drive!Folders
    <3> QED BY <3>1 DEF Drive!DriveAssumption
  <2> QED BY <2>2, <2>3 DEF DriveItems
<1>2. ASSUME NEW x \in DriveItems
      PROVE  /\ x.kind \in {"file", "folder"} /\ x.in \in DriveIds \cup {Root}
             /\ x.name \in DriveNames
             /\ x.kind = "file" => x \in Drive!Files
             /\ x.kind = "folder" => x \in Drive!Folders /\ x.in = Root
  BY DEF DriveItems, Drive!Files, Drive!Folders
<1>3. /\ \A p \in DriveIds \cup {Root}, w \in DriveNames, t \in Texts :
           [kind |-> "file", in |-> p, name |-> w, text |-> t] \in DriveItems
      /\ \A w \in DriveNames :
           [kind |-> "folder", in |-> Root, name |-> w, text |-> Nothing] \in DriveItems
  BY DEF DriveItems, Drive!Files, Drive!Folders
<1> QED BY <1>1, <1>2, <1>3

\* A new item, in a folder where nothing has its name.
LEMMA TreeGrows ==
  ASSUME Drive!DriveAssumption, NEW d, Tree(d), NEW i \in DriveIds, ~IsThere(d, i),
         NEW x \in DriveItems, LiesWell(d, x.in), x.in # i,
         \A j \in DriveIds : IsThere(d, j) /\ d[j].in = x.in => d[j].name # x.name
  PROVE  Tree([d EXCEPT ![i] = x])
<1> DEFINE e == [d EXCEPT ![i] = x]
<1>1. /\ e \in [DriveIds -> DriveItems \cup {Nothing}] /\ e[i] = x /\ x # Nothing
      /\ \A j \in DriveIds : j # i => e[j] = d[j]
  BY ItemFields DEF Tree
<1> HIDE DEF e
<1>2. \A j, k \in DriveIds : j # k /\ IsThere(e, j) /\ IsThere(e, k) /\ e[j].in = e[k].in
                             => e[j].name # e[k].name
  BY <1>1 DEF Tree, IsThere
<1>3. \A j \in DriveIds : IsThere(e, j) => LiesWell(e, e[j].in)
  BY <1>1 DEF Tree, IsThere, LiesWell
<1>4. Tree(e)
  BY <1>1, <1>2, <1>3 DEF Tree
<1> QED BY <1>4 DEF e

\* An item whose place, name or content changes, but which stays what it is.
LEMMA TreeMoves ==
  ASSUME Drive!DriveAssumption, NEW d, Tree(d), NEW i \in DriveIds, IsThere(d, i),
         NEW x \in DriveItems, x.kind = d[i].kind, LiesWell(d, x.in),
         \A j \in DriveIds \ {i} : IsThere(d, j) /\ d[j].in = x.in => d[j].name # x.name
  PROVE  Tree([d EXCEPT ![i] = x])
<1> DEFINE e == [d EXCEPT ![i] = x]
<1>1. /\ e \in [DriveIds -> DriveItems \cup {Nothing}] /\ e[i] = x /\ x # Nothing
      /\ \A j \in DriveIds : j # i => e[j] = d[j]
  BY ItemFields DEF Tree
<1> HIDE DEF e
<1>2. \A j, k \in DriveIds : j # k /\ IsThere(e, j) /\ IsThere(e, k) /\ e[j].in = e[k].in
                             => e[j].name # e[k].name
  BY <1>1 DEF Tree, IsThere
<1>3. \A j \in DriveIds : IsThere(e, j) => LiesWell(e, e[j].in)
  BY <1>1 DEF Tree, IsThere, LiesWell
<1>4. Tree(e)
  BY <1>1, <1>2, <1>3 DEF Tree
<1> QED BY <1>4 DEF e

\* A folder that goes leaves nothing without a place: what lies in it goes too, and that
\* is files only.
LEMMA TreeShrinks ==
  ASSUME Drive!DriveAssumption, NEW d, Tree(d), NEW i \in DriveIds, IsThere(d, i), NEW e,
         e = [j \in DriveIds |-> IF j = i \/ (IsThere(d, j) /\ d[j].in = i) THEN Nothing ELSE d[j]]
  PROVE  Tree(e)
<1>1. /\ e \in [DriveIds -> DriveItems \cup {Nothing}]
      /\ \A j \in DriveIds : IsThere(e, j) => /\ IsThere(d, j) /\ e[j] = d[j] /\ j # i
                                              /\ d[j].in # i
  BY DEF Tree, IsThere
<1>2. ASSUME NEW j \in DriveIds, IsThere(e, j) PROVE LiesWell(e, e[j].in)
  <2>1. IsThere(d, j) /\ e[j] = d[j] /\ d[j].in # i /\ LiesWell(d, d[j].in)
    BY <1>1, <1>2 DEF Tree
  <2>2. CASE d[j].in = Root
    BY <2>1, <2>2 DEF LiesWell
  <2>3. CASE d[j].in # Root
    <3> DEFINE f == d[j].in
    <3>1. f \in DriveIds /\ IsThere(d, f) /\ d[f].kind = "folder" /\ f # i
      BY <2>1, <2>3 DEF LiesWell
    <3>2. d[f] \in DriveItems
      BY <3>1 DEF Tree, IsThere
    <3>3. d[f].in = Root
      BY <3>1, <3>2, ItemFields
    <3>4. Root # i
      BY DEF Drive!DriveAssumption
    <3>5. e[f] = d[f]
      BY <3>1, <3>3, <3>4
    <3> QED BY <2>1, <3>1, <3>5 DEF LiesWell, IsThere
  <2> QED BY <2>2, <2>3
<1> QED BY <1>1, <1>2 DEF Tree
\* What a path names is there; where it ends is a folder of the tree.
LEMMA PathsAre ==
  ASSUME Drive!DriveAssumption, Tree(drive), NEW path \in Drive!DrivePaths
  PROVE  /\ Drive!Last(path) \in DriveNames
         /\ \A i \in Drive!ItemsAt(path) :
              i \in DriveIds /\ IsThere(drive, i) /\ drive[i] \in DriveItems
         /\ \A p \in Drive!ParentsOf(path) : LiesWell(drive, p) /\ p \in DriveIds \cup {Root}
         /\ Drive!ItemsAt(path) = {} =>
              \A p \in Drive!ParentsOf(path), j \in DriveIds :
                IsThere(drive, j) /\ drive[j].in = p => drive[j].name # Drive!Last(path)
<1>1. Drive!Last(path) \in DriveNames
  <2>1. PICK n \in 0 .. 2 : path \in [1 .. n -> DriveNames]
    BY DEF Drive!DrivePaths, Drive!SeqOf
  <2>2. path \in Seq(DriveNames) /\ Len(path) = n /\ path # <<>>
    BY <2>1 DEF Drive!DrivePaths
  <2>3. n \in 1 .. n
    BY <2>1, <2>2
  <2> QED BY <2>1, <2>2, <2>3 DEF Drive!Last
<1>2. \A i \in Drive!ItemsAt(path) : i \in Drive!There
  BY DEF Drive!ItemsAt, Drive!Called
<1>3. \A i \in Drive!There : i \in DriveIds /\ IsThere(drive, i) /\ drive[i] \in DriveItems
  BY DEF Drive!There, IsThere, Tree
<1>4. ASSUME NEW p \in Drive!ParentsOf(path) PROVE LiesWell(drive, p) /\ p \in DriveIds \cup {Root}
  <2>1. p = Root \/ (p \in Drive!There /\ drive[p].kind = "folder")
    BY DEF Drive!ParentsOf, Drive!Called
  <2> QED BY <1>3, <2>1 DEF LiesWell
<1>5. ASSUME Drive!ItemsAt(path) = {}, NEW p \in Drive!ParentsOf(path), NEW j \in DriveIds,
             IsThere(drive, j), drive[j].in = p
      PROVE  drive[j].name # Drive!Last(path)
  BY <1>5 DEF Drive!ItemsAt, Drive!Called, Drive!There, IsThere
<1> QED BY <1>1, <1>2, <1>3, <1>4, <1>5

\* The orders of copies stay good while an item they name is not made anew and keeps its kind.
LEMMA OrdersStay ==
  ASSUME NEW d, NEW e, NEW cs, Ordered(d, cs),
         \A c \in cs : \A i \in {c.from, c.to} :
           IsThere(e, i) => IsThere(d, i) /\ e[i].kind = d[i].kind
  PROVE  Ordered(e, cs)
BY DEF Ordered

\* An item made by a call, at an id that nothing names.
LEMMA NewKeeps ==
  ASSUME Drive!DriveAssumption, Tree(drive), Ordered(drive, copying), NEW i \in Drive!Free,
         NEW kind, NEW parent, NEW name, NEW text, Drive!New(i, kind, parent, name, text),
         [kind |-> kind, in |-> parent, name |-> name, text |-> text] \in DriveItems,
         LiesWell(drive, parent),
         \A j \in DriveIds : IsThere(drive, j) /\ drive[j].in = parent => drive[j].name # name,
         NEW cs \in SUBSET copying
  PROVE  Tree(drive') /\ Ordered(drive', cs)
<1> DEFINE x == [kind |-> kind, in |-> parent, name |-> name, text |-> text]
<1>1. i \in DriveIds /\ ~IsThere(drive, i) /\ \A c \in copying : i \notin {c.from, c.to}
  BY DEF Drive!Free, Drive!There, IsThere
<1>2. parent # i
  BY <1>1 DEF LiesWell, Drive!DriveAssumption
<1>3. drive' = [drive EXCEPT ![i] = x]
  BY DEF Drive!New
<1>4. Tree(drive')
  <2>1. x \in DriveItems /\ LiesWell(drive, x.in) /\ x.in # i
    BY <1>2
  <2>2. \A j \in DriveIds : IsThere(drive, j) /\ drive[j].in = x.in => drive[j].name # x.name
    OBVIOUS
  <2> HIDE DEF x
  <2> QED BY <1>1, <1>3, <2>1, <2>2, TreeGrows
<1>5. Ordered(drive, cs)
  BY DEF Ordered
<1>6. \A j \in DriveIds \ {i} : drive'[j] = drive[j]
  BY <1>3 DEF Tree
<1>7. \A c \in cs : {c.from, c.to} \subseteq DriveIds \ {i}
  BY <1>1, <1>5 DEF Ordered, CopyOrders
<1>8. \A c \in cs : \A j \in {c.from, c.to} :
        IsThere(drive', j) => IsThere(drive, j) /\ drive'[j].kind = drive[j].kind
  BY <1>6, <1>7 DEF IsThere
<1> QED BY <1>4, <1>5, <1>8, OrdersStay

\* An item put elsewhere, renamed or given another content.
LEMMA ChangeKeeps ==
  ASSUME Drive!DriveAssumption, Tree(drive), Ordered(drive, copying), NEW i \in DriveIds,
         IsThere(drive, i), NEW x \in DriveItems, drive' = [drive EXCEPT ![i] = x],
         x.kind = drive[i].kind, LiesWell(drive, x.in),
         \A j \in DriveIds \ {i} : IsThere(drive, j) /\ drive[j].in = x.in => drive[j].name # x.name
  PROVE  Tree(drive') /\ Ordered(drive', copying)
<1>1. Tree(drive')
  BY TreeMoves
<1>2. /\ drive'[i] = x /\ \A j \in DriveIds \ {i} : drive'[j] = drive[j]
  BY DEF Tree
<1>3. \A c \in copying : \A j \in {c.from, c.to} :
        IsThere(drive', j) => IsThere(drive, j) /\ drive'[j].kind = drive[j].kind
  BY <1>2 DEF IsThere, Ordered, CopyOrders
<1>4. Ordered(drive', copying)
  <2> DEFINE e == drive'
  <2>1. \A c \in copying : \A j \in {c.from, c.to} :
          IsThere(e, j) => IsThere(drive, j) /\ e[j].kind = drive[j].kind
    BY <1>3
  <2> HIDE DEF e
  <2>2. Ordered(e, copying)
    BY <2>1, OrdersStay
  <2> QED BY <2>2 DEF e
<1> QED BY <1>1, <1>4

LEMMA DeleteKeeps ==
  ASSUME Drive!DriveAssumption, Tree(drive), Ordered(drive, copying), NEW i \in DriveIds,
         IsThere(drive, i), Drive!DeleteItem(i)
  PROVE  Tree(drive') /\ Ordered(drive', copying)
<1>1. drive' = [j \in DriveIds |-> IF j = i \/ (IsThere(drive, j) /\ drive[j].in = i)
                                 THEN Nothing ELSE drive[j]]
  BY DEF Drive!DeleteItem, Drive!There, IsThere
<1>2. Tree(drive')
  BY <1>1, TreeShrinks
<1>3. \A j \in DriveIds : IsThere(drive', j) => IsThere(drive, j) /\ drive'[j] = drive[j]
  BY <1>1 DEF IsThere
<1>4. \A c \in copying : \A j \in {c.from, c.to} :
        IsThere(drive', j) => IsThere(drive, j) /\ drive'[j].kind = drive[j].kind
  BY <1>3 DEF Ordered, CopyOrders
<1> QED BY <1>2, <1>4, OrdersStay

\* Every step keeps the tree, and the orders of copies.
LEMMA TreeStep ==
  ASSUME Drive!DriveAssumption, DriveInv, [Drive!DriveNext]_driveVars
  PROVE  Tree(drive') /\ Ordered(drive', copying')
<1> USE DEF DriveInv
<1>0. ASSUME driveCall.pc \in {"destination", "request", "redirected", "download"}
      PROVE  driveCall \in DriveBusy /\ driveCall.path \in Drive!DrivePaths
             /\ driveCall.name \in DriveNames \cup {Nothing} /\ driveCall.text \in Texts
  BY <1>0 DEF DriveAnswered, DriveBusy
<1>a. \A i \in Drive!There : i \in DriveIds /\ IsThere(drive, i) /\ drive[i] \in DriveItems
  BY DEF Drive!There, IsThere, Tree
<1>1. CASE UNCHANGED <<drive, copying>>
  BY <1>1
<1>2. CASE Drive!WriteFile
  <2>1. driveCall.path \in Drive!DrivePaths /\ driveCall.text \in Texts /\ copying' = copying
    BY <1>0, <1>2 DEF Drive!WriteFile, Drive!DriveRequest
  <2>2. CASE /\ Drive!ItemsAt(driveCall.path) = {}
             /\ \E i \in Drive!Free, parent \in Drive!ParentsOf(driveCall.path) :
                  Drive!New(i, "file", parent, Drive!Last(driveCall.path), driveCall.text)
    <3>1. PICK i \in Drive!Free, parent \in Drive!ParentsOf(driveCall.path) :
            Drive!New(i, "file", parent, Drive!Last(driveCall.path), driveCall.text)
      BY <2>2
    <3>2. /\ Drive!Last(driveCall.path) \in DriveNames /\ LiesWell(drive, parent)
          /\ parent \in DriveIds \cup {Root}
          /\ \A j \in DriveIds : IsThere(drive, j) /\ drive[j].in = parent
                                  => drive[j].name # Drive!Last(driveCall.path)
      BY <2>1, <2>2, PathsAre
    <3>3. [kind |-> "file", in |-> parent, name |-> Drive!Last(driveCall.path),
           text |-> driveCall.text] \in DriveItems
      BY <2>1, <3>2, ItemFields
    <3> QED BY <2>1, <3>1, <3>2, <3>3, NewKeeps
  <2>3. ASSUME NEW i \in Drive!ItemsAt(driveCall.path), drive[i].kind = "file",
               drive' = [drive EXCEPT ![i].text = driveCall.text]
        PROVE  Tree(drive') /\ Ordered(drive', copying')
    <3> DEFINE x == [drive[i] EXCEPT !.text = driveCall.text]
    <3>1. i \in DriveIds /\ IsThere(drive, i) /\ drive[i] \in DriveItems
      BY <2>1, PathsAre
    <3>2. drive[i] \in Drive!Files
      BY <2>3, <3>1, ItemFields
    <3>3. x \in Drive!Files /\ x.kind = "file" /\ x.in = drive[i].in /\ x.name = drive[i].name
      BY <2>1, <3>2 DEF Drive!Files
    <3>4. x \in DriveItems
      BY <3>3 DEF DriveItems
    <3>5. drive' = [drive EXCEPT ![i] = x]
      BY <2>3, <3>1 DEF Tree
    <3> HIDE DEF x
    <3>6. /\ LiesWell(drive, x.in)
          /\ \A j \in DriveIds \ {i} : IsThere(drive, j) /\ drive[j].in = x.in => drive[j].name # x.name
      BY <3>1, <3>3 DEF Tree
    <3> QED BY <2>1, <2>3, <3>1, <3>3, <3>4, <3>5, <3>6, ChangeKeeps
  <2> QED BY <1>2, <2>2, <2>3 DEF Drive!WriteFile
<1>3. CASE Drive!DeleteFile
  <2>1. driveCall.path \in Drive!DrivePaths /\ copying' = copying
    BY <1>0, <1>3 DEF Drive!DeleteFile, Drive!DriveRequest
  <2>2. PICK i \in Drive!ItemsAt(driveCall.path) : Drive!DeleteItem(i)
    BY <1>3 DEF Drive!DeleteFile
  <2> QED BY <2>1, <2>2, PathsAre, DeleteKeeps
<1>4. CASE Drive!CreateFolder
  <2>1. copying' = copying
    BY <1>4 DEF Drive!CreateFolder
  <2>2. PICK i \in Drive!Free, name \in DriveNames :
          /\ Drive!Called(Root, name) \ {i} = {}
          /\ Drive!New(i, "folder", Root, name, Nothing)
    BY <1>4 DEF Drive!CreateFolder, Drive!FolderId
  <2>3. \A j \in DriveIds : IsThere(drive, j) /\ drive[j].in = Root => drive[j].name # name
    BY <2>2 DEF Drive!Called, Drive!There, IsThere, Drive!Free
  <2>4. LiesWell(drive, Root) /\ [kind |-> "folder", in |-> Root, name |-> name, text |-> Nothing] \in DriveItems
    BY ItemFields DEF LiesWell
  <2> QED BY <2>1, <2>2, <2>3, <2>4, NewKeeps
<1>5. CASE Drive!MoveFile
  <2>1. /\ driveCall.path \in Drive!DrivePaths /\ copying' = copying
        /\ driveCall.name \in DriveNames \cup {Nothing}
    BY <1>0, <1>5 DEF Drive!MoveFile, Drive!DriveRequest
  <2> DEFINE f == driveCall.folder
  <2>2. PICK i \in Drive!ItemsAt(driveCall.path) :
          /\ drive[i].kind = "file" /\ f \in Drive!There /\ drive[f].kind = "folder"
          /\ Drive!Called(f, Drive!NameThere(i)) \subseteq {i}
          /\ drive' = [drive EXCEPT ![i].in = f, ![i].name = Drive!NameThere(i)]
    BY <1>5 DEF Drive!MoveFile, Drive!FolderById
  <2> HIDE DEF f
  <2> DEFINE x == [drive[i] EXCEPT !.in = f, !.name = Drive!NameThere(i)]
  <2>3. i \in DriveIds /\ IsThere(drive, i) /\ drive[i] \in DriveItems
    BY <2>1, PathsAre
  <2>4. drive[i] \in Drive!Files /\ drive[i].name \in DriveNames
    BY <2>2, <2>3, ItemFields
  <2>5. Drive!NameThere(i) \in DriveNames /\ f \in DriveIds /\ LiesWell(drive, f)
    BY <1>a, <2>1, <2>2, <2>4 DEF Drive!NameThere, LiesWell
  <2>6. x \in Drive!Files /\ x.kind = "file" /\ x.in = f /\ x.name = Drive!NameThere(i)
    BY <2>4, <2>5 DEF Drive!Files
  <2>7. x \in DriveItems
    BY <2>6 DEF DriveItems
  <2>8. drive' = [drive EXCEPT ![i] = x]
    BY <2>2, <2>3 DEF Tree
  <2> HIDE DEF x
  <2>9. \A j \in DriveIds \ {i} : IsThere(drive, j) /\ drive[j].in = x.in => drive[j].name # x.name
    BY <2>2, <2>6 DEF Drive!Called, Drive!There, IsThere
  <2>10. x.kind = drive[i].kind /\ LiesWell(drive, x.in)
    BY <2>2, <2>5, <2>6
  <2>11. Tree(drive') /\ Ordered(drive', copying)
    BY <2>3, <2>7, <2>8, <2>9, <2>10, ChangeKeeps
  <2> QED BY <2>1, <2>11
<1>6. CASE Drive!CopyFile
  <2>1. /\ driveCall.path \in Drive!DrivePaths /\ driveCall.name \in DriveNames \cup {Nothing}
        /\ drive' = drive
    BY <1>0, <1>6 DEF Drive!CopyFile, Drive!DriveRequest
  <2> DEFINE f == driveCall.folder
  <2>2. PICK i \in Drive!ItemsAt(driveCall.path) :
          /\ drive[i].kind = "file" /\ f \in Drive!There /\ drive[f].kind = "folder"
          /\ copying' = copying \cup {[from |-> i, to |-> f, name |-> Drive!NameThere(i)]}
    BY <1>6 DEF Drive!CopyFile, Drive!FolderById
  <2> HIDE DEF f
  <2>3. i \in DriveIds /\ drive[i] \in DriveItems /\ f \in DriveIds
    BY <1>a, <2>1, <2>2, PathsAre
  <2>4. drive[i].name \in DriveNames
    BY <2>3, ItemFields
  <2>5. Drive!NameThere(i) \in DriveNames
    BY <2>1, <2>4 DEF Drive!NameThere
  <2>6. Ordered(drive, copying')
    BY <2>2, <2>3, <2>5 DEF Ordered, CopyOrders
  <2> QED BY <2>1, <2>6
<1>7. CASE Drive!CopyEnds
  <2>1. PICK c \in copying :
          /\ copying' = copying \ {c}
          /\ \/ UNCHANGED drive
             \/ /\ {c.from, c.to} \subseteq Drive!There /\ Drive!Called(c.to, c.name) = {}
                /\ \E i \in Drive!Free : Drive!New(i, "file", c.to, c.name, drive[c.from].text)
    BY <1>7 DEF Drive!CopyEnds
  <2>2. CASE UNCHANGED drive
    BY <2>1, <2>2 DEF Ordered
  <2>3. ASSUME {c.from, c.to} \subseteq Drive!There, Drive!Called(c.to, c.name) = {},
               NEW i \in Drive!Free, Drive!New(i, "file", c.to, c.name, drive[c.from].text)
        PROVE  Tree(drive') /\ Ordered(drive', copying')
    <3>1. /\ c \in CopyOrders /\ drive[c.from].kind = "file" /\ drive[c.to].kind = "folder"
          /\ IsThere(drive, c.to) /\ drive[c.from] \in DriveItems
      BY <1>a, <2>3 DEF Ordered
    <3>2. drive[c.from] \in Drive!Files
      BY <3>1, ItemFields
    <3>3. drive[c.from].text \in Texts /\ c.to \in DriveIds /\ c.name \in DriveNames
      BY <3>1, <3>2 DEF Drive!Files, CopyOrders
    <3>4. /\ [kind |-> "file", in |-> c.to, name |-> c.name, text |-> drive[c.from].text] \in DriveItems
          /\ LiesWell(drive, c.to)
      BY <3>1, <3>3, ItemFields DEF LiesWell
    <3>5. \A j \in DriveIds : IsThere(drive, j) /\ drive[j].in = c.to => drive[j].name # c.name
      BY <2>3 DEF Drive!Called, Drive!There, IsThere
    <3>6. copying' \in SUBSET copying
      BY <2>1
    <3> QED BY <2>3, <3>4, <3>5, <3>6, NewKeeps
  <2> QED BY <2>1, <2>2, <2>3
<1>8. CASE Drive!OwnerChanges
  <2>0. copying' = copying
    BY <1>8 DEF Drive!OwnerChanges
  <2>1. ASSUME NEW i \in Drive!There, NEW name \in DriveNames, Drive!Called(drive[i].in, name) = {},
               drive' = [drive EXCEPT ![i].name = name]
        PROVE  Tree(drive') /\ Ordered(drive', copying)
    <3> DEFINE x == [drive[i] EXCEPT !.name = name]
    <3>1. i \in DriveIds /\ IsThere(drive, i) /\ drive[i] \in DriveItems
      BY <1>a
    <3>2. x \in DriveItems /\ x.kind = drive[i].kind /\ x.in = drive[i].in /\ x.name = name
      BY <3>1 DEF DriveItems, Drive!Files, Drive!Folders
    <3>3. drive' = [drive EXCEPT ![i] = x]
      BY <2>1, <3>1 DEF Tree
    <3> HIDE DEF x
    <3>4. LiesWell(drive, x.in)
      BY <3>1, <3>2 DEF Tree
    <3>5. \A j \in DriveIds \ {i} : IsThere(drive, j) /\ drive[j].in = x.in => drive[j].name # x.name
      BY <2>1, <3>2 DEF Drive!Called, Drive!There, IsThere
    <3> QED BY <3>1, <3>2, <3>3, <3>4, <3>5, ChangeKeeps
  <2>2. ASSUME NEW i \in Drive!There, Drive!DeleteItem(i)
        PROVE  Tree(drive') /\ Ordered(drive', copying)
    BY <1>a, <2>2, DeleteKeeps
  <2>3. ASSUME NEW i \in Drive!Free, NEW path \in Drive!DrivePaths, NEW text \in Texts,
               NEW parent \in Drive!ParentsOf(path), Drive!ItemsAt(path) = {},
               Drive!New(i, "file", parent, Drive!Last(path), text)
        PROVE  Tree(drive') /\ Ordered(drive', copying)
    <3>1. /\ Drive!Last(path) \in DriveNames /\ LiesWell(drive, parent)
          /\ parent \in DriveIds \cup {Root}
          /\ \A j \in DriveIds : IsThere(drive, j) /\ drive[j].in = parent
                                  => drive[j].name # Drive!Last(path)
      BY <2>3, PathsAre
    <3>2. [kind |-> "file", in |-> parent, name |-> Drive!Last(path), text |-> text] \in DriveItems
      BY <3>1, ItemFields
    <3> QED BY <2>3, <3>1, <3>2, NewKeeps
  <2> QED BY <1>8, <2>0, <2>1, <2>2, <2>3 DEF Drive!OwnerChanges
<1>9. ASSUME NEW op, NEW path, NEW dest, NEW name, NEW text, NEW overwrite,
             Drive!BeginDrive(op, path, dest, name, text, overwrite)
      PROVE  UNCHANGED <<drive, copying>>
  BY <1>9 DEF Drive!BeginDrive
<1>10. Drive!FindDestination \/ Drive!DriveFails \/ Drive!LookUp \/ Drive!ReadFile
         \/ Drive!Follow \/ Drive!Download \/ Drive!Disable
       => UNCHANGED <<drive, copying>>
  BY DEF Drive!FindDestination, Drive!DriveFails, Drive!LookUp, Drive!ReadFile, Drive!Follow,
         Drive!Download, Drive!Disable
<1>11. UNCHANGED driveVars => UNCHANGED <<drive, copying>>
  BY DEF driveVars
<1> QED BY <1>1, <1>2, <1>3, <1>4, <1>5, <1>6, <1>7, <1>8, <1>9, <1>10, <1>11 DEF Drive!DriveNext
LEMMA DriveStart ==
  ASSUME Drive!DriveAssumption, Drive!DriveInit
  PROVE  DriveInv
<1>1. /\ drive = [i \in DriveIds |-> Nothing] /\ copying = {} /\ enabled = TRUE
      /\ driveCall = [pc |-> "idle", answer |-> "none", cutOff |-> FALSE]
  BY DEF Drive!DriveInit, Drive!DriveIdle
<1>2. Tree(drive)
  BY <1>1 DEF Tree, IsThere
<1>3. Ordered(drive, copying)
  BY <1>1 DEF Ordered
<1>4. driveCall \in DriveAnswered
  BY <1>1 DEF DriveAnswered, DriveAnswerSet
<1> QED BY <1>1, <1>2, <1>3, <1>4 DEF DriveInv

\* The call stays a call, and one that was cut off gets nothing further.
LEMMA DriveCallStep ==
  ASSUME Drive!DriveAssumption, DriveInv, [Drive!DriveNext]_driveVars
  PROVE  /\ enabled' \in BOOLEAN /\ driveCall' \in DriveAnswered \cup DriveBusy
         /\ driveCall'.cutOff => driveCall'.pc = "redirected" /\ ~enabled'
<1> DEFINE Goal == /\ enabled' \in BOOLEAN /\ driveCall' \in DriveAnswered \cup DriveBusy
                   /\ driveCall'.cutOff => driveCall'.pc = "redirected" /\ ~enabled'
<1> SUFFICES Goal
  OBVIOUS
<1>0. ASSUME driveCall.pc \in {"destination", "request", "redirected", "download"}
      PROVE  driveCall \in DriveBusy
  BY <1>0 DEF DriveInv, DriveAnswered, DriveBusy
<1>a. /\ Tree(drive) /\ enabled \in BOOLEAN /\ driveCall \in DriveAnswered \cup DriveBusy
      /\ driveCall.cutOff => driveCall.pc = "redirected" /\ ~enabled
  BY DEF DriveInv
<1>b. \A told \in DriveAnswerSet : Drive!DriveIdle(told) \in DriveAnswered
                            /\ ~Drive!DriveIdle(told).cutOff
  BY DEF Drive!DriveIdle, DriveAnswered, DriveAnswerSet
<1>c. ASSUME enabled' \in BOOLEAN, \E told \in DriveAnswerSet : driveCall' = Drive!DriveIdle(told)
      PROVE  Goal
  BY <1>b, <1>c
<1>1. CASE UNCHANGED <<enabled, driveCall>>
  BY <1>1, <1>a
<1>2. ASSUME NEW op \in DriveOps, NEW path \in Drive!DrivePaths, NEW dest \in DriveDests,
             NEW name \in DriveNames \cup {Nothing}, NEW text \in Texts, NEW overwrite \in BOOLEAN,
             Drive!BeginDrive(op, path, dest, name, text, overwrite)
      PROVE  Goal
  <2>1. /\ enabled' = enabled
        /\ driveCall' = [pc |-> IF op \in Drive!Relocations THEN "destination" ELSE "request",
                         answer |-> "none", op |-> op, path |-> path, dest |-> dest, name |-> name,
                         text |-> text, overwrite |-> overwrite, folder |-> Nothing, cutOff |-> FALSE]
    BY <1>2 DEF Drive!BeginDrive
  <2>2. driveCall' \in DriveBusy /\ ~driveCall'.cutOff
    BY <2>1 DEF DriveBusy
  <2> QED BY <1>a, <2>1, <2>2
<1>3. CASE Drive!FindDestination
  <2>1. PICK f \in Drive!ItemsAt(driveCall.dest) :
          driveCall' = [driveCall EXCEPT !.pc = "request", !.folder = f]
    BY <1>3 DEF Drive!FindDestination
  <2>2. f \in DriveIds
    BY DEF Drive!ItemsAt, Drive!Called, Drive!There
  <2>3. driveCall.pc = "destination" /\ enabled' = enabled /\ driveCall \in DriveBusy
    BY <1>0, <1>3 DEF Drive!FindDestination
  <2>4. driveCall' \in DriveBusy /\ driveCall'.cutOff = driveCall.cutOff
    BY <2>1, <2>2, <2>3 DEF DriveBusy
  <2> QED BY <1>a, <2>3, <2>4
<1>4. CASE Drive!DriveFails
  <2>1. \E told \in DriveAnswerSet : driveCall' = Drive!DriveIdle(told)
    BY <1>4 DEF Drive!DriveFails, DriveAnswerSet
  <2>2. enabled' \in BOOLEAN
    BY <1>4, <1>a DEF Drive!DriveFails
  <2> QED BY <1>c, <2>1, <2>2
<1>5. ASSUME Drive!DriveAnswers PROVE Goal
  <2>1. \E told \in DriveAnswerSet : driveCall' = Drive!DriveIdle(told)
    BY <1>5 DEF Drive!DriveAnswers, DriveAnswerSet
  <2>2. enabled' \in BOOLEAN
    BY <1>5, <1>a DEF Drive!DriveAnswers
  <2> QED BY <1>c, <2>1, <2>2
<1>6. Drive!WriteFile \/ Drive!DeleteFile \/ Drive!CreateFolder \/ Drive!MoveFile
        \/ Drive!CopyFile \/ Drive!LookUp => Drive!DriveAnswers
  BY DEF Drive!WriteFile, Drive!DeleteFile, Drive!CreateFolder, Drive!MoveFile, Drive!CopyFile,
         Drive!LookUp
<1>7. CASE Drive!ReadFile
  <2>1. CASE driveCall' = Drive!DriveIdle("content")
    <3>1. enabled' \in BOOLEAN
      BY <1>7, <1>a DEF Drive!ReadFile
    <3>2. "content" \in DriveAnswerSet
      BY DEF DriveAnswerSet
    <3> QED BY <1>c, <2>1, <3>1, <3>2
  <2>2. CASE driveCall' = [driveCall EXCEPT !.pc = "redirected"]
    <3>1. driveCall \in DriveBusy /\ driveCall.pc = "request" /\ enabled' = enabled
      BY <1>0, <1>7 DEF Drive!ReadFile, Drive!DriveRequest
    <3>2. driveCall' \in DriveBusy /\ driveCall'.cutOff = driveCall.cutOff
      BY <2>2, <3>1 DEF DriveBusy
    <3> QED BY <1>a, <3>1, <3>2
  <2> QED BY <1>7, <2>1, <2>2 DEF Drive!ReadFile
<1>8. CASE Drive!Follow
  <2>1. driveCall.pc = "redirected" /\ driveCall \in DriveBusy /\ enabled' = enabled
    BY <1>0, <1>8 DEF Drive!Follow
  <2>2. PICK target : driveCall' = IF ~Drive!MayFollow THEN Drive!DriveIdle("unsure")
                    ELSE IF target \in Drive!Allowed THEN [driveCall EXCEPT !.pc = "download"]
                    ELSE Drive!DriveIdle("bad_address")
    BY <1>8 DEF Drive!Follow
  <2>3. CASE driveCall' \in {Drive!DriveIdle("unsure"), Drive!DriveIdle("bad_address")}
    <3>1. \E told \in DriveAnswerSet : driveCall' = Drive!DriveIdle(told)
      BY <2>3 DEF DriveAnswerSet
    <3>2. enabled' \in BOOLEAN
      BY <1>a, <2>1
    <3> QED BY <1>c, <3>1, <3>2
  <2>4. CASE driveCall' = [driveCall EXCEPT !.pc = "download"] /\ enabled
    <3>1. driveCall' \in DriveBusy /\ driveCall'.cutOff = driveCall.cutOff
      BY <2>1, <2>4 DEF DriveBusy
    <3> QED BY <1>a, <2>1, <2>4, <3>1
  <2> QED BY <2>2, <2>3, <2>4 DEF Drive!MayFollow
<1>9. CASE Drive!Download
  <2>1. PICK told \in {"content", "redirected_again", "refused", "unsure"} :
          driveCall' = [Drive!DriveIdle(told) EXCEPT !.cutOff = driveCall.cutOff]
    BY <1>9 DEF Drive!Download
  <2>2. driveCall.pc = "download" /\ enabled' = enabled /\ driveCall \in DriveBusy
    BY <1>0, <1>9 DEF Drive!Download
  <2>3. ~driveCall.cutOff
    BY <1>a, <2>2
  <2>4. driveCall' = [pc |-> "idle", answer |-> told, cutOff |-> driveCall.cutOff]
    BY <2>1 DEF Drive!DriveIdle
  <2>5. driveCall' \in DriveAnswered /\ ~driveCall'.cutOff
    <3>1. driveCall.cutOff \in BOOLEAN
      BY <2>2 DEF DriveBusy
    <3> QED BY <2>3, <2>4, <3>1 DEF DriveAnswered, DriveAnswerSet
  <2> QED BY <1>a, <2>2, <2>5
<1>10. CASE Drive!Disable
  <2>1. enabled' = FALSE /\ driveCall' = [driveCall EXCEPT !.cutOff = (driveCall.pc = "redirected")]
    BY <1>10 DEF Drive!Disable
  <2>2. CASE driveCall \in DriveAnswered
    <3>1. driveCall' \in DriveAnswered /\ ~driveCall'.cutOff
      BY <2>1, <2>2 DEF DriveAnswered
    <3> QED BY <2>1, <3>1
  <2>3. CASE driveCall \in DriveBusy
    <3>1. driveCall' \in DriveBusy /\ driveCall'.pc = driveCall.pc
          /\ driveCall'.cutOff = (driveCall.pc = "redirected")
      BY <2>1, <2>3 DEF DriveBusy
    <3> QED BY <2>1, <3>1
  <2> QED BY <1>a, <2>2, <2>3
<1>11. Drive!CopyEnds \/ Drive!OwnerChanges \/ UNCHANGED driveVars => UNCHANGED <<enabled, driveCall>>
  BY DEF Drive!CopyEnds, Drive!OwnerChanges, driveVars
<1> HIDE DEF Goal
<1>12. (\E op \in Drive!Lookups \cup Drive!Relocations \cup Drive!Changes \cup {"read_file"},
           path \in Drive!DrivePaths, dest \in {<<w>> : w \in DriveNames} \cup {Nothing},
           name \in DriveNames \cup {Nothing}, text \in Texts, overwrite \in BOOLEAN :
          Drive!BeginDrive(op, path, dest, name, text, overwrite)) => Goal
  BY <1>2 DEF DriveOps, DriveDests
<1> QED
  BY <1>1, <1>12, <1>3, <1>4, <1>5, <1>6, <1>7, <1>8, <1>9, <1>10, <1>11 DEF Drive!DriveNext

LEMMA DriveHolds ==
  ASSUME Drive!DriveAssumption, DriveInv, [Drive!DriveNext]_driveVars
  PROVE  DriveInv'
<1>1. Tree(drive') /\ Ordered(drive', copying')
  BY TreeStep
<1>2. /\ enabled' \in BOOLEAN /\ driveCall' \in DriveAnswered \cup DriveBusy
      /\ driveCall'.cutOff => driveCall'.pc = "redirected" /\ ~enabled'
  BY DriveCallStep
<1>3. Tree(drive)' /\ Ordered(drive, copying)'
  BY <1>1 DEF Tree, Ordered, IsThere, LiesWell
<1>4. /\ (enabled \in BOOLEAN)' /\ (driveCall \in DriveAnswered \cup DriveBusy)'
      /\ (driveCall.cutOff => driveCall.pc = "redirected" /\ ~enabled)'
  BY <1>2 DEF DriveAnswered, DriveBusy, DriveOps, DriveDests, Drive!Lookups, Drive!Relocations,
              Drive!Changes, Drive!DrivePaths, Drive!SeqOf
<1> QED BY <1>3, <1>4 DEF DriveInv

LEMMA DriveTyped ==
  ASSUME Drive!DriveAssumption, DriveInv
  PROVE  Drive!DriveTypeOK /\ Drive!CutOffGetsNothing
<1>0. \A i : i \in Drive!There <=> i \in DriveIds /\ IsThere(drive, i)
  BY DEF Drive!There, IsThere
<1>1. drive \in [DriveIds -> Drive!Files \cup Drive!Folders \cup {Nothing}]
  BY DEF DriveInv, Tree, DriveItems
<1>2. \A i, j \in Drive!There : i # j => <<drive[i].in, drive[i].name>> # <<drive[j].in, drive[j].name>>
  BY <1>0 DEF DriveInv, Tree
<1>3. \A i \in Drive!There : drive[i].in = Root \/ drive[i].in \in Drive!There
  BY <1>0 DEF DriveInv, Tree, LiesWell
<1>4. /\ driveCall.pc \in {"idle", "destination", "request", "redirected", "download"}
      /\ driveCall.cutOff \in BOOLEAN
  BY DEF DriveInv, DriveAnswered, DriveBusy
<1>5. ~(driveCall.answer = "content" /\ driveCall.cutOff)
  BY DEF DriveInv, DriveAnswered, DriveBusy
<1> QED BY <1>1, <1>2, <1>3, <1>4, <1>5 DEF DriveInv, Drive!DriveTypeOK, Drive!CutOffGetsNothing

\* What the call's own steps do to the items that were there.
LEMMA DriveEffects ==
  ASSUME Drive!DriveAssumption, DriveInv, [Drive!DriveNext]_driveVars
  PROVE  Drive!ContentsStay /\ Drive!MovesWhereItLooked
<1>0. \A i : i \in Drive!There <=> i \in DriveIds /\ drive[i] # Nothing
  BY DEF Drive!There
<1>a. /\ drive \in [DriveIds -> DriveItems \cup {Nothing}] /\ Tree(drive)
      /\ driveCall \in DriveAnswered \cup DriveBusy
  BY DEF DriveInv, Tree
<1>b. ASSUME UNCHANGED drive PROVE Drive!ContentsStay /\ Drive!MovesWhereItLooked
  BY <1>0, <1>b DEF Drive!ContentsStay, Drive!MovesWhereItLooked
<1>c. ASSUME NEW i \in Drive!Free, NEW kind, NEW parent, NEW name, NEW text,
             Drive!New(i, kind, parent, name, text)
      PROVE  Drive!ContentsStay /\ Drive!MovesWhereItLooked
  <2>1. i \notin Drive!There
    BY DEF Drive!Free
  <2>2. \A j \in Drive!There : drive'[j] = drive[j]
    BY <1>a, <1>c, <1>0, <2>1 DEF Drive!New
  <2> QED BY <1>0, <2>2 DEF Drive!ContentsStay, Drive!MovesWhereItLooked
<1>1. CASE Drive!WriteFile
  <2>1. driveCall.op = "write_file"
    BY <1>1 DEF Drive!WriteFile, Drive!DriveRequest
  <2>2. CASE \E i \in Drive!Free, parent \in Drive!ParentsOf(driveCall.path) :
               Drive!New(i, "file", parent, Drive!Last(driveCall.path), driveCall.text)
    BY <1>c, <2>2
  <2>3. ASSUME NEW i \in Drive!ItemsAt(driveCall.path), Drive!Replaces,
               drive' = [drive EXCEPT ![i].text = driveCall.text]
        PROVE  Drive!ContentsStay
    <3>1. driveCall.overwrite
      BY <2>3 DEF Drive!Replaces
    <3>2. \A j \in DriveIds : j # i => drive'[j] = drive[j]
      BY <1>a, <2>3
    <3> QED BY <1>0, <2>1, <3>1, <3>2 DEF Drive!ContentsStay
  <2>4. Drive!MovesWhereItLooked
    BY <2>1 DEF Drive!MovesWhereItLooked
  <2> QED BY <1>1, <2>2, <2>3, <2>4 DEF Drive!WriteFile
<1>2. CASE Drive!DeleteFile
  <2>1. driveCall.op = "delete_file"
    BY <1>2 DEF Drive!DeleteFile, Drive!DriveRequest
  <2>2. PICK i \in Drive!ItemsAt(driveCall.path) : Drive!DeleteItem(i)
    BY <1>2 DEF Drive!DeleteFile
  <2>3. \A j \in Drive!There : j # i /\ drive[j].in # i => drive'[j] = drive[j]
    BY <1>0, <2>2 DEF Drive!DeleteItem
  <2>4. Drive!ContentsStay
    BY <1>0, <2>1, <2>3 DEF Drive!ContentsStay
  <2> QED BY <2>1, <2>4 DEF Drive!MovesWhereItLooked
<1>3. CASE Drive!CreateFolder
  BY <1>3, <1>c DEF Drive!CreateFolder, Drive!FolderId
<1>4. CASE Drive!MoveFile
  <2> DEFINE f == driveCall.folder
  <2>1. PICK i \in Drive!ItemsAt(driveCall.path) :
          drive' = [drive EXCEPT ![i].in = f, ![i].name = Drive!NameThere(i)]
    BY <1>4 DEF Drive!MoveFile, Drive!FolderById
  <2> HIDE DEF f
  <2> DEFINE n == Drive!NameThere(i)
  <2>2. i \in DriveIds /\ IsThere(drive, i) /\ drive[i] \in DriveItems
    <3>1. driveCall.path \in Drive!DrivePaths
      BY <1>4, <1>a DEF Drive!MoveFile, Drive!DriveRequest, DriveAnswered, DriveBusy
    <3> QED BY <1>a, <3>1, PathsAre
  <2> HIDE DEF n
  <2>3. /\ \A j \in DriveIds : j # i => drive'[j] = drive[j]
        /\ drive'[i] = [drive[i] EXCEPT !.in = f, !.name = n]
    BY <1>a, <2>1, <2>2 DEF n
  <2>4. drive[i] \in [kind : {"file", "folder"}, in : DriveIds \cup {Root}, name : DriveNames,
                      text : Texts \cup {Nothing}]
    BY <2>2 DEF DriveItems, Drive!Files, Drive!Folders
  <2>5. /\ drive'[i] = [kind |-> drive[i].kind, in |-> f, name |-> n, text |-> drive[i].text]
    BY <2>3, <2>4
  <2>6. drive'[i].in = f /\ drive'[i].text = drive[i].text
    BY <2>5
  <2>7. drive'[i] # Nothing
    <3>1. drive[i].kind \in {"file", "folder"} /\ drive[i].text \in Texts \cup {Nothing}
      BY <2>2 DEF DriveItems, Drive!Files, Drive!Folders
    <3>2. f \in DriveIds /\ n \in DriveNames
      <4>1. f \in Drive!There
        BY <1>4 DEF Drive!MoveFile, Drive!FolderById, f
      <4>2. driveCall.name \in DriveNames \cup {Nothing}
        BY <1>4, <1>a DEF Drive!MoveFile, Drive!DriveRequest, DriveAnswered, DriveBusy
      <4> QED BY <1>0, <2>4, <4>1, <4>2 DEF n, Drive!NameThere
    <3> QED BY <2>5, <3>1, <3>2 DEF Drive!DriveAssumption
  <2>8. Drive!ContentsStay
    BY <1>0, <2>3, <2>6, <2>7 DEF Drive!ContentsStay
  <2>9. Drive!MovesWhereItLooked
    BY <1>0, <2>3, <2>6 DEF Drive!MovesWhereItLooked, f
  <2> QED BY <2>8, <2>9
<1>5. CASE Drive!CopyEnds
  BY <1>5, <1>b, <1>c DEF Drive!CopyEnds
<1>6. CASE Drive!OwnerChanges
  <2>1. driveCall' = driveCall /\ copying' = copying
    BY <1>6 DEF Drive!OwnerChanges
  <2> QED BY <2>1 DEF Drive!ContentsStay, Drive!MovesWhereItLooked
<1>7. ASSUME NEW op, NEW path, NEW dest, NEW name, NEW text, NEW overwrite,
             Drive!BeginDrive(op, path, dest, name, text, overwrite)
      PROVE  UNCHANGED drive
  BY <1>7 DEF Drive!BeginDrive
<1>8. Drive!FindDestination \/ Drive!DriveFails \/ Drive!CopyFile \/ Drive!LookUp \/ Drive!ReadFile
        \/ Drive!Follow \/ Drive!Download \/ Drive!Disable \/ UNCHANGED driveVars
      => UNCHANGED drive
  BY DEF Drive!FindDestination, Drive!DriveFails, Drive!CopyFile, Drive!LookUp, Drive!ReadFile,
         Drive!Follow, Drive!Download, Drive!Disable, driveVars
<1> QED BY <1>b, <1>1, <1>2, <1>3, <1>4, <1>5, <1>6, <1>7, <1>8 DEF Drive!DriveNext

-----------------------------------------------------------------------------
(* To-do lists: what the call knows of the list it will send.                        *)

TodoOps == Todo!ListOps \cup Todo!ReadOps \cup Todo!TaskOps
NamedOps == TodoOps \ {"todo_lists_view", "todo_list_create"}
TodoAnswered == [pc : {"idle"}, answer : Todo!Answers]
TodoAsked == [pc : {"lookup", "send"}, answer : {"none"}, op : TodoOps, target : Todo!Targets,
              task : Tasks \cup {Nothing}, given : Todo!Given, list : Todo!Targets,
              bore : UNION {[s -> Names] : s \in SUBSET ListIds}]

\* The list that was found bore the name that was asked for.
NamesItsList ==
  IF todoCall.target \in Padded THEN todoCall.list = todoCall.target
  ELSE /\ todoCall.list \in DOMAIN todoCall.bore
       /\ IF todoCall.target \in {DefaultName, Nothing} /\ BuiltIn \in DOMAIN todoCall.bore
          THEN todoCall.list = BuiltIn
          ELSE todoCall.bore[todoCall.list] = todoCall.target

TodoState ==
  /\ lists \in Seq(ListIds) /\ BuiltIn \in Todo!ToSet(lists)
  /\ title \in [ListIds -> Names]
  /\ tasks \in [ListIds -> [Tasks -> Todo!Fields \cup {Nothing}]]
TodoCallOK ==
  /\ todoCall \in TodoAnswered \cup TodoAsked
  /\ todoCall.pc # "idle" => Todo!Complete(todoCall.op, todoCall.target, todoCall.task, todoCall.given)
  /\ todoCall.pc = "lookup" => todoCall.target \notin Padded
  /\ todoCall.pc = "send" /\ todoCall.op \in NamedOps => NamesItsList
TodoInv == TodoState /\ TodoCallOK

LEMMA LeastIs ==
  ASSUME NEW S \in SUBSET Nat, S # {}
  PROVE  Todo!Min(S) \in S
<1>1. PICK x \in S : \A y \in S : x =< y
  BY LeastExists
<1> QED BY <1>1, Zenon DEF Todo!Min

\* What is found on a page is on it and is what was looked for.
LEMMA FoundByTitle ==
  ASSUME NEW page \in Seq(ListIds), NEW name
  PROVE  LET found == Todo!FirstOf(page, LAMBDA l : title[l] = name)
         IN found = Nothing \/ (found \in Todo!ToSet(page) /\ title[found] = name)
<1> DEFINE S == {i \in 1 .. Len(page) : title[page[i]] = name}
           i == Todo!SelectInSeq(page, LAMBDA l : title[l] = name)
<1>1. i = IF S # {} THEN Todo!Min(S) ELSE 0
  BY DEF Todo!SelectInSeq
<1>2. S # {} => Todo!Min(S) \in S
  <2>1. S \in SUBSET Nat
    OBVIOUS
  <2> HIDE DEF S
  <2> QED BY <2>1, LeastIs
<1>3. Todo!FirstOf(page, LAMBDA l : title[l] = name) = IF i = 0 THEN Nothing ELSE page[i]
  BY DEF Todo!FirstOf
<1>4. i = 0 \/ (i \in 1 .. Len(page) /\ title[page[i]] = name)
  BY <1>1, <1>2
<1> HIDE DEF i, S
<1>5. CASE i = 0
  BY <1>3, <1>5
<1>6. CASE i # 0
  <2>1. i \in DOMAIN page
    BY <1>4, <1>6
  <2>2. page[i] \in Todo!ToSet(page)
    BY <2>1 DEF Todo!ToSet
  <2> QED BY <1>3, <1>4, <1>6, <2>2
<1> QED BY <1>5, <1>6

LEMMA FoundBuiltIn ==
  ASSUME Todo!TodoAssumption, NEW page \in Seq(ListIds)
  PROVE  LET found == Todo!FirstOf(page, LAMBDA l : l = BuiltIn)
         IN IF BuiltIn \in Todo!ToSet(page) THEN found = BuiltIn ELSE found = Nothing
<1> DEFINE S == {i \in 1 .. Len(page) : page[i] = BuiltIn}
           i == Todo!SelectInSeq(page, LAMBDA l : l = BuiltIn)
<1>1. i = IF S # {} THEN Todo!Min(S) ELSE 0
  BY DEF Todo!SelectInSeq
<1>2. S # {} => Todo!Min(S) \in S
  <2>1. S \in SUBSET Nat
    OBVIOUS
  <2> HIDE DEF S
  <2> QED BY <2>1, LeastIs
<1>3. Todo!FirstOf(page, LAMBDA l : l = BuiltIn) = IF i = 0 THEN Nothing ELSE page[i]
  BY DEF Todo!FirstOf
<1>4. CASE BuiltIn \in Todo!ToSet(page)
  <2>1. S # {}
    BY <1>4 DEF Todo!ToSet
  <2>2. i \in 1 .. Len(page) /\ page[i] = BuiltIn
    BY <1>1, <1>2, <2>1
  <2> HIDE DEF i
  <2> QED BY <1>3, <1>4, <2>2
<1>5. CASE BuiltIn \notin Todo!ToSet(page)
  <2>1. S = {}
    BY <1>5 DEF Todo!ToSet
  <2>2. i = 0
    BY <1>1, <2>1
  <2> HIDE DEF i
  <2> QED BY <1>3, <1>5, <2>2
<1> QED BY <1>4, <1>5

\* The first lists of the answer.
LEMMA PageIs ==
  ASSUME lists \in Seq(ListIds), NEW n \in Nat
  PROVE  /\ Todo!Page(n) \in Seq(ListIds)
         /\ Todo!ToSet(Todo!Page(n)) \subseteq Todo!ToSet(lists)
         /\ Todo!ToSet(Todo!Page(n)) \subseteq ListIds
<1> DEFINE m == IF Len(lists) < n THEN Len(lists) ELSE n
           p == SubSeq(lists, 1, m)
<1>1. m \in 0 .. Len(lists) /\ Todo!Page(n) = p
  BY DEF Todo!Page
<1> HIDE DEF m
<1>2. p \in Seq(ListIds) /\ Len(p) = m /\ \A i \in 1 .. m : p[i] = lists[i] /\ lists[i] \in ListIds
  BY <1>1
<1> HIDE DEF p
<1>3. Todo!ToSet(p) \subseteq Todo!ToSet(lists) /\ Todo!ToSet(p) \subseteq ListIds
  BY <1>1, <1>2 DEF Todo!ToSet
<1> QED BY <1>1, <1>2, <1>3

LEMMA ResolvedIs ==
  ASSUME Todo!TodoAssumption, TodoState, NEW n \in Nat, NEW target, NEW found,
         found = Todo!ResolveListId(Todo!Page(n), target), found # Nothing
  PROVE  /\ found \in Todo!ToSet(Todo!Page(n)) /\ found \in ListIds
         /\ IF target \in {DefaultName, Nothing} /\ BuiltIn \in Todo!ToSet(Todo!Page(n))
            THEN found = BuiltIn ELSE title[found] = target
<1> DEFINE page == Todo!Page(n)
<1>1. page \in Seq(ListIds) /\ Todo!ToSet(page) \subseteq ListIds
  BY PageIs DEF TodoState
<1>2. Nothing # BuiltIn
  BY DEF Todo!TodoAssumption
<1> DEFINE b == Todo!FirstOf(page, LAMBDA l : l = BuiltIn)
           f == Todo!FirstOf(page, LAMBDA l : title[l] = target)
<1>3. found = IF target \in {DefaultName, Nothing} /\ b # Nothing THEN b ELSE f
  BY DEF Todo!ResolveListId
<1>4. IF BuiltIn \in Todo!ToSet(page) THEN b = BuiltIn ELSE b = Nothing
  BY <1>1, FoundBuiltIn
<1>5. f = Nothing \/ (f \in Todo!ToSet(page) /\ title[f] = target)
  BY <1>1, FoundByTitle
<1> HIDE DEF b, f, page
<1>6. /\ found \in Todo!ToSet(page) /\ found \in ListIds
      /\ IF target \in {DefaultName, Nothing} /\ BuiltIn \in Todo!ToSet(page)
         THEN found = BuiltIn ELSE title[found] = target
  BY <1>1, <1>2, <1>3, <1>4, <1>5
<1> QED BY <1>6 DEF page
\* One element more, anywhere, or one less.
LEMMA Appended ==
  ASSUME NEW s \in Seq(ListIds), NEW l \in ListIds
  PROVE  Append(s, l) \in Seq(ListIds) /\ Todo!ToSet(Append(s, l)) = Todo!ToSet(s) \cup {l}
<1>1. /\ Append(s, l) \in Seq(ListIds) /\ Len(Append(s, l)) = Len(s) + 1 /\ Len(s) \in Nat
      /\ Append(s, l)[Len(s) + 1] = l /\ \A i \in 1 .. Len(s) : Append(s, l)[i] = s[i]
      /\ DOMAIN s = 1 .. Len(s) /\ DOMAIN Append(s, l) = 1 .. Len(s) + 1
  OBVIOUS
<1> DEFINE t == Append(s, l)
<1> HIDE DEF t
<1>2. \A x : x \in Todo!ToSet(t) <=> x \in Todo!ToSet(s) \cup {l}
  <2>1. ASSUME NEW x \in Todo!ToSet(s) PROVE x \in Todo!ToSet(t)
    BY <1>1 DEF t, Todo!ToSet
  <2>2. l \in Todo!ToSet(t)
    BY <1>1 DEF t, Todo!ToSet
  <2>3. ASSUME NEW x \in Todo!ToSet(t), x # l PROVE x \in Todo!ToSet(s)
    <3>1. PICK i \in 1 .. Len(s) + 1 : x = t[i]
      BY <1>1 DEF t, Todo!ToSet
    <3>2. i \in 1 .. Len(s)
      BY <1>1, <2>3, <3>1 DEF t
    <3> QED BY <1>1, <3>1, <3>2 DEF t, Todo!ToSet
  <2> QED BY <2>1, <2>2, <2>3
<1> QED BY <1>1, <1>2 DEF t

LEMMA TakenOut ==
  ASSUME NEW s \in Seq(ListIds), NEW i \in DOMAIN s
  PROVE  /\ Todo!RemoveAt(s, i) \in Seq(ListIds)
         /\ Todo!ToSet(Todo!RemoveAt(s, i)) \subseteq Todo!ToSet(s)
         /\ \A x \in Todo!ToSet(s) : x # s[i] => x \in Todo!ToSet(Todo!RemoveAt(s, i))
<1> DEFINE n == Len(s)
           a == SubSeq(s, 1, i - 1)
           b == SubSeq(s, i + 1, Len(s))
           t == a \o b
<1>1. n \in Nat /\ i \in 1 .. n /\ DOMAIN s = 1 .. n /\ \A k \in 1 .. n : s[k] \in ListIds
  OBVIOUS
<1>2. /\ a \in Seq(ListIds) /\ Len(a) = i - 1
      /\ \A k \in 1 .. i - 1 : a[k] = s[k]
  BY <1>1
<1>3. /\ b \in Seq(ListIds) /\ Len(b) = n - i
      /\ \A k \in 1 .. n - i : b[k] = s[k + i]
  BY <1>1
<1> HIDE DEF n, a, b
<1>4. /\ t \in Seq(ListIds) /\ Len(t) = n - 1 /\ DOMAIN t = 1 .. n - 1
      /\ \A k \in 1 .. n - 1 : t[k] = IF k < i THEN s[k] ELSE s[k + 1]
  <2>1. /\ t \in Seq(ListIds) /\ Len(t) = n - 1
        /\ \A k \in 1 .. n - 1 : t[k] = IF k <= i - 1 THEN a[k] ELSE b[k - (i - 1)]
    <3>1. /\ t \in Seq(ListIds) /\ Len(t) = Len(a) + Len(b)
          /\ \A k \in 1 .. Len(a) + Len(b) : t[k] = IF k <= Len(a) THEN a[k] ELSE b[k - Len(a)]
      BY <1>2, <1>3, ConcatProperties
    <3>2. Len(a) + Len(b) = n - 1
      BY <1>1, <1>2, <1>3
    <3> QED BY <1>2, <3>1, <3>2
  <2>2. DOMAIN t = 1 .. n - 1
    BY <2>1
  <2> HIDE DEF t
  <2>3. ASSUME NEW k \in 1 .. n - 1 PROVE t[k] = IF k < i THEN s[k] ELSE s[k + 1]
    <3>1. CASE k < i
      BY <1>1, <1>2, <2>1, <3>1
    <3>2. CASE ~(k < i)
      <4>1. k - (i - 1) \in 1 .. n - i /\ (k - (i - 1)) + i = k + 1
        BY <1>1, <3>2
      <4> DEFINE j == k - (i - 1)
      <4>2. b[j] = s[k + 1]
        <5> HIDE DEF j
        <5>1. j \in 1 .. n - i /\ j + i = k + 1
          BY <4>1 DEF j
        <5> QED BY <1>3, <5>1
      <4>3. t[k] = b[j] /\ ~(k <= i - 1)
        BY <1>1, <2>1, <3>2
      <4> QED BY <3>2, <4>2, <4>3
    <3> QED BY <3>1, <3>2
  <2> QED BY <2>1, <2>2, <2>3
<1>5. Todo!RemoveAt(s, i) = t
  BY DEF Todo!RemoveAt, a, b
<1> HIDE DEF t
<1>6. Todo!ToSet(t) \subseteq Todo!ToSet(s)
  <2>1. ASSUME NEW k \in 1 .. n - 1 PROVE t[k] \in Todo!ToSet(s)
    <3>1. k \in DOMAIN s /\ k + 1 \in DOMAIN s
      BY <1>1
    <3> QED BY <1>4, <3>1 DEF Todo!ToSet
  <2> QED BY <1>4, <2>1 DEF Todo!ToSet
<1>7. ASSUME NEW x \in Todo!ToSet(s), x # s[i] PROVE x \in Todo!ToSet(t)
  <2>1. PICK k \in 1 .. n : x = s[k]
    BY <1>1 DEF Todo!ToSet
  <2>2. CASE k < i
    <3>1. k \in 1 .. n - 1 /\ t[k] = x
      BY <1>1, <1>4, <2>1, <2>2
    <3> QED BY <1>4, <3>1 DEF Todo!ToSet
  <2>3. CASE k > i
    <3>1. k - 1 \in 1 .. n - 1 /\ ~(k - 1 < i) /\ (k - 1) + 1 = k
      BY <1>1, <2>3
    <3>2. t[k - 1] = x
      BY <1>4, <2>1, <3>1
    <3> QED BY <1>4, <3>1, <3>2 DEF Todo!ToSet
  <2> QED BY <1>1, <1>7, <2>1, <2>2, <2>3
<1> QED BY <1>4, <1>5, <1>6, <1>7

LEMMA PutIn ==
  ASSUME NEW s \in Seq(ListIds), NEW i \in 1 .. Len(s) + 1, NEW l \in ListIds
  PROVE  /\ Todo!InsertAt(s, i, l) \in Seq(ListIds)
         /\ Todo!ToSet(s) \subseteq Todo!ToSet(Todo!InsertAt(s, i, l))
<1> DEFINE n == Len(s)
           a == SubSeq(s, 1, i - 1)
           b == SubSeq(s, i, Len(s))
           m == a \o <<l>>
           t == m \o b
<1>1. n \in Nat /\ i \in 1 .. n + 1 /\ DOMAIN s = 1 .. n /\ \A k \in 1 .. n : s[k] \in ListIds
  OBVIOUS
<1>2. /\ a \in Seq(ListIds) /\ Len(a) = i - 1
      /\ \A k \in 1 .. i - 1 : a[k] = s[k]
  BY <1>1
<1>3. /\ b \in Seq(ListIds) /\ Len(b) = n - i + 1
      /\ \A k \in 1 .. n - i + 1 : b[k] = s[k + i - 1]
  BY <1>1
<1> HIDE DEF n, a, b
<1>4. <<l>> \in Seq(ListIds) /\ Len(<<l>>) = 1
  OBVIOUS
<1>5. m \in Seq(ListIds) /\ Len(m) = i /\ \A k \in 1 .. i - 1 : m[k] = s[k]
  BY <1>1, <1>2, <1>4
<1> HIDE DEF m
<1>6. /\ t \in Seq(ListIds) /\ Len(t) = n + 1 /\ DOMAIN t = 1 .. n + 1
      /\ \A k \in 1 .. n + 1 : t[k] = IF k <= i THEN m[k] ELSE b[k - i]
  <2>1. t \in Seq(ListIds) /\ Len(t) = n + 1
        /\ \A k \in 1 .. n + 1 : t[k] = IF k <= i THEN m[k] ELSE b[k - i]
    <3>1. /\ t \in Seq(ListIds) /\ Len(t) = Len(m) + Len(b)
          /\ \A k \in 1 .. Len(m) + Len(b) : t[k] = IF k <= Len(m) THEN m[k] ELSE b[k - Len(m)]
      BY <1>3, <1>5, ConcatProperties
    <3>2. Len(m) + Len(b) = n + 1
      BY <1>1, <1>3, <1>5
    <3> QED BY <1>5, <3>1, <3>2
  <2> QED BY <2>1
<1>7. Todo!InsertAt(s, i, l) = t
  BY DEF Todo!InsertAt, a, b, m
<1> HIDE DEF t
<1>8. ASSUME NEW k \in 1 .. n PROVE s[k] \in Todo!ToSet(t)
  <2>1. CASE k < i
    <3>1. k \in 1 .. n + 1 /\ t[k] = s[k]
      BY <1>1, <1>5, <1>6, <2>1
    <3> QED BY <1>6, <3>1 DEF Todo!ToSet
  <2>2. CASE ~(k < i)
    <3>1. /\ k + 1 \in 1 .. n + 1 /\ ~(k + 1 <= i) /\ (k + 1) - i \in 1 .. n - i + 1
          /\ ((k + 1) - i) + i - 1 = k
      BY <1>1, <2>2
    <3>2. t[k + 1] = s[k]
      BY <1>3, <1>6, <3>1
    <3> QED BY <1>6, <3>1, <3>2 DEF Todo!ToSet
  <2> QED BY <2>1, <2>2
<1>9. Todo!ToSet(s) \subseteq Todo!ToSet(t)
  BY <1>1, <1>8 DEF Todo!ToSet
<1> QED BY <1>6, <1>7, <1>9
LEMMA TodoStart ==
  ASSUME Todo!TodoAssumption, Todo!TodoInit
  PROVE  TodoInv
<1>1. lists = <<BuiltIn>> /\ BuiltIn \in ListIds
  BY DEF Todo!TodoInit, Todo!TodoAssumption
<1>2. lists \in Seq(ListIds) /\ BuiltIn \in Todo!ToSet(lists)
  <2>1. lists \in Seq(ListIds) /\ 1 \in DOMAIN lists /\ lists[1] = BuiltIn
    BY <1>1
  <2> QED BY <2>1 DEF Todo!ToSet
<1>3. title \in [ListIds -> Names]
  BY DEF Todo!TodoInit, Todo!TodoAssumption
<1>4. tasks \in [ListIds -> [Tasks -> Todo!Fields \cup {Nothing}]]
  BY DEF Todo!TodoInit
<1>5. todoCall \in TodoAnswered /\ todoCall.pc = "idle"
  BY DEF Todo!TodoInit, Todo!TodoIdle, TodoAnswered, Todo!Answers
<1> QED BY <1>2, <1>3, <1>4, <1>5 DEF TodoInv, TodoState, TodoCallOK

\* A list that goes, whoever deletes it; all but it keep everything.
LEMMA RemovedIs ==
  ASSUME Todo!TodoAssumption, TodoState, NEW l \in ListIds, l # BuiltIn, Todo!Removed(l)
  PROVE  /\ TodoState'
         /\ \A k \in ListIds \ {l} : /\ (k \in Todo!ToSet(lists))' <=> k \in Todo!ToSet(lists)
                                     /\ title'[k] = title[k] /\ tasks'[k] = tasks[k]
<1>1. PICK i \in DOMAIN lists : lists[i] = l /\ lists' = Todo!RemoveAt(lists, i)
  BY DEF Todo!Removed
<1>2. /\ lists' \in Seq(ListIds) /\ Todo!ToSet(lists') \subseteq Todo!ToSet(lists)
      /\ \A x \in Todo!ToSet(lists) : x # l => x \in Todo!ToSet(lists')
  BY <1>1, TakenOut DEF TodoState
<1>3. title' = [title EXCEPT ![l] = DefaultName] /\ tasks' = [tasks EXCEPT ![l] = [t \in Tasks |-> Nothing]]
  BY DEF Todo!Removed
<1>4. \A k \in ListIds \ {l} : title'[k] = title[k] /\ tasks'[k] = tasks[k]
  BY <1>3 DEF TodoState
<1>5. title' \in [ListIds -> Names] /\ tasks' \in [ListIds -> [Tasks -> Todo!Fields \cup {Nothing}]]
  <2>1. DefaultName \in Names
    BY DEF Todo!TodoAssumption
  <2> QED BY <1>3, <2>1 DEF TodoState
<1>6. Todo!ToSet(lists)' = Todo!ToSet(lists')
  BY DEF Todo!ToSet
<1> QED BY <1>2, <1>4, <1>5, <1>6 DEF TodoState, Todo!Fields
\* The list and the task a request is about, when they are there.
LEMMA TodoSent ==
  ASSUME TodoInv, todoCall.pc = "send"
  PROVE  /\ todoCall \in TodoAsked
         /\ Todo!Exists => todoCall.list \in ListIds
         /\ todoCall.op \in {"todo_task_update", "todo_task_delete"} => todoCall.task \in Tasks
         /\ todoCall.op = "todo_task_create" => todoCall.given.title \in Titles
         /\ todoCall.op = "todo_list_create" => todoCall.target \in Names
<1>1. todoCall \in TodoAsked
  BY DEF TodoInv, TodoCallOK, TodoAnswered, TodoAsked
<1>2. Todo!Complete(todoCall.op, todoCall.target, todoCall.task, todoCall.given)
  BY DEF TodoInv, TodoCallOK
<1>3. Todo!Exists => todoCall.list \in ListIds
  BY DEF TodoInv, TodoState, Todo!Exists, Todo!ToSet
<1>4. todoCall.given \in Todo!Given /\ todoCall.task \in Tasks \cup {Nothing}
  BY <1>1 DEF TodoAsked
<1>5. todoCall.given.title \in Titles \cup {Nothing}
  BY <1>4 DEF Todo!Given
<1> QED BY <1>1, <1>2, <1>3, <1>4, <1>5 DEF Todo!Complete

\* The fields of an updated task: those that were given, and the old ones.
LEMMA UpdatedIs ==
  ASSUME NEW old \in Todo!Fields, NEW given \in Todo!Given
  PROVE  /\ Todo!Updated(old, given) \in Todo!Fields
         /\ \A f \in {"title", "due"} : Todo!Updated(old, given)[f] =
                                        IF given[f] = Nothing THEN old[f] ELSE given[f]
<1> DEFINE u == Todo!Updated(old, given)
<1>1. u = [f \in {"title", "due"} |-> IF given[f] = Nothing THEN old[f] ELSE given[f]]
  BY DEF Todo!Updated
<1>2. \A f \in {"title", "due"} : u[f] = IF given[f] = Nothing THEN old[f] ELSE given[f]
  BY <1>1
<1>3. /\ old["title"] \in Titles /\ old["due"] \in Dues \cup {Nothing}
      /\ given["title"] \in Titles \cup {Nothing} /\ given["due"] \in Dues \cup {Nothing}
  BY DEF Todo!Fields, Todo!Given
<1>4. u = [title |-> u["title"], due |-> u["due"]]
  BY <1>1
<1>5. u["title"] \in Titles /\ u["due"] \in Dues \cup {Nothing}
  BY <1>2, <1>3
<1> HIDE DEF u
<1>6. u \in Todo!Fields
  BY <1>4, <1>5 DEF Todo!Fields
<1> QED BY <1>2, <1>6 DEF u

\* What a request does, and to which list.
SameBut(l) ==
  \A k \in ListIds \ {l} : /\ (k \in Todo!ToSet(lists))' <=> k \in Todo!ToSet(lists)
                           /\ title'[k] = title[k] /\ tasks'[k] = tasks[k]

LEMMA SendStep ==
  ASSUME Todo!TodoAssumption, TodoInv, todoCall.pc = "send",
         Todo!CreateList \/ Todo!DeleteList \/ Todo!CreateTask \/ Todo!UpdateTask
           \/ Todo!DeleteTask \/ Todo!ReadTodo
  PROVE  /\ TodoState'
         /\ todoCall.op # "todo_list_create" => SameBut(todoCall.list)
<1> DEFINE c == todoCall
<1>a. /\ c \in TodoAsked
      /\ Todo!Exists => c.list \in ListIds
      /\ c.op \in {"todo_task_update", "todo_task_delete"} => c.task \in Tasks
      /\ c.op = "todo_task_create" => c.given.title \in Titles
      /\ c.op = "todo_list_create" => c.target \in Names
  BY TodoSent
<1>b. /\ lists \in Seq(ListIds) /\ BuiltIn \in Todo!ToSet(lists)
      /\ title \in [ListIds -> Names]
      /\ tasks \in [ListIds -> [Tasks -> Todo!Fields \cup {Nothing}]]
  BY DEF TodoInv, TodoState
<1>c. ASSUME UNCHANGED <<lists, title>>, NEW l \in ListIds, NEW ts \in [Tasks -> Todo!Fields \cup {Nothing}],
             tasks' = [tasks EXCEPT ![l] = ts]
      PROVE  TodoState' /\ SameBut(l)
  <2>1. /\ tasks' \in [ListIds -> [Tasks -> Todo!Fields \cup {Nothing}]]
        /\ \A k \in ListIds \ {l} : tasks'[k] = tasks[k]
    BY <1>b, <1>c
  <2>2. Todo!ToSet(lists)' = Todo!ToSet(lists)
    BY <1>c DEF Todo!ToSet
  <2> QED BY <1>b, <1>c, <2>1, <2>2 DEF TodoState, SameBut, Todo!Fields
<1>1. CASE Todo!CreateList
  <2>1. PICK l \in ListIds \ Todo!ToSet(lists) :
          lists' = Append(lists, l) /\ title' = [title EXCEPT ![l] = c.target]
    BY <1>1 DEF Todo!CreateList
  <2>2. c.op = "todo_list_create" /\ tasks' = tasks
    BY <1>1 DEF Todo!CreateList
  <2>3. lists' \in Seq(ListIds) /\ Todo!ToSet(lists') = Todo!ToSet(lists) \cup {l}
    BY <1>b, <2>1, Appended
  <2>4. title' \in [ListIds -> Names]
    BY <1>a, <1>b, <2>1, <2>2
  <2>5. Todo!ToSet(lists)' = Todo!ToSet(lists')
    BY DEF Todo!ToSet
  <2>6. tasks' \in [ListIds -> [Tasks -> Todo!Fields \cup {Nothing}]]
    BY <1>b, <2>2
  <2>7. TodoState'
    BY <1>b, <2>3, <2>4, <2>5, <2>6 DEF TodoState, Todo!Fields
  <2> QED BY <2>2, <2>7
<1>2. CASE Todo!DeleteList
  <2>1. c.list \in ListIds /\ c.list # BuiltIn /\ Todo!Removed(c.list)
    BY <1>2, <1>a DEF Todo!DeleteList
  <2> HIDE DEF c
  <2>2. TodoState
    BY <1>b DEF TodoState
  <2>3. TodoState' /\ SameBut(c.list)
    BY <2>1, <2>2, RemovedIs DEF SameBut
  <2> QED BY <2>3 DEF c
<1>3. CASE Todo!CreateTask
  <2>1. PICK t \in Tasks : tasks' = [tasks EXCEPT ![c.list][t] = [title |-> c.given.title, due |-> c.given.due]]
    BY <1>3 DEF Todo!CreateTask
  <2>2. c.list \in ListIds /\ c.op = "todo_task_create" /\ UNCHANGED <<lists, title>>
    BY <1>3, <1>a DEF Todo!CreateTask
  <2>3. c.given \in Todo!Given
    BY <1>a DEF TodoAsked
  <2>4. [title |-> c.given.title, due |-> c.given.due] \in Todo!Fields
    BY <1>a, <2>2, <2>3 DEF Todo!Given, Todo!Fields
  <2> DEFINE ts == [tasks[c.list] EXCEPT ![t] = [title |-> c.given.title, due |-> c.given.due]]
  <2>5. ts \in [Tasks -> Todo!Fields \cup {Nothing}] /\ tasks' = [tasks EXCEPT ![c.list] = ts]
    BY <1>b, <2>1, <2>2, <2>4
  <2> HIDE DEF ts, c
  <2>9. TodoState' /\ SameBut(c.list)
    BY <1>c, <2>2, <2>5 DEF SameBut
  <2> QED BY <2>9 DEF c
<1>4. CASE Todo!UpdateTask
  <2>1. /\ c.op = "todo_task_update" /\ c.list \in ListIds /\ c.task \in Tasks
        /\ UNCHANGED <<lists, title>> /\ tasks[c.list][c.task] # Nothing
        /\ tasks' = [tasks EXCEPT ![c.list][c.task] = Todo!Updated(@, c.given)]
    BY <1>4, <1>a DEF Todo!UpdateTask, Todo!TaskThere
  <2> DEFINE u == Todo!Updated(tasks[c.list][c.task], c.given)
             ts == [tasks[c.list] EXCEPT ![c.task] = u]
  <2>2. u \in Todo!Fields
    <3>1. c.given \in Todo!Given
      BY <1>a DEF TodoAsked
    <3>2. tasks[c.list][c.task] \in Todo!Fields
      BY <1>b, <2>1
    <3> QED BY <3>1, <3>2, UpdatedIs
  <2>3. tasks' = [tasks EXCEPT ![c.list] = ts]
    BY <1>b, <2>1
  <2>4. ts \in [Tasks -> Todo!Fields \cup {Nothing}]
    <3> HIDE DEF u
    <3> QED BY <1>b, <2>1, <2>2
  <2> HIDE DEF ts, c
  <2>9. TodoState' /\ SameBut(c.list)
    BY <1>c, <2>1, <2>3, <2>4 DEF SameBut
  <2> QED BY <2>9 DEF c
<1>5. CASE Todo!DeleteTask
  <2>1. /\ c.op = "todo_task_delete" /\ c.list \in ListIds /\ c.task \in Tasks
        /\ UNCHANGED <<lists, title>> /\ tasks' = [tasks EXCEPT ![c.list][c.task] = Nothing]
    BY <1>5, <1>a DEF Todo!DeleteTask, Todo!TaskThere
  <2> DEFINE ts == [tasks[c.list] EXCEPT ![c.task] = Nothing]
  <2>2. ts \in [Tasks -> Todo!Fields \cup {Nothing}] /\ tasks' = [tasks EXCEPT ![c.list] = ts]
    BY <1>b, <2>1
  <2> HIDE DEF ts, c
  <2>9. TodoState' /\ SameBut(c.list)
    BY <1>c, <2>1, <2>2 DEF SameBut
  <2> QED BY <2>9 DEF c
<1>6. CASE Todo!ReadTodo
  <2>1. UNCHANGED <<lists, title, tasks>>
    BY <1>6 DEF Todo!ReadTodo
  <2>2. Todo!ToSet(lists)' = Todo!ToSet(lists)
    BY <2>1 DEF Todo!ToSet
  <2> QED BY <1>b, <2>1, <2>2 DEF TodoState, SameBut, Todo!Fields
<1> QED BY <1>1, <1>2, <1>3, <1>4, <1>5, <1>6
LEMMA TodoStateStep ==
  ASSUME Todo!TodoAssumption, TodoInv, [Todo!TodoNext]_todoVars
  PROVE  TodoState'
<1>1. CASE UNCHANGED <<lists, title, tasks>>
  BY <1>1 DEF TodoInv, TodoState, Todo!ToSet, Todo!Fields
<1>2. ASSUME NEW op, NEW target, NEW task, NEW given, Todo!BeginTodo(op, target, task, given)
      PROVE  UNCHANGED <<lists, title, tasks>>
  BY <1>2 DEF Todo!BeginTodo
<1>3. Todo!Lookup \/ UNCHANGED todoVars => UNCHANGED <<lists, title, tasks>>
  BY DEF Todo!Lookup, todoVars
<1>4. CASE Todo!Send
  <2>1. todoCall.pc = "send"
    BY <1>4 DEF Todo!Send
  <2>2. CASE Todo!CreateList \/ Todo!DeleteList \/ Todo!CreateTask \/ Todo!UpdateTask
               \/ Todo!DeleteTask \/ Todo!ReadTodo
    BY <2>1, <2>2, SendStep
  <2> QED BY <1>1, <1>4, <2>2 DEF Todo!Send
<1>5. CASE Todo!OwnerRenames
  <2>1. /\ UNCHANGED <<lists, tasks>>
        /\ title' \in [ListIds -> Names]
    BY <1>5 DEF Todo!OwnerRenames, TodoInv, TodoState
  <2> QED BY <2>1 DEF TodoInv, TodoState, Todo!ToSet, Todo!Fields
<1>6. CASE Todo!OwnerDeletes
  <2>1. PICK l \in Todo!ToSet(lists) \ {BuiltIn} : Todo!Removed(l)
    BY <1>6 DEF Todo!OwnerDeletes
  <2>2. l \in ListIds
    BY DEF TodoInv, TodoState, Todo!ToSet
  <2> QED BY <2>1, <2>2, RemovedIs DEF TodoInv
<1>7. CASE Todo!OwnerAdds
  <2>1. PICK l \in ListIds \ Todo!ToSet(lists), i \in 1 .. Len(lists) + 1, n \in Names :
          lists' = Todo!InsertAt(lists, i, l) /\ title' = [title EXCEPT ![l] = n]
    BY <1>7 DEF Todo!OwnerAdds
  <2>2. tasks' = tasks
    BY <1>7 DEF Todo!OwnerAdds
  <2>3. lists' \in Seq(ListIds) /\ Todo!ToSet(lists) \subseteq Todo!ToSet(lists')
    BY <2>1, PutIn DEF TodoInv, TodoState
  <2>4. title' \in [ListIds -> Names]
    BY <2>1 DEF TodoInv, TodoState
  <2>5. Todo!ToSet(lists)' = Todo!ToSet(lists')
    BY DEF Todo!ToSet
  <2> QED BY <2>2, <2>3, <2>4, <2>5 DEF TodoInv, TodoState, Todo!Fields
<1> QED BY <1>1, <1>2, <1>3, <1>4, <1>5, <1>6, <1>7 DEF Todo!TodoNext

\* A call that has its answer asks for nothing.
LEMMA TodoAnswer ==
  ASSUME NEW told \in Todo!Answers, todoCall' = Todo!TodoIdle(told)
  PROVE  TodoCallOK'
<1>1. todoCall' = [pc |-> "idle", answer |-> told]
  BY DEF Todo!TodoIdle
<1>2. todoCall' \in TodoAnswered /\ todoCall'.pc = "idle"
  BY <1>1 DEF TodoAnswered
<1>3. (todoCall \in TodoAnswered \cup TodoAsked)'
  BY <1>2 DEF TodoAnswered, TodoAsked, TodoOps, Todo!ListOps, Todo!ReadOps, Todo!TaskOps,
              Todo!Targets, Todo!Given, Todo!Answers
<1> QED BY <1>2, <1>3 DEF TodoCallOK

\* The call keeps its form, and what it found is what was asked for.
LEMMA TodoCallStep ==
  ASSUME Todo!TodoAssumption, TodoInv, [Todo!TodoNext]_todoVars
  PROVE  TodoCallOK'
<1>a. /\ TodoCallOK /\ TodoState
      /\ todoCall.pc \in {"lookup", "send"} => todoCall \in TodoAsked
  BY DEF TodoInv, TodoCallOK, TodoAnswered, TodoAsked
<1>b. ASSUME todoCall' \in TodoAsked PROVE (todoCall \in TodoAnswered \cup TodoAsked)'
  BY <1>b DEF TodoAnswered, TodoAsked, TodoOps, Todo!ListOps, Todo!ReadOps, Todo!TaskOps,
              Todo!Targets, Todo!Given, Todo!Answers
<1>1. CASE UNCHANGED todoCall
  BY <1>1, <1>a DEF TodoCallOK, TodoAnswered, TodoAsked, TodoOps, Todo!ListOps, Todo!ReadOps,
                    Todo!TaskOps, Todo!Targets, Todo!Given, Todo!Answers, NamesItsList, NamedOps,
                    Todo!Complete
<1>2. ASSUME NEW op \in TodoOps, NEW target \in Todo!Targets, NEW task \in Tasks \cup {Nothing},
             NEW given \in Todo!Given, Todo!BeginTodo(op, target, task, given)
      PROVE  TodoCallOK'
  <2> DEFINE byName == op \notin {"todo_lists_view", "todo_list_create"} /\ target \notin Padded
             r == [pc |-> IF byName THEN "lookup" ELSE "send", answer |-> "none", op |-> op,
                   target |-> target, task |-> task, given |-> given,
                   list |-> IF byName THEN Nothing ELSE target, bore |-> [l \in {} |-> Nothing]]
  <2>1. todoCall' = IF Todo!Complete(op, target, task, given) THEN r ELSE Todo!TodoIdle("incomplete")
    BY <1>2 DEF Todo!BeginTodo
  <2>2. CASE ~Todo!Complete(op, target, task, given)
    <3>1. "incomplete" \in Todo!Answers
      BY DEF Todo!Answers
    <3> QED BY <2>1, <2>2, <3>1, TodoAnswer
  <2>3. CASE Todo!Complete(op, target, task, given)
    <3>1. todoCall' = r
      BY <2>1, <2>3
    <3>2. [l \in {} |-> Nothing] \in [{} -> Names]
      OBVIOUS
    <3>3. /\ (IF byName THEN Nothing ELSE target) \in Todo!Targets
          /\ (IF byName THEN "lookup" ELSE "send") \in {"lookup", "send"}
          /\ [l \in {} |-> Nothing] \in UNION {[s -> Names] : s \in SUBSET ListIds}
      BY <3>2 DEF Todo!Targets
    <3>4. r \in TodoAsked
      <4> DEFINE p == IF byName THEN "lookup" ELSE "send"
                 l0 == IF byName THEN Nothing ELSE target
                 b0 == [l \in {} |-> Nothing]
                 q == [pc |-> p, answer |-> "none", op |-> op, target |-> target, task |-> task,
                       given |-> given, list |-> l0, bore |-> b0]
      <4>1. p \in {"lookup", "send"} /\ l0 \in Todo!Targets
            /\ b0 \in UNION {[s -> Names] : s \in SUBSET ListIds}
        BY <3>3
      <4>2. r = q
        OBVIOUS
      <4> HIDE DEF p, l0, b0, r, byName
      <4>3. q \in TodoAsked
        BY <4>1 DEF TodoAsked
      <4> QED BY <4>2, <4>3
    <3>5. todoCall'.pc = "send" /\ todoCall'.op \in NamedOps
            => todoCall'.target \in Padded /\ todoCall'.list = todoCall'.target
      BY <3>1 DEF NamedOps
    <3>6. /\ todoCall'.op = op /\ todoCall'.target = target /\ todoCall'.task = task
          /\ todoCall'.given = given
      BY <3>1
    <3> HIDE DEF r
    <3>7. (todoCall \in TodoAnswered \cup TodoAsked)'
      BY <1>b, <3>1, <3>4
    <3>8. (todoCall.pc # "idle"
            => Todo!Complete(todoCall.op, todoCall.target, todoCall.task, todoCall.given))'
      BY <2>3, <3>6 DEF Todo!Complete
    <3>9. (todoCall.pc = "send" /\ todoCall.op \in NamedOps => NamesItsList)'
      BY <3>5 DEF NamesItsList, NamedOps, TodoOps, Todo!ListOps, Todo!ReadOps, Todo!TaskOps
    <3>10. (todoCall.pc = "lookup" => todoCall.target \notin Padded)'
      BY <3>1 DEF r
    <3> QED BY <3>7, <3>8, <3>9, <3>10 DEF TodoCallOK
  <2> QED BY <2>2, <2>3
<1>3. CASE Todo!Lookup
  <2>1. todoCall \in TodoAsked /\ todoCall.pc = "lookup"
    BY <1>3, <1>a DEF Todo!Lookup
  <2>2. ASSUME NEW told \in Todo!Failures, todoCall' = Todo!TodoIdle(told) PROVE TodoCallOK'
    BY <2>2, TodoAnswer DEF Todo!Failures, Todo!Answers
  <2>3. ASSUME NEW n \in FirstPages,
               LET found == Todo!ResolveListId(Todo!Page(n), todoCall.target) IN
               todoCall' = IF found = Nothing THEN Todo!TodoIdle("not_found")
                           ELSE [todoCall EXCEPT !.pc = "send", !.list = found,
                                  !.bore = [l \in Todo!ToSet(Todo!Page(n)) |-> title[l]]]
        PROVE  TodoCallOK'
    <3> DEFINE found == Todo!ResolveListId(Todo!Page(n), todoCall.target)
               page == Todo!ToSet(Todo!Page(n))
               b == [l \in page |-> title[l]]
    <3>1. n \in Nat
      BY DEF Todo!TodoAssumption
    <3>2. CASE found = Nothing
      <4>1. "not_found" \in Todo!Answers
        BY DEF Todo!Answers
      <4>2. todoCall' = Todo!TodoIdle("not_found")
        BY <2>3, <3>2
      <4> QED BY <4>1, <4>2, TodoAnswer
    <3>3. CASE found # Nothing
      <4>1. todoCall' = [todoCall EXCEPT !.pc = "send", !.list = found, !.bore = b]
        BY <2>3, <3>3
      <4>2. /\ found \in page /\ found \in ListIds
            /\ IF todoCall.target \in {DefaultName, Nothing} /\ BuiltIn \in page
               THEN found = BuiltIn ELSE title[found] = todoCall.target
        BY <1>a, <3>1, <3>3, ResolvedIs
      <4>3. page \subseteq ListIds
        BY <1>a, <3>1, PageIs DEF TodoState
      <4> HIDE DEF found, page
      <4>4. b \in UNION {[s -> Names] : s \in SUBSET ListIds} /\ DOMAIN b = page /\ b[found] = title[found]
        BY <1>a, <4>2, <4>3 DEF TodoState
      <4> HIDE DEF b
      <4>5. /\ todoCall' \in TodoAsked /\ todoCall'.list = found /\ todoCall'.bore = b
            /\ todoCall'.op = todoCall.op /\ todoCall'.target = todoCall.target
            /\ todoCall'.task = todoCall.task /\ todoCall'.given = todoCall.given
        BY <2>1, <4>1, <4>2, <4>4 DEF TodoAsked, Todo!Targets
      <4>6. (todoCall \in TodoAnswered \cup TodoAsked)'
        BY <1>b, <4>5
      <4>7. (todoCall.pc # "idle"
              => Todo!Complete(todoCall.op, todoCall.target, todoCall.task, todoCall.given))'
        BY <1>a, <2>1, <4>5 DEF TodoCallOK, Todo!Complete
      <4>8. (todoCall.pc = "send" /\ todoCall.op \in NamedOps => NamesItsList)'
        <5>1. todoCall'.target \notin Padded
          BY <1>a, <2>1, <4>5 DEF TodoCallOK
        <5> QED BY <4>2, <4>4, <4>5, <5>1 DEF NamesItsList
      <4>9. todoCall'.pc = "send"
        BY <2>1, <4>1 DEF TodoAsked
      <4> QED BY <4>6, <4>7, <4>8, <4>9 DEF TodoCallOK
    <3> QED BY <3>2, <3>3
  <2> QED BY <1>3, <2>2, <2>3 DEF Todo!Lookup
<1>4. CASE Todo!Send
  <2>1. \E told \in Todo!Answers : todoCall' = Todo!TodoIdle(told)
    BY <1>4 DEF Todo!Send, Todo!Answers, Todo!Failures
  <2> QED BY <2>1, TodoAnswer
<1>5. Todo!OwnerRenames \/ Todo!OwnerDeletes \/ Todo!OwnerAdds \/ UNCHANGED todoVars
      => UNCHANGED todoCall
  BY DEF Todo!OwnerRenames, Todo!OwnerDeletes, Todo!OwnerAdds, todoVars
<1>6. (\E op \in Todo!ListOps \cup Todo!ReadOps \cup Todo!TaskOps, target \in Todo!Targets,
          task \in Tasks \cup {Nothing}, given \in Todo!Given : Todo!BeginTodo(op, target, task, given))
      => TodoCallOK'
  BY <1>2 DEF TodoOps
<1> QED BY <1>1, <1>3, <1>4, <1>5, <1>6 DEF Todo!TodoNext
LEMMA TodoHolds ==
  ASSUME Todo!TodoAssumption, TodoInv, [Todo!TodoNext]_todoVars
  PROVE  TodoInv'
BY TodoStateStep, TodoCallStep DEF TodoInv

LEMMA TodoTyped == ASSUME TodoInv PROVE Todo!TodoTypeOK
<1>1. /\ todoCall.pc \in {"idle", "lookup", "send"}
      /\ todoCall.answer \in Todo!Answers
      /\ todoCall.pc # "idle" => todoCall.op \in Todo!ListOps \cup Todo!ReadOps \cup Todo!TaskOps
  BY DEF TodoInv, TodoCallOK, TodoAnswered, TodoAsked, TodoOps, Todo!Answers
<1> QED BY <1>1 DEF TodoInv, TodoState, Todo!TodoTypeOK

\* A request changes the list it names, and of a task the fields it was given.
LEMMA TodoEffects ==
  ASSUME Todo!TodoAssumption, TodoInv, [Todo!TodoNext]_todoVars
  PROVE  Todo!TouchesTheNamedList
<1> SUFFICES ASSUME todoCall.pc = "send", todoCall' # todoCall, todoCall.op # "todo_list_create",
                    NEW l \in ListIds, Todo!Contents(l)' # Todo!Contents(l)
             PROVE  /\ l = todoCall.list
                    /\ CASE todoCall.target \in Padded -> l = todoCall.target
                         [] todoCall.target \in {DefaultName, Nothing} /\ BuiltIn \in DOMAIN todoCall.bore ->
                              l = BuiltIn
                         [] OTHER -> todoCall.bore[l] = todoCall.target
                    /\ todoCall.op = "todo_task_update" =>
                         \A t \in Tasks : tasks'[l][t] # tasks[l][t] =>
                           /\ t = todoCall.task
                           /\ \A f \in {"title", "due"} :
                                tasks'[l][t][f] = IF todoCall.given[f] = Nothing THEN tasks[l][t][f]
                                                  ELSE todoCall.given[f]
  BY DEF Todo!TouchesTheNamedList
<1>0. todoCall \in TodoAsked
  BY TodoSent
<1>a. ASSUME UNCHANGED <<lists, title, tasks>> PROVE FALSE
  BY <1>a DEF Todo!Contents, Todo!ToSet
<1>1. /\ Todo!Send
      /\ \/ Todo!DeleteList \/ Todo!CreateTask \/ Todo!UpdateTask \/ Todo!DeleteTask
  <2>1. Todo!Send
    BY DEF Todo!TodoNext, Todo!BeginTodo, Todo!Lookup, Todo!OwnerRenames, Todo!OwnerDeletes,
           Todo!OwnerAdds, todoVars
  <2>2. ~Todo!CreateList
    BY DEF Todo!CreateList
  <2>3. ~Todo!ReadTodo
    BY <1>a DEF Todo!ReadTodo
  <2> QED BY <1>a, <2>1, <2>2, <2>3 DEF Todo!Send
<1>2. l = todoCall.list
  <2>1. SameBut(todoCall.list)
    BY <1>1, SendStep
  <2>2. SUFFICES ASSUME l # todoCall.list PROVE FALSE
    OBVIOUS
  <2>3. /\ (l \in Todo!ToSet(lists))' <=> l \in Todo!ToSet(lists)
        /\ title'[l] = title[l] /\ tasks'[l] = tasks[l]
    BY <2>1, <2>2, Zenon DEF SameBut
  <2>4. (l \in Todo!ToSet(lists))' = (l \in Todo!ToSet(lists))
    BY <2>3
  <2>5. Todo!Contents(l)' = Todo!Contents(l)
    BY <2>3, <2>4, Zenon DEF Todo!Contents
  <2> QED BY <2>5
<1>3. todoCall.op \in NamedOps
  BY <1>0, <1>1 DEF TodoAsked, NamedOps, Todo!DeleteList, Todo!CreateTask, Todo!UpdateTask, Todo!DeleteTask
<1>4. NamesItsList
  BY <1>3 DEF TodoInv, TodoCallOK
<1>5. ASSUME todoCall.op = "todo_task_update", NEW t \in Tasks, tasks'[l][t] # tasks[l][t]
      PROVE  /\ t = todoCall.task
             /\ \A f \in {"title", "due"} :
                  tasks'[l][t][f] = IF todoCall.given[f] = Nothing THEN tasks[l][t][f]
                                    ELSE todoCall.given[f]
  <2>1. Todo!UpdateTask
    BY <1>1, <1>5 DEF Todo!DeleteList, Todo!CreateTask, Todo!DeleteTask
  <2> DEFINE old == tasks[l][todoCall.task]
             u == Todo!Updated(old, todoCall.given)
  <2>2. old # Nothing /\ tasks' = [tasks EXCEPT ![l][todoCall.task] = u]
    BY <1>2, <2>1 DEF Todo!UpdateTask, Todo!TaskThere, TodoInv, TodoState
  <2>3. tasks \in [ListIds -> [Tasks -> Todo!Fields \cup {Nothing}]]
    BY DEF TodoInv, TodoState
  <2>4. todoCall.task \in Tasks
    BY <1>5, TodoSent
  <2>5. todoCall.given \in Todo!Given
    BY <1>0 DEF TodoAsked
  <2>6. \A f \in {"title", "due"} : u[f] = IF todoCall.given[f] = Nothing THEN old[f] ELSE todoCall.given[f]
    BY <2>2, <2>3, <2>4, <2>5, UpdatedIs
  <2> HIDE DEF u
  <2>7. t = todoCall.task
    BY <1>5, <2>2, <2>3
  <2>8. tasks'[l][t] = u
    BY <2>2, <2>3, <2>4, <2>7
  <2> QED BY <2>6, <2>7, <2>8
<1>6. CASE todoCall.target \in Padded
  <2>1. l = todoCall.target
    BY <1>2, <1>4, <1>6 DEF NamesItsList
  <2>2. todoCall.target \notin {DefaultName, Nothing}
    BY <1>6 DEF Todo!TodoAssumption
  <2> QED BY <1>2, <1>5, <1>6, <2>1, <2>2
<1>7. CASE todoCall.target \notin Padded
  BY <1>2, <1>4, <1>5, <1>7 DEF NamesItsList
<1> QED BY <1>6, <1>7

-----------------------------------------------------------------------------
(* Saved mails: the call, the files, the list of what was done, the quota.           *)

SaveFields == {"op", "pc", "store", "asked", "text", "todo", "batch", "item", "refs", "clean", "errors",
               "processed", "usage", "budget", "chunk", "loaded", "status"}
ItemsOf(l) == 1 .. Len(MailItems[l])
\* What a call with the texts or without them wants of a mail: of its first n items these.
Wants(l, i, text) == IF i = 1 THEN text ELSE MailItems[l][i].content
WantedIn(l, n, text) == {i \in 1 .. n : Wants(l, i, text)}
Attachments == {a \in Letters \X Nat : a[2] \in ItemsOf(a[1])}

\* A call: what it is to fetch, the mail and the item it is at, and what it may still use.
SaveCallOK(r) ==
  /\ DOMAIN r = SaveFields
  /\ r.op \in {"none", "save", "specific"} /\ (r.op = "none" <=> r.pc = "idle")
  /\ r.op = "none" => r = Saves!IdleSave
  /\ r.pc \in {"idle", "fetching", "mails", "items", "uploading", "done"}
  /\ r.op = "save" => /\ r.asked \subseteq Letters
                      /\ r.todo \in Seq(Letters) /\ r.batch \in Seq(Letters)
  /\ r.op = "specific" => r.todo = <<>> /\ r.batch \in Seq(Attachments)
  /\ r.pc = "fetching" => r.batch = <<>>
  /\ r.pc \in {"items", "uploading"} => r.batch # <<>>
  /\ r.item \in Nat \ {0}
  /\ r.pc = "items" /\ r.op = "save" => r.item <= Len(MailItems[r.batch[1]]) + 1
  /\ r.pc = "uploading" /\ r.op = "save" => /\ r.item <= Len(MailItems[r.batch[1]])
                                            /\ Wants(r.batch[1], r.item, r.text)
  /\ r.text \in BOOLEAN
  /\ r.usage \in Nat /\ r.budget \in 0 .. RequestBudget /\ r.chunk \in 0 .. Chunks - 1
  /\ r.clean \in BOOLEAN /\ r.errors \in BOOLEAN /\ (~r.clean => r.errors)
  /\ r.processed \in Nat
  /\ r.status \in {"none", "success", "partial", "error", "quota_exceeded", "auth_required"}
  /\ r.status # "none" => r.pc = "done"
  /\ r.status = "success" => ~r.errors /\ r.todo = <<>> /\ r.batch = <<>>

\* The files are finitely many, each with the content of an item.
FilesTyped ==
  /\ IsFiniteSet(DOMAIN files)
  /\ \A at \in DOMAIN files : /\ at[1] \in {"local", "onedrive"} /\ files[at][1] \in Letters
                              /\ files[at][2] \in ItemsOf(files[at][1])

SaveTyped ==
  /\ legacy \in BOOLEAN /\ crowded \in BOOLEAN /\ FilesTyped
  /\ DOMAIN record = Letters /\ DOMAIN fileCall = SaveCalls
  /\ \A c \in SaveCalls :
       /\ SaveCallOK(fileCall[c])
       /\ legacy /\ fileCall[c].op = "save" /\ fileCall[c].pc # "done" => DOMAIN fileCall[c].loaded = Letters

LEMMA SaveConstants ==
  ASSUME Saves!FilesAssumption
  PROVE  /\ \A l \in Letters : /\ Len(MailItems[l]) \in Nat \ {0} /\ DOMAIN MailItems[l] = ItemsOf(l)
                               /\ \A i \in ItemsOf(l) : MailItems[l][i].size \in Nat
         /\ FetchSize \in Nat \ {0} /\ RequestBudget \in Nat \ {0} /\ Chunks \in Nat \ {0}
         /\ Quota \in Nat \ {0} /\ MaxNumber \in Nat /\ IsFiniteSet(Letters)
<1>1. ASSUME NEW l \in Letters
      PROVE  /\ Len(MailItems[l]) \in Nat \ {0} /\ DOMAIN MailItems[l] = ItemsOf(l)
             /\ \A i \in ItemsOf(l) : MailItems[l][i].size \in Nat
  <2>1. MailItems[l] \in Seq([name : STRING, size : Nat, content : BOOLEAN]) /\ MailItems[l] # <<>>
    BY DEF Saves!FilesAssumption
  <2>2. Len(MailItems[l]) \in Nat \ {0} /\ DOMAIN MailItems[l] = 1 .. Len(MailItems[l])
    BY <2>1, EmptySeq
  <2>3. \A i \in 1 .. Len(MailItems[l]) : MailItems[l][i] \in [name : STRING, size : Nat, content : BOOLEAN]
    BY <2>1, ElementOfSeq
  <2> QED BY <2>2, <2>3 DEF ItemsOf
<1>2. /\ FetchSize \in Nat \ {0} /\ RequestBudget \in Nat \ {0} /\ Chunks \in Nat \ {0}
      /\ Quota \in Nat \ {0} /\ MaxNumber \in Nat /\ IsFiniteSet(Letters)
  BY DEF Saves!FilesAssumption, Saves!IsFiniteSet, IsFiniteSet
<1> QED BY <1>1, <1>2

\* What a merge of records holds, and so what an update of a call leaves.
LEMMA Merged ==
  ASSUME NEW f, NEW g
  PROVE  /\ DOMAIN Saves!++(f, g) = DOMAIN f \cup DOMAIN g
         /\ \A k \in DOMAIN f : Saves!++(f, g)[k] = f[k]
         /\ \A k \in DOMAIN g : k \notin DOMAIN f => Saves!++(f, g)[k] = g[k]
BY DEF Saves!++

LEMMA UpdIs ==
  ASSUME SaveTyped, NEW c \in SaveCalls, NEW fields, DOMAIN fields \subseteq SaveFields,
         Saves!Upd(c, fields)
  PROVE  /\ DOMAIN fileCall' = SaveCalls /\ \A d \in SaveCalls \ {c} : fileCall'[d] = fileCall[d]
         /\ DOMAIN fileCall'[c] = SaveFields
         /\ \A k \in DOMAIN fields : fileCall'[c][k] = fields[k]
         /\ \A k \in SaveFields \ DOMAIN fields : fileCall'[c][k] = fileCall[c][k]
<1> DEFINE new == Saves!++(fields, fileCall[c])
<1>1. fileCall' = [fileCall EXCEPT ![c] = new]
  BY DEF Saves!Upd
<1>2. DOMAIN fileCall = SaveCalls /\ DOMAIN fileCall[c] = SaveFields
  BY DEF SaveTyped, SaveCallOK
<1>3. /\ DOMAIN new = SaveFields /\ \A k \in DOMAIN fields : new[k] = fields[k]
      /\ \A k \in SaveFields \ DOMAIN fields : new[k] = fileCall[c][k]
  <2>1. /\ DOMAIN new = DOMAIN fields \cup DOMAIN fileCall[c]
        /\ \A k \in DOMAIN fields : new[k] = fields[k]
        /\ \A k \in DOMAIN fileCall[c] : k \notin DOMAIN fields => new[k] = fileCall[c][k]
    BY Merged
  <2> QED BY <1>2, <2>1
<1> HIDE DEF new
<1> QED BY <1>1, <1>2, <1>3

\* The item a call is at.
LEMMA ItemIs ==
  ASSUME Saves!FilesAssumption, SaveTyped, NEW c \in SaveCalls,
         Saves!AtItem(c) \/ fileCall[c].pc = "uploading"
  PROVE  /\ fileCall[c].op \in {"save", "specific"} /\ fileCall[c].batch # <<>>
         /\ fileCall[c].pc \in {"items", "uploading"}
         /\ Saves!Letter(c) \in Letters /\ Saves!Item(c) \in ItemsOf(Saves!Letter(c))
         /\ Saves!ItemHere(c).size \in Nat
         /\ fileCall[c].op = "save" => /\ Saves!Letter(c) = fileCall[c].batch[1]
                                       /\ Saves!Item(c) = fileCall[c].item
<1> DEFINE r == fileCall[c]
<1>1. SaveCallOK(r) /\ r.pc \in {"items", "uploading"}
  BY DEF SaveTyped, Saves!AtItem, Saves!In
<1>2. r.op \in {"save", "specific"} /\ r.batch # <<>>
  BY <1>1 DEF SaveCallOK
<1>3. CASE r.op = "specific"
  <2>1. r.batch \in Seq(Attachments)
    BY <1>1, <1>3 DEF SaveCallOK
  <2>2. r.batch[1] \in Attachments
    BY <1>2, <2>1
  <2>3. Saves!Letter(c) \in Letters /\ Saves!Item(c) \in ItemsOf(Saves!Letter(c))
    BY <1>3, <2>2 DEF Saves!Letter, Saves!Item, Attachments
  <2> QED BY <1>1, <1>2, <1>3, <2>3, SaveConstants DEF Saves!ItemHere
<1>4. CASE r.op = "save"
  <2>1. r.batch \in Seq(Letters)
    BY <1>1, <1>4 DEF SaveCallOK
  <2>2. r.batch[1] \in Letters
    BY <1>2, <2>1
  <2>3. Saves!Letter(c) = r.batch[1] /\ Saves!Item(c) = r.item
    BY <1>4 DEF Saves!Letter, Saves!Item
  <2>4. r.item \in Nat \ {0} /\ Len(MailItems[r.batch[1]]) \in Nat
    BY <1>1, <2>2, SaveConstants DEF SaveCallOK
  <2>5. r.item <= Len(MailItems[r.batch[1]])
    BY <1>1, <1>4, <2>3, <2>4 DEF SaveCallOK, Saves!AtItem, Saves!AllItemsSeen, Saves!In
  <2>6. Saves!Item(c) \in ItemsOf(Saves!Letter(c))
    BY <2>3, <2>4, <2>5 DEF ItemsOf
  <2> QED BY <1>1, <1>2, <1>4, <2>2, <2>3, <2>6, SaveConstants DEF Saves!ItemHere
<1> QED BY <1>2, <1>3, <1>4
\* What an item takes of the quota, the budget and the session.
MoreOK(m) ==
  /\ DOMAIN m \subseteq {"usage", "budget", "chunk"}
  /\ "usage" \in DOMAIN m => m.usage \in Nat
  /\ "budget" \in DOMAIN m => m.budget \in 0 .. RequestBudget
  /\ "chunk" \in DOMAIN m => m.chunk \in 0 .. Chunks - 1

UsageAfter(c, m) == IF "usage" \in DOMAIN m THEN m.usage ELSE fileCall[c].usage
OthersSame(c) ==
  DOMAIN fileCall' = SaveCalls /\ \A d \in SaveCalls \ {c} : fileCall'[d] = fileCall[d]
\* What a step leaves of a call whichever way an item goes.
KeptOf(r, s) ==
  /\ s.op = r.op /\ s.store = r.store /\ s.asked = r.asked /\ s.todo = r.todo
  /\ s.loaded = r.loaded /\ s.status = r.status /\ s.text = r.text
\* The item a call is at is one it wants.
Presents(c) ==
  fileCall[c].op = "save" => Wants(fileCall[c].batch[1], fileCall[c].item, fileCall[c].text)

LEMMA Present ==
  ASSUME Saves!FilesAssumption, SaveTyped, NEW c \in SaveCalls,
         (Saves!AtItem(c) /\ ~Saves!Absent(c)) \/ fileCall[c].pc = "uploading"
  PROVE  Presents(c)
<1>1. CASE fileCall[c].pc = "uploading"
  BY <1>1 DEF SaveTyped, SaveCallOK, Presents
<1>2. CASE Saves!AtItem(c) /\ ~Saves!Absent(c) /\ fileCall[c].op = "save"
  <2>1. Saves!Letter(c) = fileCall[c].batch[1] /\ Saves!Item(c) = fileCall[c].item
    BY <1>2, ItemIs
  <2> QED BY <1>2, <2>1 DEF Presents, Wants, Saves!Absent, Saves!IsText, Saves!ItemHere
<1> QED BY <1>1, <1>2 DEF Presents

LEMMA TakenIs ==
  ASSUME Saves!FilesAssumption, SaveTyped, NEW c \in SaveCalls, Saves!AtItem(c), Saves!Allowed(c)
  PROVE  MoreOK(Saves!Taken(c)) /\ DOMAIN Saves!Taken(c) = {"budget"}
<1>1. Saves!ItemHere(c).size \in Nat
  BY ItemIs
<1>2. fileCall[c].budget \in 0 .. RequestBudget /\ RequestBudget \in Nat
  BY SaveConstants DEF SaveTyped, SaveCallOK
<1> DEFINE b == IF Saves!IsText(c) THEN fileCall[c].budget ELSE fileCall[c].budget - Saves!ItemHere(c).size
<1>3. b \in 0 .. RequestBudget
  BY <1>1, <1>2 DEF Saves!Allowed
<1> HIDE DEF b
<1>4. Saves!Taken(c) = [budget |-> b]
  BY DEF Saves!Taken, b
<1>5. DOMAIN [budget |-> b] = {"budget"} /\ [budget |-> b].budget = b
  OBVIOUS
<1> QED BY <1>3, <1>4, <1>5 DEF MoreOK

LEMMA SavedIs ==
  ASSUME Saves!FilesAssumption, SaveTyped, NEW c \in SaveCalls,
         Saves!AtItem(c) \/ fileCall[c].pc = "uploading", NEW at, NEW more, MoreOK(more),
         Saves!Saved(c, at, more)
  PROVE  /\ OthersSame(c) /\ SaveCallOK(fileCall'[c]) /\ KeptOf(fileCall[c], fileCall'[c])
         /\ fileCall'[c].clean = fileCall[c].clean /\ fileCall'[c].errors = fileCall[c].errors
         /\ fileCall'[c].usage = UsageAfter(c, more) /\ fileCall'[c].pc # "done"
         /\ fileCall[c].op = "save" =>
              /\ fileCall'[c].pc = "items" /\ fileCall'[c].batch = fileCall[c].batch
              /\ fileCall'[c].item = fileCall[c].item + 1
              /\ fileCall'[c].refs = Saves!Put(fileCall[c].refs, fileCall[c].item, at)
<1> DEFINE r == fileCall[c]
           s == fileCall'[c]
           a == [batch |-> Tail(r.batch), processed |-> r.processed + 1, pc |-> "mails"]
           b == [item |-> r.item + 1, pc |-> "items", refs |-> Saves!Put(r.refs, r.item, at)]
           g == IF r.op = "specific" THEN a ELSE b
           f == Saves!++(more, g)
<1>0. SaveCallOK(r)
  BY DEF SaveTyped
<1>1. /\ r.op \in {"save", "specific"} /\ r.batch # <<>> /\ r.pc \in {"items", "uploading"}
      /\ r.op = "save" => r.item \in ItemsOf(r.batch[1]) /\ r.batch[1] \in Letters
  BY ItemIs
<1>2. Saves!Upd(c, f)
  BY DEF Saves!Saved
<1>3. /\ DOMAIN f = DOMAIN more \cup DOMAIN g
      /\ \A k \in DOMAIN more : f[k] = more[k]
      /\ \A k \in DOMAIN g : k \notin DOMAIN more => f[k] = g[k]
  <2> HIDE DEF g
  <2> QED BY Merged
<1>4. /\ DOMAIN a = {"batch", "processed", "pc"} /\ a["batch"] = Tail(r.batch)
      /\ a["processed"] = r.processed + 1 /\ a["pc"] = "mails"
      /\ DOMAIN b = {"item", "pc", "refs"} /\ b["item"] = r.item + 1 /\ b["pc"] = "items"
      /\ b["refs"] = Saves!Put(r.refs, r.item, at)
  OBVIOUS
<1> HIDE DEF f, a, b
<1>5. DOMAIN f \subseteq SaveFields
  BY <1>3, <1>4 DEF MoreOK, SaveFields
<1>6. /\ OthersSame(c) /\ DOMAIN s = SaveFields
      /\ \A k \in DOMAIN f : s[k] = f[k]
      /\ \A k \in SaveFields \ DOMAIN f : s[k] = r[k]
  BY <1>2, <1>5, UpdIs DEF OthersSame
<1> HIDE DEF s
<1>7. /\ \A k \in DOMAIN more : s[k] = more[k]
      /\ \A k \in {"op", "store", "asked", "text", "todo", "clean", "errors", "loaded", "status"} : s[k] = r[k]
      /\ \A k \in {"usage", "budget", "chunk"} \ DOMAIN more : s[k] = r[k]
  BY <1>3, <1>4, <1>6 DEF MoreOK, SaveFields
<1>8. /\ s.usage = UsageAfter(c, more) /\ s.usage \in Nat /\ s.budget \in 0 .. RequestBudget
      /\ s.chunk \in 0 .. Chunks - 1
  BY <1>0, <1>7 DEF MoreOK, SaveCallOK, UsageAfter
<1>9. /\ s.op = r.op /\ s.store = r.store /\ s.asked = r.asked /\ s.todo = r.todo
      /\ s.clean = r.clean /\ s.errors = r.errors /\ s.loaded = r.loaded /\ s.status = r.status
      /\ s.text = r.text
  BY <1>7
<1>10. CASE r.op = "specific"
  <2>1. /\ s["batch"] = Tail(r.batch) /\ s["processed"] = r.processed + 1 /\ s["pc"] = "mails"
        /\ s["item"] = r["item"]
    BY <1>3, <1>4, <1>6, <1>10 DEF MoreOK, SaveFields
  <2>2. Tail(r.batch) \in Seq(Attachments)
    BY <1>0, <1>1, <1>10, HeadTailProperties DEF SaveCallOK
  <2>3. SaveCallOK(s)
    <3>1. /\ s.op = "specific" /\ s.pc = "mails" /\ s.status = "none" /\ s.todo = <<>>
          /\ s.batch \in Seq(Attachments) /\ s.item \in Nat \ {0} /\ s.processed \in Nat
          /\ s.clean \in BOOLEAN /\ s.errors \in BOOLEAN /\ (~s.clean => s.errors) /\ s.text \in BOOLEAN
      <4>1. s.batch \in Seq(Attachments)
        BY <2>1, <2>2
      <4>2. r.status = "none" /\ r.todo = <<>> /\ r.item \in Nat \ {0} /\ r.processed \in Nat
            /\ r.text \in BOOLEAN /\ r.clean \in BOOLEAN /\ r.errors \in BOOLEAN /\ (~r.clean => r.errors)
        BY <1>0, <1>1, <1>10 DEF SaveCallOK
      <4>3. s.processed \in Nat
        BY <2>1, <4>2
      <4> QED BY <1>9, <1>10, <2>1, <4>1, <4>2, <4>3
    <3> QED BY <1>6, <1>8, <3>1 DEF SaveCallOK
  <2> QED BY <1>6, <1>8, <1>9, <1>10, <2>1, <2>3 DEF KeptOf, s
<1>11. CASE r.op = "save"
  <2>1. /\ s["item"] = r.item + 1 /\ s["pc"] = "items" /\ s["refs"] = Saves!Put(r.refs, r.item, at)
        /\ s["batch"] = r["batch"] /\ s["processed"] = r["processed"]
    BY <1>3, <1>4, <1>6, <1>11 DEF MoreOK, SaveFields
  <2>2. Len(MailItems[r.batch[1]]) \in Nat /\ r.item \in Nat \ {0} /\ r.item <= Len(MailItems[r.batch[1]])
    BY <1>1, <1>11, SaveConstants DEF ItemsOf
  <2>3. r.item + 1 \in Nat \ {0} /\ r.item + 1 <= Len(MailItems[r.batch[1]]) + 1
    BY <2>2
  <2>4. SaveCallOK(s)
    BY <1>0, <1>1, <1>6, <1>8, <1>9, <1>11, <2>1, <2>3 DEF SaveCallOK
  <2> QED BY <1>6, <1>8, <1>9, <1>11, <2>1, <2>4 DEF KeptOf, s
<1> QED BY <1>1, <1>10, <1>11
LEMMA NotSavedIs ==
  ASSUME Saves!FilesAssumption, SaveTyped, NEW c \in SaveCalls,
         Saves!AtItem(c) \/ fileCall[c].pc = "uploading", NEW more, MoreOK(more),
         Saves!NotSaved(c, more)
  PROVE  /\ OthersSame(c) /\ SaveCallOK(fileCall'[c]) /\ KeptOf(fileCall[c], fileCall'[c])
         /\ fileCall'[c].errors /\ fileCall'[c].usage = UsageAfter(c, more)
         /\ fileCall'[c].pc # "done"
         /\ fileCall[c].op = "save" => ~fileCall'[c].clean
<1> DEFINE r == fileCall[c]
           s == fileCall'[c]
           a == [batch |-> Tail(r.batch), errors |-> TRUE, pc |-> "mails"]
           b == [item |-> r.item + 1, clean |-> FALSE, errors |-> TRUE, pc |-> "items"]
           g == IF r.op = "specific" THEN a ELSE b
           f == Saves!++(more, g)
<1>0. SaveCallOK(r)
  BY DEF SaveTyped
<1>1. /\ r.op \in {"save", "specific"} /\ r.batch # <<>> /\ r.pc \in {"items", "uploading"}
      /\ r.op = "save" => r.item \in ItemsOf(r.batch[1]) /\ r.batch[1] \in Letters
  BY ItemIs
<1>2. Saves!Upd(c, f)
  BY <1>1 DEF Saves!NotSaved
<1>3. /\ DOMAIN f = DOMAIN more \cup DOMAIN g
      /\ \A k \in DOMAIN more : f[k] = more[k]
      /\ \A k \in DOMAIN g : k \notin DOMAIN more => f[k] = g[k]
  <2> HIDE DEF g
  <2> QED BY Merged
<1>4. /\ DOMAIN a = {"batch", "errors", "pc"} /\ a["batch"] = Tail(r.batch)
      /\ a["errors"] = TRUE /\ a["pc"] = "mails"
      /\ DOMAIN b = {"item", "clean", "errors", "pc"} /\ b["item"] = r.item + 1 /\ b["pc"] = "items"
      /\ b["clean"] = FALSE /\ b["errors"] = TRUE
  OBVIOUS
<1> HIDE DEF f, a, b
<1>5. DOMAIN f \subseteq SaveFields
  BY <1>3, <1>4 DEF MoreOK, SaveFields
<1>6. /\ OthersSame(c) /\ DOMAIN s = SaveFields
      /\ \A k \in DOMAIN f : s[k] = f[k]
      /\ \A k \in SaveFields \ DOMAIN f : s[k] = r[k]
  BY <1>2, <1>5, UpdIs DEF OthersSame
<1> HIDE DEF s
<1>7. /\ \A k \in DOMAIN more : s[k] = more[k]
      /\ \A k \in {"op", "store", "asked", "text", "todo", "loaded", "status", "processed"} : s[k] = r[k]
      /\ \A k \in {"usage", "budget", "chunk"} \ DOMAIN more : s[k] = r[k]
  BY <1>3, <1>4, <1>6 DEF MoreOK, SaveFields
<1>8. /\ s.usage = UsageAfter(c, more) /\ s.usage \in Nat /\ s.budget \in 0 .. RequestBudget
      /\ s.chunk \in 0 .. Chunks - 1
  BY <1>0, <1>7 DEF MoreOK, SaveCallOK, UsageAfter
<1>9. /\ s.op = r.op /\ s.store = r.store /\ s.asked = r.asked /\ s.todo = r.todo
      /\ s.loaded = r.loaded /\ s.status = r.status /\ s.processed = r.processed /\ s.text = r.text
  BY <1>7
<1>a. r.text \in BOOLEAN /\ r.status = "none" /\ r.item \in Nat \ {0} /\ r.processed \in Nat /\ r.clean \in BOOLEAN
      /\ (r.op = "specific" => r.todo = <<>>)
  BY <1>0, <1>1 DEF SaveCallOK
<1>10. CASE r.op = "specific"
  <2>1. /\ s["batch"] = Tail(r.batch) /\ s["errors"] = TRUE /\ s["pc"] = "mails"
        /\ s["item"] = r["item"] /\ s["clean"] = r["clean"]
    BY <1>3, <1>4, <1>6, <1>10 DEF MoreOK, SaveFields
  <2>2. Tail(r.batch) \in Seq(Attachments)
    BY <1>0, <1>1, <1>10, HeadTailProperties DEF SaveCallOK
  <2>3. SaveCallOK(s)
    <3>1. /\ s.op = "specific" /\ s.pc = "mails" /\ s.status = "none" /\ s.todo = <<>>
          /\ s.batch \in Seq(Attachments) /\ s.item \in Nat \ {0} /\ s.processed \in Nat
          /\ s.clean \in BOOLEAN /\ s.errors = TRUE /\ s.text \in BOOLEAN
      <4>1. s.batch \in Seq(Attachments)
        BY <2>1, <2>2
      <4> QED BY <1>9, <1>10, <1>a, <2>1, <4>1
    <3> QED BY <1>6, <1>8, <3>1 DEF SaveCallOK
  <2> QED BY <1>6, <1>8, <1>9, <1>10, <2>1, <2>3 DEF KeptOf, s
<1>11. CASE r.op = "save"
  <2>1. /\ s["item"] = r.item + 1 /\ s["pc"] = "items" /\ s["clean"] = FALSE /\ s["errors"] = TRUE
        /\ s["batch"] = r["batch"]
    BY <1>3, <1>4, <1>6, <1>11 DEF MoreOK, SaveFields
  <2>2. Len(MailItems[r.batch[1]]) \in Nat /\ r.item \in Nat \ {0} /\ r.item <= Len(MailItems[r.batch[1]])
    BY <1>1, <1>11, SaveConstants DEF ItemsOf
  <2>3. r.item + 1 \in Nat \ {0} /\ r.item + 1 <= Len(MailItems[r.batch[1]]) + 1
    BY <2>2
  <2>4. SaveCallOK(s)
    BY <1>0, <1>1, <1>6, <1>8, <1>9, <1>a, <1>11, <2>1, <2>3 DEF SaveCallOK
  <2> QED BY <1>6, <1>8, <1>9, <1>11, <2>1, <2>4 DEF KeptOf, s
<1> QED BY <1>1, <1>10, <1>11

\* An item goes by: it was saved at a place, or was not.
Passed(c, more) ==
  /\ OthersSame(c) /\ SaveCallOK(fileCall'[c]) /\ KeptOf(fileCall[c], fileCall'[c])
  /\ fileCall'[c].usage = UsageAfter(c, more) /\ fileCall'[c].pc # "done"
\* For a mail that is on its way to the list of those done, the item is saved, or not wanted.
WentOn(c) ==
  \/ fileCall[c].op # "save"
  \/ fileCall'[c].errors /\ ~fileCall'[c].clean
  \/ /\ fileCall'[c].clean = fileCall[c].clean /\ fileCall'[c].errors = fileCall[c].errors
     /\ fileCall'[c].pc = "items" /\ fileCall'[c].batch = fileCall[c].batch
     /\ fileCall'[c].item = fileCall[c].item + 1
     /\ \/ ~Presents(c) /\ fileCall'[c].refs = fileCall[c].refs
        \/ /\ Presents(c)
           /\ \E at : /\ fileCall'[c].refs = Saves!Put(fileCall[c].refs, fileCall[c].item, at)
                      /\ fileCall[c].store # "memory" =>
                           /\ at \in DOMAIN files'
                           /\ at[1] = "local" => files'[at] = <<fileCall[c].batch[1], fileCall[c].item>>

LEMMA SavedPasses ==
  ASSUME Saves!FilesAssumption, SaveTyped, NEW c \in SaveCalls,
         Saves!AtItem(c) \/ fileCall[c].pc = "uploading", Presents(c), NEW at, NEW more, MoreOK(more),
         Saves!Saved(c, at, more),
         fileCall[c].store # "memory" =>
           /\ at \in DOMAIN files'
           /\ at[1] = "local" => files'[at] = <<Saves!Letter(c), Saves!Item(c)>>
  PROVE  Passed(c, more) /\ WentOn(c)
<1>1. fileCall[c].op = "save" => Saves!Letter(c) = fileCall[c].batch[1] /\ Saves!Item(c) = fileCall[c].item
  BY ItemIs
<1>2. Passed(c, more)
  BY SavedIs DEF Passed
<1>3. CASE fileCall[c].op = "save"
  <2>1. /\ fileCall'[c].clean = fileCall[c].clean /\ fileCall'[c].errors = fileCall[c].errors
        /\ fileCall'[c].pc = "items" /\ fileCall'[c].batch = fileCall[c].batch
        /\ fileCall'[c].item = fileCall[c].item + 1
        /\ fileCall'[c].refs = Saves!Put(fileCall[c].refs, fileCall[c].item, at)
    BY <1>3, SavedIs
  <2> QED BY <1>1, <1>2, <1>3, <2>1 DEF WentOn
<1> QED BY <1>2, <1>3 DEF WentOn

LEMMA NotSavedPasses ==
  ASSUME Saves!FilesAssumption, SaveTyped, NEW c \in SaveCalls,
         Saves!AtItem(c) \/ fileCall[c].pc = "uploading", NEW more, MoreOK(more),
         Saves!NotSaved(c, more)
  PROVE  Passed(c, more) /\ WentOn(c)
BY NotSavedIs DEF Passed, WentOn

LEMMA SkippedPasses ==
  ASSUME Saves!FilesAssumption, SaveTyped, NEW c \in SaveCalls, Saves!SkipItem(c)
  PROVE  Passed(c, << >>) /\ WentOn(c)
<1> DEFINE r == fileCall[c]
           s == fileCall'[c]
           f == [item |-> r.item + 1]
<1>0. /\ SaveCallOK(r) /\ Saves!AtItem(c) /\ r.op = "save" /\ Saves!Absent(c) /\ Saves!Upd(c, f)
  BY DEF SaveTyped, Saves!SkipItem
<1>1. /\ r.batch # <<>> /\ Saves!Letter(c) = r.batch[1] /\ Saves!Item(c) = r.item
      /\ r.batch[1] \in Letters /\ r.item \in ItemsOf(r.batch[1]) /\ r.pc = "items"
  BY <1>0, ItemIs DEF Saves!AtItem, Saves!In
<1>2. ~Presents(c)
  BY <1>0, <1>1 DEF Presents, Wants, Saves!Absent, Saves!IsText, Saves!ItemHere
<1>3. DOMAIN f = {"item"} /\ f["item"] = r.item + 1
  OBVIOUS
<1> HIDE DEF f
<1>4. OthersSame(c) /\ DOMAIN s = SaveFields /\ s["item"] = r.item + 1
      /\ \A k \in SaveFields \ {"item"} : s[k] = r[k]
  BY <1>0, <1>3, UpdIs DEF OthersSame, SaveFields
<1> HIDE DEF s
<1>5. /\ s.op = r.op /\ s.store = r.store /\ s.asked = r.asked /\ s.todo = r.todo /\ s.text = r.text
      /\ s.loaded = r.loaded /\ s.status = r.status /\ s.batch = r.batch /\ s.item = r.item + 1
      /\ s.refs = r.refs /\ s.clean = r.clean /\ s.errors = r.errors /\ s.usage = r.usage
      /\ s.processed = r.processed /\ s.pc = r.pc /\ s.budget = r.budget /\ s.chunk = r.chunk
  BY <1>4 DEF SaveFields
<1>6. s.item \in Nat \ {0} /\ s.item <= Len(MailItems[s.batch[1]]) + 1
  <2>1. Len(MailItems[r.batch[1]]) \in Nat /\ r.item \in Nat /\ r.item <= Len(MailItems[r.batch[1]])
    BY <1>1, SaveConstants DEF ItemsOf
  <2> QED BY <1>5, <2>1
<1>7. SaveCallOK(s)
  BY <1>0, <1>1, <1>4, <1>5, <1>6 DEF SaveCallOK
<1>8. Passed(c, << >>)
  BY <1>1, <1>4, <1>5, <1>7 DEF Passed, KeptOf, UsageAfter, s
<1>9. WentOn(c)
  BY <1>1, <1>2, <1>5 DEF WentOn, s
<1> QED BY <1>8, <1>9

LEMMA FailedPasses ==
  ASSUME Saves!FilesAssumption, SaveTyped, NEW c \in SaveCalls,
         Saves!AtItem(c) \/ fileCall[c].pc = "uploading", NEW at, NEW more, MoreOK(more),
         Saves!UploadFailed(c, at, more)
  PROVE  Passed(c, more) /\ WentOn(c)
<1>1. CASE fileCall[c].op = "specific"
  <2>1. Saves!Saved(c, at, more)
    BY <1>1 DEF Saves!UploadFailed
  <2>2. Passed(c, more)
    BY <2>1, SavedIs DEF Passed
  <2> QED BY <1>1, <2>2 DEF WentOn
<1>2. CASE fileCall[c].op # "specific"
  BY <1>2, NotSavedPasses DEF Saves!UploadFailed
<1> QED BY <1>1, <1>2
\* What is stored is a file with the content of an item; in the user's own files under a
\* name of its own.
LocalPlaces(f) == {at \in DOMAIN f : at[1] = "local"}
FilesKeep == \A at \in DOMAIN files : /\ at \in DOMAIN files'
                                      /\ at[1] = "local" => files'[at] = files[at]

LEMMA StoreIs ==
  ASSUME FilesTyped, NEW at, NEW l \in Letters, NEW i \in ItemsOf(l), at[1] \in {"local", "onedrive"},
         Saves!Store(at, <<l, i>>)
  PROVE  /\ FilesTyped' /\ at \in DOMAIN files' /\ files'[at] = <<l, i>>
         /\ DOMAIN files' = DOMAIN files \cup {at}
         /\ \A x \in DOMAIN files : x # at => files'[x] = files[x]
         /\ at \notin DOMAIN files \/ at[1] # "local" => FilesKeep
         /\ at[1] # "local" => LocalPlaces(files') = LocalPlaces(files)
<1>1. files' = [x \in DOMAIN files \cup {at} |-> IF x = at THEN <<l, i>> ELSE files[x]]
  BY DEF Saves!Store, Saves!Put
<1>2. /\ DOMAIN files' = DOMAIN files \cup {at} /\ files'[at] = <<l, i>>
      /\ \A x \in DOMAIN files : x # at => files'[x] = files[x]
  BY <1>1
<1>3. IsFiniteSet(DOMAIN files')
  BY <1>2, FS_AddElement DEF FilesTyped
<1>4. \A x \in DOMAIN files' : /\ x[1] \in {"local", "onedrive"} /\ files'[x][1] \in Letters
                               /\ files'[x][2] \in ItemsOf(files'[x][1])
  BY <1>2 DEF FilesTyped
<1>5. FilesTyped'
  BY <1>3, <1>4 DEF FilesTyped, ItemsOf
<1>6. at \notin DOMAIN files \/ at[1] # "local" => FilesKeep
  BY <1>2 DEF FilesKeep
<1>7. at[1] # "local" => LocalPlaces(files') = LocalPlaces(files)
  BY <1>2 DEF LocalPlaces
<1> QED BY <1>2, <1>5, <1>6, <1>7

\* Nothing new is stored.
LEMMA NoStore ==
  ASSUME FilesTyped, UNCHANGED files
  PROVE  FilesTyped' /\ FilesKeep /\ LocalPlaces(files') = LocalPlaces(files)
BY DEF FilesTyped, FilesKeep, LocalPlaces, ItemsOf

\* An upload goes on: nothing of the mail changes.
Uploads(c) ==
  /\ OthersSame(c) /\ SaveCallOK(fileCall'[c]) /\ KeptOf(fileCall[c], fileCall'[c])
  /\ fileCall[c].pc \in {"items", "uploading"} /\ fileCall'[c].pc = "uploading"
  /\ \A k \in {"clean", "errors", "batch", "item", "refs", "usage"} : fileCall'[c][k] = fileCall[c][k]

\* A step at an item other than a write of the user's own files.
ItemEffect(c) ==
  /\ \/ Uploads(c)
     \/ Passed(c, << >>) /\ WentOn(c)
  /\ FilesTyped' /\ UNCHANGED <<legacy, record, crowded>>
  /\ ~legacy => FilesKeep /\ LocalPlaces(files') = LocalPlaces(files)

LEMMA PassedPlain ==
  ASSUME NEW c, NEW more, "usage" \notin DOMAIN more, Passed(c, more)
  PROVE  Passed(c, << >>)
BY DEF Passed, UsageAfter

LEMMA ItemSteps ==
  ASSUME Saves!FilesAssumption, SaveTyped, NEW c \in SaveCalls,
         \/ Saves!SkipItem(c) \/ Saves!RefuseItem(c) \/ Saves!KeepInMemory(c)
         \/ Saves!SaveLegacy(c) \/ Saves!UploadSimple(c) \/ Saves!OpenSession(c)
         \/ Saves!UploadChunk(c)
  PROVE  ItemEffect(c)
<1> DEFINE r == fileCall[c]
           at0 == Saves!DrivePlace(c)
<1>0. FilesTyped /\ SaveCallOK(r)
  BY DEF SaveTyped
<1>a. MoreOK(<< >>) /\ "usage" \notin DOMAIN << >>
  BY DEF MoreOK
<1>b. MoreOK([chunk |-> 0]) /\ DOMAIN [chunk |-> 0] = {"chunk"}
  <2>1. DOMAIN [chunk |-> 0] = {"chunk"} /\ [chunk |-> 0].chunk = 0
    OBVIOUS
  <2> QED BY <2>1, SaveConstants DEF MoreOK
<1>c. ASSUME Saves!AtItem(c), Saves!Allowed(c)
      PROVE  MoreOK(Saves!Taken(c)) /\ "usage" \notin DOMAIN Saves!Taken(c) /\ Presents(c)
  BY <1>c, TakenIs, Present DEF Saves!Allowed
<1>7. CASE Saves!SkipItem(c)
  <2>1. Passed(c, << >>) /\ WentOn(c) /\ UNCHANGED <<legacy, files, record, crowded>>
    BY <1>7, SkippedPasses DEF Saves!SkipItem
  <2> QED BY <1>0, <2>1, NoStore DEF ItemEffect
<1>d. ASSUME Saves!AtItem(c) \/ r.pc = "uploading"
      PROVE  /\ Saves!Letter(c) \in Letters /\ Saves!Item(c) \in ItemsOf(Saves!Letter(c))
             /\ r.pc \in {"items", "uploading"}
  BY <1>d, ItemIs
<1>1. CASE Saves!RefuseItem(c)
  <2>1. Saves!AtItem(c) /\ Saves!NotSaved(c, << >>) /\ UNCHANGED <<legacy, files, record, crowded>>
    BY <1>1 DEF Saves!RefuseItem
  <2> QED BY <1>0, <1>a, <2>1, NotSavedPasses, NoStore DEF ItemEffect
<1>2. CASE Saves!KeepInMemory(c)
  <2>1. /\ Saves!AtItem(c) /\ Saves!Allowed(c) /\ r.store = "memory"
        /\ Saves!Saved(c, <<"memory">>, Saves!Taken(c)) /\ UNCHANGED <<legacy, files, record, crowded>>
    BY <1>2 DEF Saves!KeepInMemory
  <2>2. Passed(c, Saves!Taken(c)) /\ WentOn(c)
    BY <1>c, <2>1, SavedPasses
  <2> QED BY <1>0, <1>c, <2>1, <2>2, NoStore, PassedPlain DEF ItemEffect
<1>3. CASE Saves!SaveLegacy(c)
  <2> DEFINE over == Saves!IsText(c) \/ r.op = "specific"
             copies == IF over THEN {0}
                       ELSE Saves!FreeCopies("local", FolderOf[Saves!Letter(c)], Saves!ItemHere(c).name)
             at == <<"local", FolderOf[Saves!Letter(c)], Saves!ItemHere(c).name, Saves!Min(copies)>>
  <2>1. /\ Saves!AtItem(c) /\ Saves!Allowed(c) /\ legacy /\ UNCHANGED <<legacy, record, crowded>>
        /\ \/ Saves!Store(at, <<Saves!Letter(c), Saves!Item(c)>>) /\ Saves!Saved(c, at, Saves!Taken(c))
           \/ UNCHANGED files /\ Saves!NotSaved(c, Saves!Taken(c))
    BY <1>3 DEF Saves!SaveLegacy
  <2>2. at[1] = "local"
    OBVIOUS
  <2> HIDE DEF at
  <2>3. CASE Saves!Store(at, <<Saves!Letter(c), Saves!Item(c)>>) /\ Saves!Saved(c, at, Saves!Taken(c))
    <3>1. FilesTyped' /\ at \in DOMAIN files' /\ files'[at] = <<Saves!Letter(c), Saves!Item(c)>>
      <4>1. /\ FilesTyped /\ Saves!Letter(c) \in Letters /\ Saves!Item(c) \in ItemsOf(Saves!Letter(c))
            /\ at[1] \in {"local", "onedrive"}
            /\ Saves!Store(at, <<Saves!Letter(c), Saves!Item(c)>>)
        BY <1>0, <1>d, <2>1, <2>2, <2>3
      <4> QED BY <4>1, StoreIs
    <3>2. Passed(c, Saves!Taken(c)) /\ WentOn(c)
      BY <1>c, <2>1, <2>3, <3>1, SavedPasses
    <3> QED BY <1>c, <2>1, <3>1, <3>2, PassedPlain DEF ItemEffect
  <2>4. CASE UNCHANGED files /\ Saves!NotSaved(c, Saves!Taken(c))
    <3>1. Passed(c, Saves!Taken(c)) /\ WentOn(c)
      BY <1>c, <2>1, <2>4, NotSavedPasses
    <3> QED BY <1>0, <1>c, <2>1, <2>4, <3>1, NoStore, PassedPlain DEF ItemEffect
  <2> QED BY <2>1, <2>3, <2>4
<1>e. at0[1] = "onedrive"
  BY DEF Saves!DrivePlace
<1>4. CASE Saves!UploadSimple(c)
  <2> HIDE DEF at0
  <2>1. /\ Saves!AtItem(c) /\ Saves!Allowed(c) /\ UNCHANGED <<legacy, record, crowded>>
        /\ \/ /\ Saves!Store(at0, <<Saves!Letter(c), Saves!Item(c)>>)
              /\ Saves!Saved(c, at0, Saves!Taken(c)) \/ Saves!UploadFailed(c, at0, Saves!Taken(c))
           \/ UNCHANGED files /\ Saves!UploadFailed(c, at0, Saves!Taken(c))
    BY <1>4 DEF Saves!UploadSimple, at0
  <2>2. CASE Saves!Store(at0, <<Saves!Letter(c), Saves!Item(c)>>)
    <3>1. /\ FilesTyped' /\ at0 \in DOMAIN files' /\ files'[at0] = <<Saves!Letter(c), Saves!Item(c)>>
          /\ FilesKeep /\ LocalPlaces(files') = LocalPlaces(files)
      BY <1>0, <1>d, <1>e, <2>1, <2>2, StoreIs
    <3>2. Saves!Saved(c, at0, Saves!Taken(c)) => Passed(c, Saves!Taken(c)) /\ WentOn(c)
      BY <1>c, <2>1, <3>1, SavedPasses
    <3>3. Saves!UploadFailed(c, at0, Saves!Taken(c)) => Passed(c, Saves!Taken(c)) /\ WentOn(c)
      BY <1>c, <2>1, FailedPasses
    <3> QED BY <1>c, <2>1, <3>1, <3>2, <3>3, FailedPasses, PassedPlain DEF ItemEffect
  <2>3. CASE UNCHANGED files /\ Saves!UploadFailed(c, at0, Saves!Taken(c))
    <3>1. Passed(c, Saves!Taken(c)) /\ WentOn(c)
      BY <1>c, <2>1, <2>3, FailedPasses
    <3> QED BY <1>0, <1>c, <2>1, <2>3, <3>1, NoStore, PassedPlain DEF ItemEffect
  <2> QED BY <2>1, <2>2, <2>3
<1>5. CASE Saves!OpenSession(c)
  <2> HIDE DEF at0
  <2>1. /\ Saves!AtItem(c) /\ Saves!Allowed(c) /\ UNCHANGED <<legacy, files, record, crowded>>
        /\ \/ Saves!Upd(c, Saves!++([pc |-> "uploading", chunk |-> 0], Saves!Taken(c)))
           \/ Saves!UploadFailed(c, at0, Saves!Taken(c))
    BY <1>5 DEF Saves!OpenSession, at0
  <2>2. CASE Saves!UploadFailed(c, at0, Saves!Taken(c))
    <3>1. Passed(c, Saves!Taken(c)) /\ WentOn(c)
      BY <1>c, <2>1, <2>2, FailedPasses
    <3> QED BY <1>0, <1>c, <2>1, <3>1, NoStore, PassedPlain DEF ItemEffect
  <2>3. CASE Saves!Upd(c, Saves!++([pc |-> "uploading", chunk |-> 0], Saves!Taken(c)))
    <3> DEFINE p == [pc |-> "uploading", chunk |-> 0]
               f == Saves!++(p, Saves!Taken(c))
               s == fileCall'[c]
    <3>1. DOMAIN p = {"pc", "chunk"} /\ p["pc"] = "uploading" /\ p["chunk"] = 0
      OBVIOUS
    <3>2. Saves!Upd(c, f)
      BY <2>3
    <3> HIDE DEF p
    <3>3. /\ DOMAIN f = DOMAIN p \cup DOMAIN Saves!Taken(c)
          /\ \A k \in DOMAIN p : f[k] = p[k]
          /\ \A k \in DOMAIN Saves!Taken(c) : k \notin DOMAIN p => f[k] = Saves!Taken(c)[k]
      BY Merged
    <3>4. MoreOK(Saves!Taken(c)) /\ DOMAIN Saves!Taken(c) = {"budget"}
      BY <2>1, TakenIs
    <3> HIDE DEF f
    <3>5. DOMAIN f = {"pc", "chunk", "budget"} /\ f["pc"] = "uploading" /\ f["chunk"] = 0
          /\ f["budget"] \in 0 .. RequestBudget
      BY <3>1, <3>3, <3>4 DEF MoreOK
    <3>6. /\ OthersSame(c) /\ DOMAIN s = SaveFields /\ \A k \in DOMAIN f : s[k] = f[k]
          /\ \A k \in SaveFields \ DOMAIN f : s[k] = r[k]
      BY <3>2, <3>5, UpdIs DEF OthersSame, SaveFields
    <3> HIDE DEF s
    <3>7. /\ s["pc"] = "uploading" /\ s["chunk"] = 0 /\ s["budget"] \in 0 .. RequestBudget
          /\ \A k \in SaveFields \ {"pc", "chunk", "budget"} : s[k] = r[k]
      BY <3>5, <3>6 DEF SaveFields
    <3>8. /\ s.op = r.op /\ s.store = r.store /\ s.asked = r.asked /\ s.todo = r.todo
          /\ s.loaded = r.loaded /\ s.status = r.status /\ s.batch = r.batch /\ s.item = r.item
          /\ s.refs = r.refs /\ s.clean = r.clean /\ s.errors = r.errors /\ s.usage = r.usage
          /\ s.processed = r.processed /\ s.text = r.text
      BY <3>7 DEF SaveFields
    <3>9. /\ r.pc = "items" /\ r.batch # <<>> /\ r.op \in {"save", "specific"}
          /\ r.op = "save" => /\ r.item <= Len(MailItems[r.batch[1]])
                              /\ Wants(r.batch[1], r.item, r.text)
      <4>1. /\ r.op \in {"save", "specific"} /\ r.batch # <<>>
            /\ r.op = "save" => r.item \in ItemsOf(r.batch[1]) /\ r.batch[1] \in Letters
        BY <2>1, ItemIs
      <4>2. r.op = "save" => r.item <= Len(MailItems[r.batch[1]])
        BY <4>1, SaveConstants DEF ItemsOf
      <4> QED BY <1>c, <2>1, <4>1, <4>2 DEF Saves!AtItem, Saves!In, Presents
    <3>10. 0 \in 0 .. Chunks - 1
      BY SaveConstants
    <3>11. SaveCallOK(s)
      BY <1>0, <3>6, <3>7, <3>8, <3>9, <3>10 DEF SaveCallOK
    <3>12. Uploads(c)
      BY <3>6, <3>7, <3>8, <3>9, <3>11 DEF Uploads, KeptOf, s
    <3> QED BY <1>0, <2>1, <3>12, NoStore DEF ItemEffect
  <2> QED BY <2>1, <2>2, <2>3
<1>6. CASE Saves!UploadChunk(c)
  <2> DEFINE at == <<"onedrive", FolderOf[Saves!Letter(c)], Saves!ItemHere(c).name,
                     Saves!FreeCopy("onedrive", FolderOf[Saves!Letter(c)], Saves!ItemHere(c).name)>>
  <2>0. at[1] = "onedrive"
    OBVIOUS
  <2>1. /\ r.pc = "uploading" /\ UNCHANGED <<legacy, record, crowded>>
        /\ \/ /\ r.chunk # Chunks - 1 /\ Saves!Upd(c, [chunk |-> r.chunk + 1]) /\ UNCHANGED files
           \/ /\ Saves!Store(at, <<Saves!Letter(c), Saves!Item(c)>>)
              /\ Saves!Saved(c, at, [chunk |-> 0]) \/ Saves!UploadFailed(c, at, [chunk |-> 0])
           \/ Saves!UploadFailed(c, at, [chunk |-> 0]) /\ UNCHANGED files
    BY <1>6 DEF Saves!UploadChunk, Saves!In
  <2> HIDE DEF at
  <2>2. CASE r.chunk # Chunks - 1 /\ Saves!Upd(c, [chunk |-> r.chunk + 1]) /\ UNCHANGED files
    <3> DEFINE p == [chunk |-> r.chunk + 1]
               s == fileCall'[c]
    <3>1. DOMAIN p = {"chunk"} /\ p["chunk"] = r.chunk + 1
      OBVIOUS
    <3>2. Saves!Upd(c, p)
      BY <2>2
    <3> HIDE DEF p
    <3>3. OthersSame(c) /\ DOMAIN s = SaveFields /\ s["chunk"] = r.chunk + 1
          /\ \A k \in SaveFields \ {"chunk"} : s[k] = r[k]
      BY <3>1, <3>2, UpdIs DEF OthersSame, SaveFields
    <3> HIDE DEF s
    <3>4. /\ s.op = r.op /\ s.store = r.store /\ s.asked = r.asked /\ s.todo = r.todo
          /\ s.loaded = r.loaded /\ s.status = r.status /\ s.batch = r.batch /\ s.item = r.item
          /\ s.refs = r.refs /\ s.clean = r.clean /\ s.errors = r.errors /\ s.usage = r.usage
          /\ s.processed = r.processed /\ s.pc = r.pc /\ s.budget = r.budget /\ s.text = r.text
      BY <3>3 DEF SaveFields
    <3>5. s.chunk \in 0 .. Chunks - 1
      BY <1>0, <2>2, <3>3, SaveConstants DEF SaveCallOK
    <3>6. SaveCallOK(s)
      BY <1>0, <2>1, <3>3, <3>4, <3>5 DEF SaveCallOK
    <3>7. Uploads(c)
      BY <2>1, <3>3, <3>4, <3>6 DEF Uploads, KeptOf, s
    <3> QED BY <1>0, <2>1, <2>2, <3>7, NoStore DEF ItemEffect
  <2>3. CASE Saves!Store(at, <<Saves!Letter(c), Saves!Item(c)>>)
             /\ (Saves!Saved(c, at, [chunk |-> 0]) \/ Saves!UploadFailed(c, at, [chunk |-> 0]))
    <3>1. /\ FilesTyped' /\ at \in DOMAIN files' /\ files'[at] = <<Saves!Letter(c), Saves!Item(c)>>
          /\ FilesKeep /\ LocalPlaces(files') = LocalPlaces(files)
      <4>1. /\ FilesTyped /\ Saves!Letter(c) \in Letters /\ Saves!Item(c) \in ItemsOf(Saves!Letter(c))
            /\ at[1] \in {"local", "onedrive"} /\ at[1] # "local"
            /\ Saves!Store(at, <<Saves!Letter(c), Saves!Item(c)>>)
        BY <1>0, <1>d, <2>0, <2>1, <2>3
      <4> QED BY <4>1, StoreIs
    <3>2. Saves!Saved(c, at, [chunk |-> 0]) => Passed(c, [chunk |-> 0]) /\ WentOn(c)
      BY <1>b, <2>1, <3>1, Present, SavedPasses
    <3>3. Saves!UploadFailed(c, at, [chunk |-> 0]) => Passed(c, [chunk |-> 0]) /\ WentOn(c)
      BY <1>b, <2>1, FailedPasses
    <3>4. Passed(c, << >>) /\ WentOn(c)
      BY <1>b, <2>3, <3>2, <3>3, PassedPlain
    <3> QED BY <2>1, <3>1, <3>4 DEF ItemEffect
  <2>4. CASE Saves!UploadFailed(c, at, [chunk |-> 0]) /\ UNCHANGED files
    <3>1. Passed(c, [chunk |-> 0]) /\ WentOn(c)
      BY <1>b, <2>1, <2>4, FailedPasses
    <3>2. Passed(c, << >>)
      BY <1>b, <3>1, PassedPlain
    <3> QED BY <1>0, <2>1, <2>4, <3>1, <3>2, NoStore DEF ItemEffect
  <2> QED BY <2>1, <2>2, <2>3, <2>4
<1> QED BY <1>1, <1>2, <1>3, <1>4, <1>5, <1>6, <1>7

\* The bytes of the user's own files.
SizesOf(f) == [at \in DOMAIN f |-> MailItems[f[at][1]][f[at][2]].size]
BytesOf(f) == SumFunctionOnSet(SizesOf(f), LocalPlaces(f))

LEMMA LocalBytesIs == Saves!LocalBytes = BytesOf(files)
BY DEF Saves!LocalBytes, BytesOf, SizesOf, LocalPlaces, Saves!SumFunctionOnSet, SumFunctionOnSet,
       Saves!FoldFunctionOnSet, FoldFunctionOnSet, Saves!MapThenFoldSet, MapThenFoldSet

LEMMA BytesTyped ==
  ASSUME Saves!FilesAssumption, FilesTyped
  PROVE  /\ \A at \in DOMAIN files : SizesOf(files)[at] \in Nat
         /\ IsFiniteSet(LocalPlaces(files)) /\ BytesOf(files) \in Nat
<1>1. \A at \in DOMAIN files : SizesOf(files)[at] \in Nat
  BY SaveConstants DEF FilesTyped, SizesOf
<1>2. LocalPlaces(files) \subseteq DOMAIN files
  BY DEF LocalPlaces
<1>3. IsFiniteSet(LocalPlaces(files))
  BY <1>2, FS_Subset DEF FilesTyped
<1> QED BY <1>1, <1>2, <1>3, SumNat DEF BytesOf

LEMMA BytesSame ==
  ASSUME Saves!FilesAssumption, FilesTyped, FilesKeep, LocalPlaces(files') = LocalPlaces(files)
  PROVE  BytesOf(files') = BytesOf(files)
<1>1. \A at \in LocalPlaces(files) : SizesOf(files')[at] = SizesOf(files)[at]
  BY DEF LocalPlaces, FilesKeep, SizesOf
<1> QED BY <1>1, BytesTyped, SumAlike DEF BytesOf

LEMMA BytesGrow ==
  ASSUME Saves!FilesAssumption, FilesTyped, NEW l \in Letters, NEW i \in ItemsOf(l), NEW at,
         at[1] = "local", at \notin DOMAIN files, Saves!Store(at, <<l, i>>)
  PROVE  BytesOf(files') = MailItems[l][i].size + BytesOf(files)
<1>1. /\ DOMAIN files' = DOMAIN files \cup {at} /\ files'[at] = <<l, i>> /\ FilesTyped'
      /\ \A x \in DOMAIN files : x # at => files'[x] = files[x]
  BY StoreIs
<1> DEFINE S == LocalPlaces(files)
           w == SizesOf(files')
<1>2. LocalPlaces(files') = S \cup {at} /\ at \notin S
  BY <1>1 DEF LocalPlaces
<1>3. \A y \in DOMAIN files' : w[y] \in Nat
  <2>1. \A y \in DOMAIN files' : files'[y][1] \in Letters /\ files'[y][2] \in ItemsOf(files'[y][1])
    BY <1>1 DEF FilesTyped, ItemsOf
  <2> QED BY <2>1, SaveConstants DEF SizesOf
<1>4. w[at] = MailItems[l][i].size
  BY <1>1 DEF SizesOf
<1>5. \A x \in S : SizesOf(files)[x] = w[x]
  BY <1>1 DEF SizesOf, LocalPlaces
<1>6. IsFiniteSet(S)
  BY BytesTyped
<1>7. S \cup {at} \subseteq DOMAIN files'
  BY <1>1 DEF LocalPlaces
<1> HIDE DEF S, w
<1>8. SumFunctionOnSet(w, S \cup {at}) = w[at] + SumFunctionOnSet(w, S)
  BY <1>2, <1>3, <1>6, <1>7, SumGrows
<1>9. SumFunctionOnSet(SizesOf(files), S) = SumFunctionOnSet(w, S)
  BY <1>5, <1>6, SumAlike
<1> QED BY <1>2, <1>4, <1>8, <1>9 DEF BytesOf, w, S

\* The name a file gets is free.
LEMMA FreeIs ==
  ASSUME NEW s, NEW folder, NEW name, Saves!FreeCopies(s, folder, name) # {}
  PROVE  <<s, folder, name, Saves!FreeCopy(s, folder, name)>> \notin DOMAIN files
<1> DEFINE S == Saves!FreeCopies(s, folder, name)
<1>1. S \in SUBSET Nat /\ \A k \in S : <<s, folder, name, k>> \notin DOMAIN files
  BY DEF Saves!FreeCopies
<1>2. \E x \in S : \A y \in S : x =< y
  <2> HIDE DEF S
  <2> QED BY <1>1, LeastExists DEF S
<1>3. Saves!Min(S) = CHOOSE x \in S : \A y \in S : x =< y
  BY DEF Saves!Min
<1>4. Saves!Min(S) \in S
  <2> HIDE DEF S
  <2> QED BY <1>2, <1>3
<1> QED BY <1>1, <1>4 DEF Saves!FreeCopy

\* A call that ends in the middle of its work, with a status that is no success.
CutShort(c, status) ==
  /\ OthersSame(c) /\ SaveCallOK(fileCall'[c])
  /\ fileCall'[c].pc = "done" /\ fileCall'[c].status = status /\ fileCall'[c].op = fileCall[c].op

\* What a call has counted, if it has counted at all.
Counted(c) == IF fileCall[c].usage = Saves!Unscanned THEN BytesOf(files) ELSE fileCall[c].usage
OthersCount(c) == \E d \in SaveCalls \ {c} : fileCall[d].pc # "done" /\ fileCall[d].usage # Saves!Unscanned

\* A write of the user's own files: the quota ends the call, or the item is counted and goes by.
LocalEffect(c) ==
  /\ ~legacy /\ fileCall[c].pc # "done" /\ UNCHANGED <<legacy, record>>
  /\ crowded' = (crowded \/ OthersCount(c))
  /\ FilesTyped' /\ FilesKeep
  /\ \/ CutShort(c, "quota_exceeded") /\ UNCHANGED files
     \/ /\ OthersSame(c) /\ SaveCallOK(fileCall'[c]) /\ KeptOf(fileCall[c], fileCall'[c]) /\ WentOn(c)
        /\ fileCall'[c].pc # "done"
        /\ \E n \in Nat : /\ fileCall'[c].usage = Counted(c) + n /\ fileCall'[c].usage <= Quota
                          /\ BytesOf(files') <= BytesOf(files) + n

LEMMA EndsIs ==
  ASSUME Saves!FilesAssumption, SaveTyped, NEW c \in SaveCalls, fileCall[c].op # "none",
         NEW status \in {"success", "partial", "error", "quota_exceeded", "auth_required"},
         NEW asked, fileCall[c].op = "save" => asked \subseteq Letters,
         Saves!Ends(c, status, asked)
  PROVE  /\ OthersSame(c) /\ SaveCallOK(fileCall'[c])
         /\ fileCall'[c].pc = "done" /\ fileCall'[c].status = status /\ fileCall'[c].op = fileCall[c].op
         /\ fileCall'[c].store = fileCall[c].store /\ fileCall'[c].asked = asked
<1> DEFINE r == fileCall[c]
           idle == Saves!IdleSave
           s == [idle EXCEPT !.op = r.op, !.store = r.store, !.asked = asked, !.pc = "done", !.status = status]
<1>0. SaveCallOK(r) /\ DOMAIN fileCall = SaveCalls
  BY DEF SaveTyped
<1>1. fileCall' = [fileCall EXCEPT ![c] = s]
  BY DEF Saves!Ends
<1>2. OthersSame(c) /\ fileCall'[c] = s
  BY <1>0, <1>1 DEF OthersSame
<1>3. /\ DOMAIN s = SaveFields /\ s.op = r.op /\ s.store = r.store /\ s.asked = asked /\ s.pc = "done"
      /\ s.status = status /\ s.todo = <<>> /\ s.batch = <<>> /\ s.item = 1 /\ s.text = TRUE
      /\ s.clean = TRUE /\ s.errors = FALSE /\ s.processed = 0 /\ s.usage = Saves!Unscanned
      /\ s.budget = RequestBudget /\ s.chunk = 0
  BY DEF Saves!IdleSave, SaveFields
<1> HIDE DEF s, idle
<1>4. s.clean \in BOOLEAN /\ s.errors \in BOOLEAN /\ s.text \in BOOLEAN /\ s.clean /\ ~s.errors
  BY <1>3, Zenon
<1>5. /\ s.item \in Nat \ {0} /\ s.processed \in Nat /\ s.usage \in Nat
      /\ s.budget \in 0 .. RequestBudget /\ s.chunk \in 0 .. Chunks - 1
  BY <1>3, SaveConstants DEF Saves!Unscanned
<1>6. <<>> \in Seq(Letters) /\ <<>> \in Seq(Attachments)
  BY EmptySeq
<1>7. r.op \in {"save", "specific"}
  BY <1>0 DEF SaveCallOK
<1>8. SaveCallOK(s)
  BY <1>3, <1>4, <1>5, <1>6, <1>7 DEF SaveCallOK
<1> QED BY <1>2, <1>3, <1>8

LEMMA LocalStep ==
  ASSUME Saves!FilesAssumption, SaveTyped, NEW c \in SaveCalls, Saves!SaveLocal(c)
  PROVE  LocalEffect(c)
<1> DEFINE r == fileCall[c]
           l == Saves!Letter(c)
           i == Saves!Item(c)
           size == Saves!ItemHere(c).size
           name == Saves!ItemHere(c).name
           at == <<"local", FolderOf[l], name, Saves!FreeCopy("local", FolderOf[l], name)>>
           used == IF r.usage = Saves!Unscanned THEN Saves!LocalBytes ELSE r.usage
           more == Saves!++(Saves!Taken(c), [usage |-> used + size])
           others == {o \in SaveCalls \ {c} : fileCall[o].pc # "done" /\ fileCall[o].usage # Saves!Unscanned}
<1>1. /\ Saves!AtItem(c) /\ Saves!Allowed(c) /\ ~legacy /\ UNCHANGED <<legacy, record>>
      /\ crowded' = (crowded \/ others # {})
      /\ IF Saves!OverQuota(used, size)
         THEN Saves!Ends(c, "quota_exceeded", {}) /\ UNCHANGED files
         ELSE \/ /\ Saves!FreeCopies("local", FolderOf[l], name) # {}
                 /\ Saves!Store(at, <<l, i>>) /\ Saves!Saved(c, at, more)
              \/ UNCHANGED files /\ Saves!NotSaved(c, more)
  BY DEF Saves!SaveLocal
<1>2. /\ FilesTyped /\ SaveCallOK(r) /\ r.pc \in {"items", "uploading"} /\ r.op # "none"
      /\ l \in Letters /\ i \in ItemsOf(l) /\ size \in Nat
  BY <1>1, ItemIs DEF SaveTyped
<1>3. used = Counted(c) /\ used \in Nat
  <2>1. used = Counted(c)
    BY LocalBytesIs DEF Counted
  <2>2. r.usage \in Nat /\ BytesOf(files) \in Nat
    BY <1>2, BytesTyped DEF SaveCallOK
  <2> QED BY <2>1, <2>2 DEF Counted
<1>4. crowded' = (crowded \/ OthersCount(c))
  <2>1. others # {} <=> OthersCount(c)
    BY DEF OthersCount
  <2> QED BY <1>1, <2>1
<1>5. MoreOK(more) /\ UsageAfter(c, more) = used + size
  <2> DEFINE t == Saves!Taken(c)
             u == [usage |-> used + size]
  <2>1. MoreOK(t) /\ DOMAIN t = {"budget"}
    BY <1>1, TakenIs
  <2>2. DOMAIN u = {"usage"} /\ u["usage"] = used + size
    OBVIOUS
  <2>3. used + size \in Nat
    BY <1>2, <1>3
  <2> HIDE DEF t, u, used, size
  <2>4. /\ DOMAIN more = DOMAIN t \cup DOMAIN u /\ \A k \in DOMAIN t : more[k] = t[k]
        /\ \A k \in DOMAIN u : k \notin DOMAIN t => more[k] = u[k]
    BY Merged DEF t, u
  <2> HIDE DEF more
  <2>5. DOMAIN more = {"budget", "usage"} /\ more["budget"] = t["budget"] /\ more["usage"] = used + size
    BY <2>1, <2>2, <2>4
  <2>6. t["budget"] \in 0 .. RequestBudget
    BY <2>1 DEF MoreOK
  <2> QED BY <2>3, <2>5, <2>6 DEF MoreOK, UsageAfter
<1>6. CASE Saves!OverQuota(used, size)
  <2>1. CutShort(c, "quota_exceeded") /\ UNCHANGED files
    BY <1>1, <1>2, <1>6, EndsIs DEF CutShort
  <2>2. FilesTyped' /\ FilesKeep
    BY <1>2, <2>1, NoStore
  <2> QED BY <1>1, <1>2, <1>4, <2>1, <2>2 DEF LocalEffect
<1>7. CASE ~Saves!OverQuota(used, size)
  <2> DEFINE Stored == /\ Saves!FreeCopies("local", FolderOf[l], name) # {}
                       /\ Saves!Store(at, <<l, i>>) /\ Saves!Saved(c, at, more)
  <2>0. used + size <= Quota
    BY <1>2, <1>3, <1>7, SaveConstants DEF Saves!OverQuota
  <2>1. /\ FilesTyped' /\ FilesKeep /\ Passed(c, more) /\ WentOn(c)
        /\ BytesOf(files') <= BytesOf(files) + size
    <3>1. CASE Stored
      <4>1. at \notin DOMAIN files /\ at[1] = "local"
        BY <3>1, FreeIs
      <4> HIDE DEF at, more
      <4>2. FilesTyped' /\ FilesKeep /\ at \in DOMAIN files' /\ files'[at] = <<l, i>>
        BY <1>2, <3>1, <4>1, StoreIs
      <4>3. BytesOf(files') = MailItems[l][i].size + BytesOf(files)
        BY <1>2, <3>1, <4>1, BytesGrow
      <4>4. MailItems[l][i].size = size
        BY DEF Saves!ItemHere
      <4>5. BytesOf(files) \in Nat
        BY <1>2, BytesTyped
      <4>6. BytesOf(files') <= BytesOf(files) + size
        <5> HIDE DEF l, i, size
        <5> QED BY <1>2, <4>3, <4>4, <4>5
      <4>7. Passed(c, more) /\ WentOn(c)
        BY <1>1, <1>5, <3>1, <4>1, <4>2, Present, SavedPasses DEF Saves!Allowed
      <4> QED BY <4>2, <4>6, <4>7
    <3>2. CASE UNCHANGED files /\ Saves!NotSaved(c, more)
      <4> HIDE DEF at, more
      <4>1. FilesTyped' /\ FilesKeep
        BY <1>2, <3>2, NoStore
      <4>2. Passed(c, more) /\ WentOn(c)
        BY <1>1, <1>5, <3>2, NotSavedPasses
      <4>3. BytesOf(files') = BytesOf(files) /\ BytesOf(files) \in Nat
        BY <1>2, <3>2, BytesTyped
      <4> QED BY <1>2, <4>1, <4>2, <4>3
    <3> QED BY <1>1, <1>7, <3>1, <3>2
  <2>2. fileCall'[c].usage = Counted(c) + size /\ fileCall'[c].usage <= Quota
    <3> HIDE DEF more, used, size
    <3> QED BY <1>3, <1>5, <2>0, <2>1 DEF Passed
  <2> HIDE DEF more, size
  <2> QED BY <1>1, <1>2, <1>4, <2>1, <2>2 DEF LocalEffect, Passed
<1> QED BY <1>6, <1>7

\* What is still among the mails to be fetched.
Within(l, s) == \E i \in 1 .. Len(s) : s[i] = l

\* A list of a set has all of it.
LEMMA Listed ==
  ASSUME NEW S, NEW s \in Saves!ListsOf(S)
  PROVE  s \in Seq(S) /\ \A l \in S : Within(l, s)
<1>1. s \in Saves!SeqOf(S, MaxAsked) /\ Saves!ToSet(s) = S
  BY DEF Saves!ListsOf
<1>2. PICK m \in 0 .. MaxAsked : s \in [1 .. m -> S]
  BY <1>1 DEF Saves!SeqOf
<1>3. s \in Seq(S) /\ Len(s) = m /\ DOMAIN s = 1 .. m
  BY <1>2
<1>4. \A l \in S : \E i \in DOMAIN s : s[i] = l
  BY <1>1 DEF Saves!ToSet
<1> QED BY <1>3, <1>4 DEF Within

\* A sequence cut in two has all in the one part or the other, and its tail all but its head.
LEMMA Cut ==
  ASSUME NEW S, NEW s \in Seq(S), NEW n \in 0 .. Len(s)
  PROVE  /\ SubSeq(s, 1, n) \in Seq(S) /\ SubSeq(s, n + 1, Len(s)) \in Seq(S)
         /\ \A l : Within(l, s) => Within(l, SubSeq(s, 1, n)) \/ Within(l, SubSeq(s, n + 1, Len(s)))
<1> DEFINE a == SubSeq(s, 1, n)
           b == SubSeq(s, n + 1, Len(s))
<1>0. Len(s) \in Nat /\ n \in Nat /\ n <= Len(s)
  OBVIOUS
<1>1. /\ a \in Seq(S) /\ Len(a) = n /\ \A i \in 1 .. n : a[i] = s[i]
  <2>1. \A i \in 1 .. n : s[i] \in S
    BY <1>0
  <2>2. /\ a \in Seq(S) /\ Len(a) = (IF 1 <= n THEN n - 1 + 1 ELSE 0)
        /\ \A i \in 1 .. n - 1 + 1 : a[i] = s[1 + i - 1]
    BY <1>0, <2>1, SubSeqProperties
  <2> HIDE DEF a
  <2> QED BY <1>0, <2>2
<1>2. b \in Seq(S) /\ Len(b) = Len(s) - n /\ \A i \in 1 .. Len(s) - n : b[i] = s[n + i]
  <2>1. \A i \in n + 1 .. Len(s) : s[i] \in S
    BY <1>0
  <2>2. /\ b \in Seq(S) /\ Len(b) = (IF n + 1 <= Len(s) THEN Len(s) - (n + 1) + 1 ELSE 0)
        /\ \A i \in 1 .. Len(s) - (n + 1) + 1 : b[i] = s[(n + 1) + i - 1]
    BY <1>0, <2>1, SubSeqProperties
  <2> HIDE DEF b
  <2> QED BY <1>0, <2>2
<1> HIDE DEF a, b
<1>3. ASSUME NEW l, NEW i \in 1 .. Len(s), s[i] = l PROVE Within(l, a) \/ Within(l, b)
  <2>1. CASE i <= n
    <3>1. i \in 1 .. Len(a) /\ a[i] = l
      BY <1>0, <1>1, <1>3, <2>1
    <3> QED BY <3>1 DEF Within
  <2>2. CASE i > n
    <3>1. i - n \in 1 .. Len(b) /\ b[i - n] = s[n + (i - n)] /\ n + (i - n) = i
      BY <1>0, <1>2, <2>2
    <3>2. b[i - n] = l
      BY <1>3, <3>1
    <3> QED BY <3>1, <3>2 DEF Within
  <2> QED BY <1>0, <2>1, <2>2
<1>4. \A l : Within(l, s) => Within(l, a) \/ Within(l, b)
  BY <1>3 DEF Within
<1> QED BY <1>1, <1>2, <1>4 DEF a, b

LEMMA HeadGone ==
  ASSUME NEW S, NEW s \in Seq(S), s # <<>>
  PROVE  Tail(s) \in Seq(S) /\ \A l : Within(l, s) => l = s[1] \/ Within(l, Tail(s))
<1>1. /\ Tail(s) \in Seq(S) /\ Len(Tail(s)) = Len(s) - 1 /\ Len(s) \in Nat
      /\ \A i \in 1 .. Len(Tail(s)) : Tail(s)[i] = s[i + 1]
  BY HeadTailProperties
<1>2. ASSUME NEW l, NEW i \in 1 .. Len(s), s[i] = l, i # 1 PROVE Within(l, Tail(s))
  <2>1. i - 1 \in 1 .. Len(Tail(s)) /\ Tail(s)[i - 1] = s[(i - 1) + 1] /\ (i - 1) + 1 = i
    BY <1>1, <1>2
  <2>2. Tail(s)[i - 1] = l
    BY <1>2, <2>1
  <2> QED BY <2>1, <2>2 DEF Within
<1> QED BY <1>1, <1>2 DEF Within

\* What was asked for is on the list of those done, or is still to come.
AskedOf(r, known) ==
  r.op = "save" /\ r.store # "memory" /\ ~r.errors /\ r.status \in {"none", "success"} =>
    \A l \in r.asked : known[l].done \/ Within(l, r.todo) \/ Within(l, r.batch)

\* A step of a call that neither writes nor goes from item to item.
Quiet(c) ==
  /\ fileCall[c].pc # "done" /\ OthersSame(c) /\ SaveCallOK(fileCall'[c])
  /\ fileCall'[c].pc # "done" => fileCall'[c].usage = fileCall[c].usage
  /\ legacy /\ fileCall'[c].op = "save" /\ fileCall'[c].pc # "done" => DOMAIN fileCall'[c].loaded = Letters
  /\ fileCall'[c].pc # "uploading"
  /\ fileCall'[c].pc = "items" => fileCall'[c].item = 1 /\ fileCall'[c].refs = << >>
  /\ UNCHANGED <<legacy, files, crowded>>

LEMMA BeginSaveStep ==
  ASSUME Saves!FilesAssumption, SaveTyped, NEW c \in SaveCalls, Saves!BeginSave(c)
  PROVE  /\ Quiet(c) /\ UNCHANGED record
         /\ ~legacy => AskedOf(fileCall'[c], record')
<1> DEFINE r == fileCall[c]
           s == fileCall'[c]
<1>0. SaveCallOK(r) /\ r.pc = "idle" /\ r.op = "none" /\ DOMAIN record = Letters
  BY DEF SaveTyped, SaveCallOK, Saves!BeginSave, Saves!In
<1>1. PICK st \in {"local", "onedrive", "memory"}, asked \in SUBSET Letters \ {{}} :
        \E with, again \in BOOLEAN :
          \E todo \in Saves!ListsOf(IF again THEN asked ELSE Saves!New(record, asked)) :
            Saves!Upd(c, [op |-> "save", store |-> st, asked |-> asked, text |-> with, todo |-> todo,
                          loaded |-> IF legacy THEN record ELSE << >>,
                          pc |-> IF todo = <<>> THEN "done" ELSE "fetching",
                          status |-> IF todo = <<>> THEN "success" ELSE "none"])
  BY Zenon DEF Saves!BeginSave
<1>a. PICK with \in BOOLEAN, again \in BOOLEAN :
        \E todo \in Saves!ListsOf(IF again THEN asked ELSE Saves!New(record, asked)) :
          Saves!Upd(c, [op |-> "save", store |-> st, asked |-> asked, text |-> with, todo |-> todo,
                        loaded |-> IF legacy THEN record ELSE << >>,
                        pc |-> IF todo = <<>> THEN "done" ELSE "fetching",
                        status |-> IF todo = <<>> THEN "success" ELSE "none"])
  BY <1>1, Zenon
<1>2. PICK todo \in Saves!ListsOf(IF again THEN asked ELSE Saves!New(record, asked)) :
        Saves!Upd(c, [op |-> "save", store |-> st, asked |-> asked, text |-> with, todo |-> todo,
                      loaded |-> IF legacy THEN record ELSE << >>,
                      pc |-> IF todo = <<>> THEN "done" ELSE "fetching",
                      status |-> IF todo = <<>> THEN "success" ELSE "none"])
  BY <1>a, Zenon
<1> DEFINE pc == IF todo = <<>> THEN "done" ELSE "fetching"
           loaded == IF legacy THEN record ELSE << >>
           status == IF todo = <<>> THEN "success" ELSE "none"
           f == [op |-> "save", store |-> st, asked |-> asked, text |-> with, todo |-> todo,
                 loaded |-> loaded, pc |-> pc, status |-> status]
           new == IF again THEN asked ELSE Saves!New(record, asked)
<1>3. new \subseteq asked /\ asked \subseteq Letters /\ \A l \in asked \ new : record[l].done
  BY DEF Saves!New
<1>5. todo \in Seq(new) /\ (\A l \in new : Within(l, todo))
  BY Listed
<1> HIDE DEF new
<1>6. todo \in Seq(Letters)
  BY <1>3, <1>5
<1> HIDE DEF pc, loaded, status
<1>7. /\ DOMAIN f = {"op", "store", "asked", "text", "todo", "loaded", "pc", "status"}
      /\ f["op"] = "save" /\ f["store"] = st /\ f["asked"] = asked /\ f["todo"] = todo /\ f["text"] = with
      /\ f["loaded"] = loaded /\ f["pc"] = pc /\ f["status"] = status
  OBVIOUS
<1>8. Saves!Upd(c, f)
  BY <1>2 DEF pc, loaded, status
<1> HIDE DEF f
<1>9. /\ OthersSame(c) /\ DOMAIN s = SaveFields
      /\ \A k \in DOMAIN f : s[k] = f[k]
      /\ \A k \in SaveFields \ DOMAIN f : s[k] = r[k]
  BY <1>7, <1>8, UpdIs DEF OthersSame, SaveFields
<1> HIDE DEF s
<1>10. /\ s.op = "save" /\ s.store = st /\ s.asked = asked /\ s.todo = todo /\ s.loaded = loaded
       /\ s.text = with
       /\ s.pc = pc /\ s.status = status
       /\ s.batch = r.batch /\ s.item = r.item /\ s.refs = r.refs /\ s.usage = r.usage
       /\ s.budget = r.budget /\ s.chunk = r.chunk /\ s.clean = r.clean /\ s.errors = r.errors
       /\ s.processed = r.processed
  BY <1>7, <1>9 DEF SaveFields
<1>11. /\ r.batch = <<>> /\ r.item = 1 /\ r.usage = Saves!Unscanned /\ r.budget = RequestBudget
       /\ r.chunk = 0 /\ r.clean = TRUE /\ r.errors = FALSE /\ r.processed = 0
  BY <1>0 DEF SaveCallOK, Saves!IdleSave
<1>12. Saves!Unscanned \in Nat /\ RequestBudget \in 0 .. RequestBudget /\ 0 \in 0 .. Chunks - 1
  BY SaveConstants DEF Saves!Unscanned
<1>13. <<>> \in Seq(Letters)
  BY EmptySeq
<1>14. /\ todo = <<>> => s.pc = "done" /\ s.status = "success"
       /\ todo # <<>> => s.pc = "fetching" /\ s.status = "none"
  BY <1>10 DEF pc, status
<1>15. SaveCallOK(s)
  <2>1. /\ s.op = "save" /\ s.pc \in {"fetching", "done"} /\ s.asked \subseteq Letters
        /\ s.todo \in Seq(Letters) /\ s.batch \in Seq(Letters) /\ s.batch = <<>>
        /\ s.item = 1 /\ s.usage \in Nat /\ s.budget \in 0 .. RequestBudget /\ s.chunk \in 0 .. Chunks - 1
        /\ s.clean = TRUE /\ s.errors = FALSE /\ s.processed = 0 /\ s.status \in {"none", "success"}
        /\ (s.status # "none" => s.pc = "done") /\ (s.status = "success" => s.todo = <<>>)
    BY <1>3, <1>6, <1>10, <1>11, <1>12, <1>13, <1>14
  <2>2. s.clean \in BOOLEAN /\ s.errors \in BOOLEAN /\ s.clean /\ ~s.errors
    <3>1. s.clean = TRUE /\ s.errors = FALSE
      BY <2>1
    <3> HIDE <2>1
    <3> QED BY <3>1, Zenon
  <2>3. s.item \in Nat \ {0} /\ s.processed \in Nat
    BY <2>1
  <2>4. s.op \notin {"none", "specific"} /\ s.pc \notin {"idle", "items", "uploading"} /\ s.text \in BOOLEAN
    BY <1>10, <2>1
  <2> QED BY <1>9, <2>1, <2>2, <2>3, <2>4 DEF SaveCallOK
<1>16. legacy => DOMAIN s.loaded = Letters
  BY <1>0, <1>10 DEF loaded
<1>17. UNCHANGED <<legacy, files, record, crowded>>
  BY DEF Saves!BeginSave
<1>18. Quiet(c)
  BY <1>0, <1>9, <1>10, <1>14, <1>15, <1>16, <1>17 DEF Quiet, s
<1>19. ~legacy => AskedOf(s, record')
  <2>1. \A l \in asked : record[l].done \/ Within(l, todo)
    BY <1>3, <1>5
  <2> QED BY <1>10, <1>17, <2>1 DEF AskedOf
<1> QED BY <1>17, <1>18, <1>19 DEF s

LEMMA BeginSpecificStep ==
  ASSUME Saves!FilesAssumption, SaveTyped, NEW c \in SaveCalls, Saves!BeginSpecific(c)
  PROVE  /\ Quiet(c) /\ UNCHANGED record
         /\ ~legacy => AskedOf(fileCall'[c], record')
<1> DEFINE r == fileCall[c]
           s == fileCall'[c]
<1>0. SaveCallOK(r) /\ r.pc = "idle" /\ r.op = "none"
  BY DEF SaveTyped, SaveCallOK, Saves!BeginSpecific, Saves!In
<1>1. PICK st \in {"local", "onedrive"}, l \in Letters :
        Saves!Upd(c, [op |-> "specific", store |-> st,
                      asked |-> Saves!ToSet([i \in 1 .. (Len(MailItems[l]) - 1) |-> <<l, i + 1>>]),
                      batch |-> [i \in 1 .. (Len(MailItems[l]) - 1) |-> <<l, i + 1>>], pc |-> "mails"])
  BY Zenon DEF Saves!BeginSpecific
<1> DEFINE attachments == [i \in 1 .. (Len(MailItems[l]) - 1) |-> <<l, i + 1>>]
           asked == Saves!ToSet(attachments)
           f == [op |-> "specific", store |-> st, asked |-> asked, batch |-> attachments, pc |-> "mails"]
<1>2. attachments \in Seq(Attachments)
  <2>1. Len(MailItems[l]) - 1 \in Nat
    BY SaveConstants
  <2>2. \A i \in 1 .. (Len(MailItems[l]) - 1) : <<l, i + 1>> \in Attachments
    BY <2>1 DEF Attachments, ItemsOf
  <2> QED BY <2>1, <2>2
<1> HIDE DEF attachments
<1> HIDE DEF asked
<1>3. /\ DOMAIN f = {"op", "store", "asked", "batch", "pc"}
      /\ f["op"] = "specific" /\ f["batch"] = attachments /\ f["pc"] = "mails"
  OBVIOUS
<1>4. Saves!Upd(c, f)
  BY <1>1 DEF attachments, asked
<1> HIDE DEF f
<1>5. /\ OthersSame(c) /\ DOMAIN s = SaveFields
      /\ \A k \in DOMAIN f : s[k] = f[k]
      /\ \A k \in SaveFields \ DOMAIN f : s[k] = r[k]
  BY <1>3, <1>4, UpdIs DEF OthersSame, SaveFields
<1> HIDE DEF s
<1>6. /\ s.op = "specific" /\ s.batch = attachments /\ s.pc = "mails" /\ s.todo = r.todo
      /\ s.item = r.item /\ s.usage = r.usage /\ s.budget = r.budget /\ s.chunk = r.chunk
      /\ s.clean = r.clean /\ s.errors = r.errors /\ s.processed = r.processed /\ s.status = r.status
      /\ s.text = r.text
  BY <1>3, <1>5 DEF SaveFields
<1>7. /\ r.todo = <<>> /\ r.status = "none"
  BY <1>0 DEF SaveCallOK, Saves!IdleSave
<1>8. SaveCallOK(s)
  BY <1>0, <1>2, <1>5, <1>6, <1>7 DEF SaveCallOK
<1>9. UNCHANGED <<legacy, files, record, crowded>>
  BY DEF Saves!BeginSpecific
<1> QED BY <1>0, <1>5, <1>6, <1>8, <1>9 DEF Quiet, AskedOf, s

LEMMA FetchStep ==
  ASSUME Saves!FilesAssumption, SaveTyped, NEW c \in SaveCalls, Saves!FetchBatch(c)
  PROVE  /\ Quiet(c) /\ UNCHANGED record
         /\ ~legacy /\ AskedOf(fileCall[c], record) => AskedOf(fileCall'[c], record')
<1> DEFINE r == fileCall[c]
           s == fileCall'[c]
           n == Saves!Min({FetchSize, Len(r.todo)})
           rest == SubSeq(r.todo, n + 1, Len(r.todo))
           first == SubSeq(r.todo, 1, n)
           f == [todo |-> rest, batch |-> first, pc |-> "mails"]
           g == [todo |-> rest, errors |-> TRUE]
<1>0. /\ SaveCallOK(r) /\ r.pc = "fetching" /\ r.todo # <<>>
      /\ Saves!Upd(c, f) \/ Saves!Upd(c, g)
      /\ UNCHANGED <<legacy, files, record, crowded>>
  BY DEF SaveTyped, Saves!FetchBatch, Saves!In
<1>1. r.op = "save" /\ r.batch = <<>> /\ r.todo \in Seq(Letters) /\ Len(r.todo) \in Nat /\ r.status = "none"
  BY <1>0 DEF SaveCallOK
<1>2. n \in 0 .. Len(r.todo)
  <2>1. \E x \in {FetchSize, Len(r.todo)} : \A y \in {FetchSize, Len(r.todo)} : x =< y
    BY <1>1, SaveConstants
  <2>2. n = CHOOSE x \in {FetchSize, Len(r.todo)} : \A y \in {FetchSize, Len(r.todo)} : x =< y
    BY DEF Saves!Min
  <2>3. n \in {FetchSize, Len(r.todo)} /\ n =< Len(r.todo)
    <3> HIDE DEF n
    <3> QED BY <2>1, <2>2
  <2> QED BY <1>1, <2>3, SaveConstants
<1> HIDE DEF n
<1>3. /\ rest \in Seq(Letters) /\ first \in Seq(Letters)
      /\ \A l : Within(l, r.todo) => Within(l, first) \/ Within(l, rest)
  BY <1>1, <1>2, Cut
<1> HIDE DEF rest, first
<1>4. /\ DOMAIN f = {"todo", "batch", "pc"} /\ f["todo"] = rest /\ f["batch"] = first /\ f["pc"] = "mails"
      /\ DOMAIN g = {"todo", "errors"} /\ g["todo"] = rest /\ g["errors"] = TRUE
  OBVIOUS
<1>5. CASE Saves!Upd(c, f)
  <2> HIDE DEF f
  <2>1. /\ OthersSame(c) /\ DOMAIN s = SaveFields
        /\ \A k \in DOMAIN f : s[k] = f[k]
        /\ \A k \in SaveFields \ DOMAIN f : s[k] = r[k]
    BY <1>4, <1>5, UpdIs DEF OthersSame, SaveFields
  <2> HIDE DEF s
  <2>2. /\ s.op = r.op /\ s.store = r.store /\ s.asked = r.asked /\ s.todo = rest /\ s.batch = first
        /\ s.pc = "mails" /\ s.loaded = r.loaded
        /\ s.item = r.item /\ s.usage = r.usage /\ s.budget = r.budget /\ s.chunk = r.chunk
        /\ s.clean = r.clean /\ s.errors = r.errors /\ s.processed = r.processed /\ s.status = r.status
        /\ s.text = r.text
    BY <1>4, <2>1 DEF SaveFields
  <2>3. SaveCallOK(s)
    BY <1>0, <1>1, <1>3, <2>1, <2>2 DEF SaveCallOK
  <2>4. AskedOf(r, record) => AskedOf(s, record)
    <3>1. \A l : ~Within(l, <<>>)
      BY DEF Within
    <3> QED BY <1>1, <1>3, <2>2, <3>1 DEF AskedOf
  <2> QED BY <1>0, <2>1, <2>2, <2>3, <2>4 DEF Quiet, s, SaveTyped
<1>6. CASE Saves!Upd(c, g)
  <2> HIDE DEF g
  <2>1. /\ OthersSame(c) /\ DOMAIN s = SaveFields
        /\ \A k \in DOMAIN g : s[k] = g[k]
        /\ \A k \in SaveFields \ DOMAIN g : s[k] = r[k]
    BY <1>4, <1>6, UpdIs DEF OthersSame, SaveFields
  <2> HIDE DEF s
  <2>2. /\ s.op = r.op /\ s.asked = r.asked /\ s.todo = rest /\ s.batch = r.batch
        /\ s.pc = r.pc /\ s.loaded = r.loaded /\ s.errors = TRUE
        /\ s.item = r.item /\ s.usage = r.usage /\ s.budget = r.budget /\ s.chunk = r.chunk
        /\ s.clean = r.clean /\ s.processed = r.processed /\ s.status = r.status /\ s.text = r.text
    BY <1>4, <2>1 DEF SaveFields
  <2>3. SaveCallOK(s)
    BY <1>0, <1>1, <1>3, <2>1, <2>2 DEF SaveCallOK
  <2> QED BY <1>0, <2>1, <2>2, <2>3 DEF Quiet, s, SaveTyped, AskedOf
<1> QED BY <1>0, <1>5, <1>6

LEMMA NextMailStep ==
  ASSUME Saves!FilesAssumption, SaveTyped, NEW c \in SaveCalls, Saves!NextMail(c)
  PROVE  /\ Quiet(c) /\ UNCHANGED record
         /\ ~legacy /\ AskedOf(fileCall[c], record) => AskedOf(fileCall'[c], record')
<1> DEFINE r == fileCall[c]
           s == fileCall'[c]
           f == [item |-> 1, refs |-> << >>, clean |-> TRUE, pc |-> "items"]
           g == [batch |-> Tail(r.batch), errors |-> TRUE, pc |-> "mails"]
<1>0. /\ SaveCallOK(r) /\ r.pc = "mails" /\ r.batch # <<>>
      /\ Saves!Upd(c, f) \/ Saves!Upd(c, g)
      /\ UNCHANGED <<legacy, files, record, crowded>>
  BY DEF SaveTyped, Saves!NextMail, Saves!In, Saves!MakeFolder, Saves!Skip
<1>1. /\ r.op \in {"save", "specific"} /\ r.status = "none"
      /\ r.op = "save" => r.batch \in Seq(Letters) /\ r.batch[1] \in Letters
      /\ r.op = "specific" => r.batch \in Seq(Attachments)
  <2>1. /\ r.op \in {"save", "specific"} /\ r.status = "none"
        /\ r.op = "save" => r.batch \in Seq(Letters)
        /\ r.op = "specific" => r.batch \in Seq(Attachments)
    BY <1>0 DEF SaveCallOK
  <2> QED BY <1>0, <2>1
<1>2. /\ DOMAIN f = {"item", "refs", "clean", "pc"} /\ f["item"] = 1 /\ f["refs"] = << >>
      /\ f["clean"] = TRUE /\ f["pc"] = "items"
      /\ DOMAIN g = {"batch", "errors", "pc"} /\ g["batch"] = Tail(r.batch) /\ g["errors"] = TRUE
      /\ g["pc"] = "mails"
  OBVIOUS
<1>3. CASE Saves!Upd(c, f)
  <2> HIDE DEF f
  <2>1. /\ OthersSame(c) /\ DOMAIN s = SaveFields
        /\ \A k \in DOMAIN f : s[k] = f[k]
        /\ \A k \in SaveFields \ DOMAIN f : s[k] = r[k]
    BY <1>2, <1>3, UpdIs DEF OthersSame, SaveFields
  <2> HIDE DEF s
  <2>2. /\ s.op = r.op /\ s.store = r.store /\ s.asked = r.asked /\ s.todo = r.todo /\ s.batch = r.batch
        /\ s.pc = "items" /\ s.loaded = r.loaded /\ s.item = 1 /\ s.refs = << >> /\ s.clean = TRUE
        /\ s.usage = r.usage /\ s.budget = r.budget /\ s.chunk = r.chunk
        /\ s.errors = r.errors /\ s.processed = r.processed /\ s.status = r.status /\ s.text = r.text
    BY <1>2, <2>1 DEF SaveFields
  <2>3. r.op = "save" => 1 <= Len(MailItems[r.batch[1]]) + 1
    BY <1>1, SaveConstants
  <2>4. s.clean \in BOOLEAN /\ s.clean /\ s.item \in Nat \ {0}
    <3>1. s.clean = TRUE
      BY <2>2
    <3>2. s.clean \in BOOLEAN /\ s.clean
      BY <3>1, Zenon
    <3>3. s.item \in Nat \ {0}
      BY <2>2
    <3> QED BY <3>2, <3>3
  <2>5. SaveCallOK(s)
    BY <1>0, <1>1, <2>1, <2>2, <2>3, <2>4 DEF SaveCallOK
  <2>6. AskedOf(r, record) => AskedOf(s, record)
    BY <2>2 DEF AskedOf
  <2> QED BY <1>0, <2>1, <2>2, <2>5, <2>6 DEF Quiet, s, SaveTyped
<1>4. CASE Saves!Upd(c, g)
  <2> HIDE DEF g
  <2>1. /\ OthersSame(c) /\ DOMAIN s = SaveFields
        /\ \A k \in DOMAIN g : s[k] = g[k]
        /\ \A k \in SaveFields \ DOMAIN g : s[k] = r[k]
    BY <1>2, <1>4, UpdIs DEF OthersSame, SaveFields
  <2> HIDE DEF s
  <2>2. /\ s.op = r.op /\ s.asked = r.asked /\ s.todo = r.todo /\ s.batch = Tail(r.batch)
        /\ s.pc = "mails" /\ s.loaded = r.loaded /\ s.item = r.item /\ s.clean = r.clean
        /\ s.usage = r.usage /\ s.budget = r.budget /\ s.chunk = r.chunk
        /\ s.errors = TRUE /\ s.processed = r.processed /\ s.status = r.status /\ s.text = r.text
    BY <1>2, <2>1 DEF SaveFields
  <2>3. /\ r.op = "save" => Tail(r.batch) \in Seq(Letters)
        /\ r.op = "specific" => Tail(r.batch) \in Seq(Attachments)
    BY <1>0, <1>1, HeadGone
  <2>4. SaveCallOK(s)
    BY <1>0, <1>1, <2>1, <2>2, <2>3 DEF SaveCallOK
  <2> QED BY <1>0, <2>1, <2>2, <2>4 DEF Quiet, s, SaveTyped, AskedOf
<1> QED BY <1>0, <1>3, <1>4

LEMMA BatchDoneStep ==
  ASSUME Saves!FilesAssumption, SaveTyped, NEW c \in SaveCalls, Saves!BatchDone(c)
  PROVE  /\ Quiet(c) /\ UNCHANGED record
         /\ ~legacy /\ AskedOf(fileCall[c], record) => AskedOf(fileCall'[c], record')
<1> DEFINE r == fileCall[c]
           s == fileCall'[c]
           f == [pc |-> "fetching"]
<1>0. /\ SaveCallOK(r) /\ r.pc = "mails" /\ r.batch = <<>> /\ Saves!Upd(c, f)
      /\ UNCHANGED <<legacy, files, record, crowded>>
  BY DEF SaveTyped, Saves!BatchDone, Saves!In
<1>1. DOMAIN f = {"pc"} /\ f["pc"] = "fetching"
  OBVIOUS
<1> HIDE DEF f
<1>2. /\ OthersSame(c) /\ DOMAIN s = SaveFields
      /\ \A k \in DOMAIN f : s[k] = f[k]
      /\ \A k \in SaveFields \ DOMAIN f : s[k] = r[k]
  BY <1>0, <1>1, UpdIs DEF OthersSame, SaveFields
<1> HIDE DEF s
<1>3. /\ s.op = r.op /\ s.store = r.store /\ s.asked = r.asked /\ s.todo = r.todo /\ s.batch = r.batch
      /\ s.pc = "fetching" /\ s.loaded = r.loaded /\ s.item = r.item /\ s.clean = r.clean
      /\ s.usage = r.usage /\ s.budget = r.budget /\ s.chunk = r.chunk
      /\ s.errors = r.errors /\ s.processed = r.processed /\ s.status = r.status /\ s.text = r.text
  BY <1>1, <1>2 DEF SaveFields
<1>4. SaveCallOK(s)
  BY <1>0, <1>2, <1>3 DEF SaveCallOK
<1> QED BY <1>0, <1>2, <1>3, <1>4 DEF Quiet, s, SaveTyped, AskedOf

LEMMA ConnectStep ==
  ASSUME Saves!FilesAssumption, SaveTyped, NEW c \in SaveCalls, Saves!ConnectAgain(c)
  PROVE  /\ Quiet(c) /\ UNCHANGED record
         /\ ~legacy => AskedOf(fileCall'[c], record')
<1>1. /\ Saves!Ends(c, "auth_required", {}) /\ fileCall[c].pc # "done"
      /\ fileCall[c].pc \in {"fetching", "mails", "items", "uploading"}
      /\ UNCHANGED <<legacy, files, record, crowded>>
  BY DEF Saves!ConnectAgain, Saves!In, Saves!AtItem
<1>2. fileCall[c].op # "none"
  BY <1>1 DEF SaveTyped, SaveCallOK
<1>3. /\ OthersSame(c) /\ SaveCallOK(fileCall'[c])
      /\ fileCall'[c].pc = "done" /\ fileCall'[c].status = "auth_required"
  BY <1>1, <1>2, EndsIs
<1> QED BY <1>1, <1>3 DEF Quiet, AskedOf

LEMMA NoTokenStep ==
  ASSUME Saves!FilesAssumption, SaveTyped, NEW c \in SaveCalls, Saves!NoToken(c)
  PROVE  /\ Quiet(c) /\ UNCHANGED record
         /\ ~legacy => AskedOf(fileCall'[c], record')
<1> DEFINE r == fileCall[c]
           s == fileCall'[c]
           status == IF legacy THEN "error" ELSE "auth_required"
<1>0. /\ SaveCallOK(r) /\ r.pc = "idle" /\ r.op = "none" /\ UNCHANGED <<legacy, files, record, crowded>>
  BY DEF SaveTyped, SaveCallOK, Saves!NoToken, Saves!In
<1>1. PICK op \in {"save", "specific"} : Saves!Upd(c, [op |-> op, pc |-> "done", status |-> status])
  BY DEF Saves!NoToken
<1> DEFINE f == [op |-> op, pc |-> "done", status |-> status]
<1>2. DOMAIN f = {"op", "pc", "status"} /\ f["op"] = op /\ f["pc"] = "done" /\ f["status"] = status
  OBVIOUS
<1>3. Saves!Upd(c, f)
  BY <1>1
<1> HIDE DEF f
<1>4. /\ OthersSame(c) /\ DOMAIN s = SaveFields
      /\ \A k \in DOMAIN f : s[k] = f[k]
      /\ \A k \in SaveFields \ DOMAIN f : s[k] = r[k]
  BY <1>2, <1>3, UpdIs DEF OthersSame, SaveFields
<1> HIDE DEF s
<1>5. /\ s.op = op /\ s.pc = "done" /\ s.status = status /\ s.status \in {"error", "auth_required"}
      /\ s.asked = r.asked /\ s.todo = r.todo /\ s.batch = r.batch /\ s.item = r.item
      /\ s.usage = r.usage /\ s.budget = r.budget /\ s.chunk = r.chunk
      /\ s.clean = r.clean /\ s.errors = r.errors /\ s.processed = r.processed /\ s.text = r.text
  BY <1>2, <1>4 DEF SaveFields
<1>6. r.asked = {} /\ r.todo = <<>> /\ r.batch = <<>>
  BY <1>0 DEF SaveCallOK, Saves!IdleSave
<1>7. <<>> \in Seq(Letters) /\ <<>> \in Seq(Attachments)
  BY EmptySeq
<1>8. SaveCallOK(s)
  BY <1>0, <1>4, <1>5, <1>6, <1>7 DEF SaveCallOK
<1> QED BY <1>0, <1>4, <1>5, <1>8 DEF Quiet, AskedOf, s

LEMMA AnswerStep ==
  ASSUME Saves!FilesAssumption, SaveTyped, NEW c \in SaveCalls, Saves!AnswerSave(c)
  PROVE  /\ Quiet(c) /\ UNCHANGED record
         /\ ~legacy /\ AskedOf(fileCall[c], record) => AskedOf(fileCall'[c], record')
<1> DEFINE r == fileCall[c]
           s == fileCall'[c]
           status == Saves!SaveStatus(r.processed, r.errors)
<1>0. /\ SaveCallOK(r) /\ r.pc = "fetching" /\ r.todo = <<>> /\ Saves!Ends(c, status, r.asked)
      /\ UNCHANGED <<legacy, files, record, crowded>>
  BY DEF SaveTyped, Saves!AnswerSave, Saves!In
<1>1. /\ r.batch = <<>> /\ r.status = "none" /\ r.op \in {"save", "specific"}
      /\ r.op = "save" => r.asked \subseteq Letters
  BY <1>0 DEF SaveCallOK
<1>2. status \in {"error", "partial", "success"} /\ (status = "success" => ~r.errors)
  BY DEF Saves!SaveStatus
<1> HIDE DEF status
<1>3. /\ OthersSame(c) /\ SaveCallOK(s) /\ s.pc = "done" /\ s.status = status /\ s.op = r.op
      /\ s.store = r.store /\ s.asked = r.asked
  BY <1>0, <1>1, <1>2, EndsIs
<1>4. AskedOf(r, record) => AskedOf(s, record)
  <2>1. \A l : ~Within(l, <<>>)
    BY DEF Within
  <2> HIDE DEF s
  <2> QED BY <1>0, <1>1, <1>2, <1>3, <2>1 DEF AskedOf
<1> QED BY <1>0, <1>3, <1>4 DEF Quiet, s

\* A mail that is done comes on the list, if all of it was saved.
Recorded(c) ==
  LET l == fileCall[c].batch[1] IN
  /\ fileCall[c].op = "save" /\ fileCall[c].store # "memory" /\ fileCall[c].clean
  /\ fileCall[c].pc = "items" /\ l \in Letters /\ fileCall[c].item = Len(MailItems[l]) + 1
  /\ record' = [record EXCEPT ![l] = [refs |-> fileCall[c].refs, done |-> TRUE,
                                       text |-> fileCall[c].text]]

LEMMA MailDoneStep ==
  ASSUME Saves!FilesAssumption, SaveTyped, NEW c \in SaveCalls, Saves!MailDone(c)
  PROVE  /\ Quiet(c) /\ DOMAIN record' = Letters
         /\ ~legacy => \/ UNCHANGED record
                       \/ Recorded(c)
         /\ ~legacy /\ AskedOf(fileCall[c], record) => AskedOf(fileCall'[c], record')
<1> DEFINE r == fileCall[c]
           s == fileCall'[c]
           l == r.batch[1]
           kept == [refs |-> r.refs, done |-> TRUE, text |-> r.text]
           known == [Saves!Records(c) EXCEPT ![l] = kept]
           next == [batch |-> Tail(r.batch), processed |-> r.processed + 1, pc |-> "mails"]
           loaded == IF legacy THEN known ELSE << >>
           with == [loaded |-> loaded]
           f == Saves!++(next, with)
           keep == r.store # "memory" /\ r.clean
<1>0. /\ SaveCallOK(r) /\ r.pc = "items" /\ r.op = "save" /\ r.item > Len(MailItems[Saves!Letter(c)])
      /\ UNCHANGED <<legacy, files, crowded>> /\ DOMAIN record = Letters
      /\ legacy => DOMAIN r.loaded = Letters
  BY DEF SaveTyped, Saves!MailDone, Saves!In, Saves!AllItemsSeen
<1>1. Saves!Letter(c) = l
  BY <1>0 DEF Saves!Letter
<1>2. IF keep THEN record' = known /\ Saves!Upd(c, f) ELSE UNCHANGED record /\ Saves!Upd(c, next)
  BY <1>1 DEF Saves!MailDone, Saves!Complete
<1>3. /\ r.batch \in Seq(Letters) /\ r.batch # <<>> /\ l \in Letters /\ r.status = "none"
      /\ Tail(r.batch) \in Seq(Letters) /\ \A x : Within(x, r.batch) => x = l \/ Within(x, Tail(r.batch))
  <2>1. r.batch \in Seq(Letters) /\ r.batch # <<>> /\ r.status = "none"
    BY <1>0 DEF SaveCallOK
  <2> QED BY <2>1, HeadGone
<1>4. r.item = Len(MailItems[l]) + 1
  <2>1. r.item <= Len(MailItems[l]) + 1 /\ r.item \in Nat
    BY <1>0 DEF SaveCallOK
  <2>2. Len(MailItems[l]) \in Nat
    BY <1>3, SaveConstants
  <2>3. r.item > Len(MailItems[l])
    BY <1>0, <1>1
  <2> HIDE DEF l, r
  <2> QED BY <2>1, <2>2, <2>3
<1>5. kept.done
  OBVIOUS
<1>6. /\ DOMAIN known = Letters /\ known[l] = kept
      /\ ~legacy => known = [record EXCEPT ![l] = kept] /\ \A x \in Letters \ {l} : known[x] = record[x]
  BY <1>0, <1>3 DEF Saves!Records
<1> HIDE DEF known
<1>7. legacy => DOMAIN loaded = Letters
  BY <1>6
<1>8. /\ DOMAIN next = {"batch", "processed", "pc"} /\ next["batch"] = Tail(r.batch)
      /\ next["processed"] = r.processed + 1 /\ next["pc"] = "mails"
      /\ DOMAIN with = {"loaded"} /\ with["loaded"] = loaded
  OBVIOUS
<1>9. /\ DOMAIN f = DOMAIN next \cup DOMAIN with
      /\ \A k \in DOMAIN next : f[k] = next[k]
      /\ \A k \in DOMAIN with : k \notin DOMAIN next => f[k] = with[k]
  <2> HIDE DEF next, with
  <2> QED BY Merged
<1> HIDE DEF f, next, with, loaded
<1>10. /\ DOMAIN f = {"batch", "processed", "pc", "loaded"} /\ f["batch"] = Tail(r.batch)
       /\ f["processed"] = r.processed + 1 /\ f["pc"] = "mails" /\ f["loaded"] = loaded
  BY <1>8, <1>9
<1>11. /\ OthersSame(c) /\ DOMAIN s = SaveFields
       /\ s["batch"] = Tail(r.batch) /\ s["processed"] = r.processed + 1 /\ s["pc"] = "mails"
       /\ s["loaded"] = loaded \/ s["loaded"] = r["loaded"]
       /\ \A k \in SaveFields \ {"batch", "processed", "pc", "loaded"} : s[k] = r[k]
  <2> HIDE DEF s
  <2>1. CASE keep
    <3>1. /\ OthersSame(c) /\ DOMAIN s = SaveFields
          /\ \A k \in DOMAIN f : s[k] = f[k]
          /\ \A k \in SaveFields \ DOMAIN f : s[k] = r[k]
      BY <1>2, <1>10, <2>1, UpdIs DEF OthersSame, SaveFields, s
    <3> QED BY <1>10, <3>1 DEF SaveFields
  <2>2. CASE ~keep
    <3>1. /\ OthersSame(c) /\ DOMAIN s = SaveFields
          /\ \A k \in DOMAIN next : s[k] = next[k]
          /\ \A k \in SaveFields \ DOMAIN next : s[k] = r[k]
      BY <1>2, <1>8, <2>2, UpdIs DEF OthersSame, SaveFields, s
    <3> QED BY <1>8, <3>1 DEF SaveFields
  <2> QED BY <2>1, <2>2
<1> HIDE DEF s
<1>12. /\ s.op = r.op /\ s.store = r.store /\ s.asked = r.asked /\ s.todo = r.todo
       /\ s.batch = Tail(r.batch) /\ s.pc = "mails" /\ s.processed = r.processed + 1
       /\ s.loaded = loaded \/ s.loaded = r.loaded
       /\ s.item = r.item /\ s.clean = r.clean /\ s.usage = r.usage /\ s.budget = r.budget
       /\ s.chunk = r.chunk /\ s.errors = r.errors /\ s.status = r.status /\ s.text = r.text
  BY <1>11 DEF SaveFields
<1>13. SaveCallOK(s)
  <2>1. r.processed \in Nat
    BY <1>0 DEF SaveCallOK
  <2>2. s.processed \in Nat
    BY <1>12, <2>1
  <2> QED BY <1>0, <1>3, <1>11, <1>12, <2>2 DEF SaveCallOK
<1>14. legacy => DOMAIN s.loaded = Letters
  BY <1>0, <1>7, <1>12
<1>15. Quiet(c)
  BY <1>0, <1>11, <1>12, <1>13, <1>14 DEF Quiet, s
<1>16. DOMAIN record' = Letters
  BY <1>0, <1>2, <1>6
<1>17. ~legacy => UNCHANGED record \/ Recorded(c)
  <2>1. CASE keep /\ ~legacy
    <3>1. record' = [record EXCEPT ![l] = kept]
      BY <1>2, <1>6, <2>1
    <3> QED BY <1>0, <1>3, <1>4, <2>1, <3>1 DEF Recorded
  <2> QED BY <1>2, <2>1
<1>18. ~legacy /\ AskedOf(r, record) => AskedOf(s, record')
  <2> SUFFICES ASSUME ~legacy, AskedOf(r, record), s.op = "save", s.store # "memory", ~s.errors,
                      s.status \in {"none", "success"}, NEW x \in s.asked
               PROVE  record'[x].done \/ Within(x, s.todo) \/ Within(x, s.batch)
    BY DEF AskedOf
  <2>1. ~r.errors => r.clean
    BY <1>0 DEF SaveCallOK
  <2>2. keep /\ record' = known
    BY <1>2, <1>12, <2>1
  <2>3. x \in Letters /\ (record[x].done \/ Within(x, r.todo) \/ Within(x, r.batch))
    BY <1>0, <1>12 DEF AskedOf, SaveCallOK
  <2>4. x = l => record'[x].done
    BY <1>5, <1>6, <2>2
  <2>5. x # l => record'[x] = record[x]
    BY <1>6, <2>2, <2>3
  <2> QED BY <1>3, <1>12, <2>3, <2>4, <2>5
<1> QED BY <1>15, <1>16, <1>17, <1>18 DEF s

\* Of the first n items of a mail those that are wanted are where the list of its files says.
Placed(refs, n, l, text, f) ==
  /\ DOMAIN refs = WantedIn(l, n, text)
  /\ \A i \in DOMAIN refs : refs[i] \in DOMAIN f /\ (refs[i][1] = "local" => f[refs[i]] = <<l, i>>)
RefsOf(r, f) ==
  r.op = "save" /\ r.store # "memory" /\ r.clean /\ r.pc \in {"items", "uploading"} =>
    Placed(r.refs, r.item - 1, r.batch[1], r.text, f)
SavedOf(e, l, f) == e.done => Placed(e.refs, Len(MailItems[l]), l, e.text, f)

\* A call that counts knows of every byte of the user, and of no more than the quota.
Counts(r, bytes) ==
  r.pc # "done" /\ r.usage # Saves!Unscanned => bytes <= r.usage /\ r.usage <= Quota

SaveInv ==
  /\ SaveTyped
  /\ ~legacy => /\ \A l \in Letters : SavedOf(record[l], l, files)
                /\ \A c \in SaveCalls : RefsOf(fileCall[c], files) /\ AskedOf(fileCall[c], record)
                /\ ~crowded => /\ BytesOf(files) <= Quota
                               /\ \A c \in SaveCalls : Counts(fileCall[c], BytesOf(files))

LEMMA PlacedKept ==
  ASSUME FilesKeep, NEW refs, NEW n, NEW l, NEW text, Placed(refs, n, l, text, files)
  PROVE  Placed(refs, n, l, text, files')
<1>1. DOMAIN refs = WantedIn(l, n, text)
  BY DEF Placed
<1>2. ASSUME NEW i \in DOMAIN refs
      PROVE  refs[i] \in DOMAIN files' /\ (refs[i][1] = "local" => files'[refs[i]] = <<l, i>>)
  <2>1. refs[i] \in DOMAIN files /\ (refs[i][1] = "local" => files[refs[i]] = <<l, i>>)
    BY DEF Placed
  <2>2. refs[i] \in DOMAIN files' /\ (refs[i][1] = "local" => files'[refs[i]] = files[refs[i]])
    BY <2>1 DEF FilesKeep
  <2> QED BY <2>1, <2>2
<1> QED BY <1>1, <1>2 DEF Placed

LEMMA PlacedMore ==
  ASSUME FilesKeep, NEW refs, NEW n \in Nat \ {0}, NEW l, NEW text, Placed(refs, n - 1, l, text, files),
         Wants(l, n, text), NEW at,
         at \in DOMAIN files', at[1] = "local" => files'[at] = <<l, n>>
  PROVE  Placed(Saves!Put(refs, n, at), n, l, text, files')
<1> DEFINE new == Saves!Put(refs, n, at)
<1>1. DOMAIN refs = WantedIn(l, n - 1, text)
  BY DEF Placed
<1>a. WantedIn(l, n, text) = WantedIn(l, n - 1, text) \cup {n} /\ n \notin WantedIn(l, n - 1, text)
  BY DEF WantedIn
<1>2. DOMAIN new = WantedIn(l, n, text) /\ new[n] = at /\ \A i \in DOMAIN refs : new[i] = refs[i]
  BY <1>1, <1>a DEF Saves!Put
<1> HIDE DEF new
<1>3. Placed(refs, n - 1, l, text, files')
  BY PlacedKept
<1> QED BY <1>1, <1>a, <1>2, <1>3 DEF Placed, new

\* An item that is not wanted needs no place.
LEMMA PlacedAlike ==
  ASSUME FilesKeep, NEW refs, NEW n \in Nat \ {0}, NEW l, NEW text, Placed(refs, n - 1, l, text, files),
         ~Wants(l, n, text)
  PROVE  Placed(refs, n, l, text, files')
<1>1. WantedIn(l, n, text) = WantedIn(l, n - 1, text)
  BY DEF WantedIn
<1> QED BY <1>1, PlacedKept DEF Placed

\* A step of one call, as far as the promises can tell.
Charged(c) ==
  \/ /\ UNCHANGED crowded /\ BytesOf(files') = BytesOf(files) /\ fileCall[c].pc # "done"
     /\ fileCall'[c].pc # "done" => fileCall'[c].usage = fileCall[c].usage
  \/ /\ crowded' = (crowded \/ OthersCount(c))
     /\ \/ BytesOf(files') = BytesOf(files) /\ fileCall'[c].pc = "done"
        \/ /\ fileCall[c].pc # "done"
           /\ \E n \in Nat : /\ fileCall'[c].usage = Counted(c) + n /\ fileCall'[c].usage <= Quota
                             /\ BytesOf(files') <= BytesOf(files) + n
Moves(c) ==
  /\ UNCHANGED legacy /\ OthersSame(c) /\ SaveCallOK(fileCall'[c])
  /\ FilesTyped' /\ DOMAIN record' = Letters /\ crowded' \in BOOLEAN
  /\ legacy /\ fileCall'[c].op = "save" /\ fileCall'[c].pc # "done" => DOMAIN fileCall'[c].loaded = Letters
  /\ ~legacy => /\ FilesKeep /\ (UNCHANGED record \/ Recorded(c))
                /\ RefsOf(fileCall'[c], files') /\ AskedOf(fileCall'[c], record')
                /\ Charged(c)

LEMMA QuietMoves ==
  ASSUME Saves!FilesAssumption, SaveInv, NEW c \in SaveCalls, Quiet(c), DOMAIN record' = Letters,
         ~legacy => UNCHANGED record \/ Recorded(c),
         ~legacy => AskedOf(fileCall'[c], record')
  PROVE  Moves(c)
<1>1. FilesTyped /\ crowded \in BOOLEAN
  BY DEF SaveInv, SaveTyped
<1>2. FilesTyped' /\ FilesKeep /\ BytesOf(files') = BytesOf(files)
  BY <1>1, NoStore DEF Quiet
<1>3. RefsOf(fileCall'[c], files')
  <2>1. fileCall'[c].pc \in {"items", "uploading"} => fileCall'[c].item = 1 /\ fileCall'[c].refs = << >>
    BY DEF Quiet
  <2>2. \A l, text : WantedIn(l, 0, text) = {}
    BY DEF WantedIn
  <2>3. ASSUME NEW l, NEW text
        PROVE  Placed(<< >>, 0, l, text, files')
    <3>1. DOMAIN << >> = {}
      OBVIOUS
    <3> QED BY <2>2, <3>1, Zenon DEF Placed
  <2>4. CASE fileCall'[c].pc \in {"items", "uploading"}
    <3>1. fileCall'[c].item - 1 = 0 /\ fileCall'[c].refs = << >>
      BY <2>1, <2>4
    <3> QED BY <2>3, <3>1 DEF RefsOf
  <2>5. CASE fileCall'[c].pc \notin {"items", "uploading"}
    BY <2>5 DEF RefsOf
  <2> QED BY <2>4, <2>5
<1>4. Charged(c)
  BY <1>2 DEF Charged, Quiet
<1> QED BY <1>1, <1>2, <1>3, <1>4 DEF Moves, Quiet

LEMMA PassedAsks ==
  ASSUME SaveInv, NEW c \in SaveCalls, ~legacy, UNCHANGED record, FilesKeep,
         fileCall[c].pc \in {"items", "uploading"}, KeptOf(fileCall[c], fileCall'[c]), WentOn(c)
  PROVE  RefsOf(fileCall'[c], files') /\ AskedOf(fileCall'[c], record')
<1> DEFINE r == fileCall[c]
           s == fileCall'[c]
<1>1. RefsOf(r, files) /\ AskedOf(r, record) /\ r.item \in Nat \ {0}
  BY DEF SaveInv, SaveTyped, SaveCallOK
<1>2. /\ s.op = r.op /\ s.store = r.store /\ s.asked = r.asked /\ s.todo = r.todo
      /\ s.status = r.status /\ s.text = r.text
  BY DEF KeptOf
<1>6. r.pc \in {"items", "uploading"}
  OBVIOUS
<1>3. CASE r.op # "save" \/ (s.errors /\ ~s.clean)
  BY <1>2, <1>3 DEF RefsOf, AskedOf
<1>4. CASE /\ s.clean = r.clean /\ s.errors = r.errors /\ s.pc = "items" /\ s.batch = r.batch
           /\ s.item = r.item + 1 /\ Presents(c)
           /\ \E at : /\ s.refs = Saves!Put(r.refs, r.item, at)
                      /\ r.store # "memory" =>
                           /\ at \in DOMAIN files'
                           /\ at[1] = "local" => files'[at] = <<r.batch[1], r.item>>
  <2>1. AskedOf(s, record')
    BY <1>1, <1>2, <1>4 DEF AskedOf
  <2>2. PICK at : /\ s.refs = Saves!Put(r.refs, r.item, at)
                  /\ r.store # "memory" =>
                       /\ at \in DOMAIN files'
                       /\ at[1] = "local" => files'[at] = <<r.batch[1], r.item>>
    BY <1>4, Zenon
  <2>3. ASSUME s.op = "save", s.store # "memory", s.clean
        PROVE  Placed(s.refs, s.item - 1, s.batch[1], s.text, files')
    <3>1. Placed(r.refs, r.item - 1, r.batch[1], r.text, files) /\ Wants(r.batch[1], r.item, r.text)
      BY <1>1, <1>2, <1>4, <1>6, <2>3 DEF RefsOf, Presents
    <3>2. Placed(Saves!Put(r.refs, r.item, at), r.item, r.batch[1], r.text, files')
      BY <1>1, <1>2, <2>2, <2>3, <3>1, PlacedMore
    <3>3. s.item - 1 = r.item
      BY <1>1, <1>4
    <3> QED BY <1>2, <1>4, <2>2, <3>2, <3>3
  <2> QED BY <2>1, <2>3 DEF RefsOf
<1>5. CASE /\ s.clean = r.clean /\ s.errors = r.errors /\ s.pc = "items" /\ s.batch = r.batch
           /\ s.item = r.item + 1 /\ ~Presents(c) /\ s.refs = r.refs
  <2>1. AskedOf(s, record')
    BY <1>1, <1>2, <1>5 DEF AskedOf
  <2>2. ASSUME s.op = "save", s.store # "memory", s.clean
        PROVE  Placed(s.refs, s.item - 1, s.batch[1], s.text, files')
    <3>1. Placed(r.refs, r.item - 1, r.batch[1], r.text, files) /\ ~Wants(r.batch[1], r.item, r.text)
      BY <1>1, <1>2, <1>5, <1>6, <2>2 DEF RefsOf, Presents
    <3>2. Placed(r.refs, r.item, r.batch[1], r.text, files')
      BY <1>1, <3>1, PlacedAlike
    <3>3. s.item - 1 = r.item
      BY <1>1, <1>5
    <3> QED BY <1>2, <1>5, <3>2, <3>3
  <2> QED BY <2>1, <2>2 DEF RefsOf
<1> QED BY <1>3, <1>4, <1>5 DEF WentOn

LEMMA StepMoves ==
  ASSUME Saves!FilesAssumption, SaveInv, NEW c \in SaveCalls,
         \/ Saves!BeginSave(c) \/ Saves!BeginSpecific(c) \/ Saves!NoToken(c) \/ Saves!FetchBatch(c)
         \/ Saves!NextMail(c) \/ Saves!BatchDone(c) \/ Saves!SkipItem(c) \/ Saves!RefuseItem(c)
         \/ Saves!KeepInMemory(c) \/ Saves!SaveLocal(c) \/ Saves!SaveLegacy(c) \/ Saves!UploadSimple(c)
         \/ Saves!OpenSession(c) \/ Saves!UploadChunk(c) \/ Saves!ConnectAgain(c) \/ Saves!MailDone(c)
         \/ Saves!AnswerSave(c)
  PROVE  Moves(c)
<1> DEFINE r == fileCall[c]
           s == fileCall'[c]
<1>1. /\ SaveTyped /\ FilesTyped /\ SaveCallOK(r) /\ crowded \in BOOLEAN /\ DOMAIN record = Letters
      /\ legacy /\ r.op = "save" /\ r.pc # "done" => DOMAIN r.loaded = Letters
  BY DEF SaveInv, SaveTyped
<1>2. ~legacy => AskedOf(r, record) /\ RefsOf(r, files)
  BY DEF SaveInv
<1>3. CASE \/ Saves!BeginSave(c) \/ Saves!BeginSpecific(c) \/ Saves!FetchBatch(c) \/ Saves!NextMail(c)
           \/ Saves!BatchDone(c) \/ Saves!ConnectAgain(c) \/ Saves!AnswerSave(c) \/ Saves!NoToken(c)
  <2>1. Quiet(c) /\ UNCHANGED record /\ (~legacy => AskedOf(s, record'))
    BY <1>1, <1>2, <1>3, BeginSaveStep, BeginSpecificStep, FetchStep, NextMailStep, BatchDoneStep,
       ConnectStep, AnswerStep, NoTokenStep
  <2> QED BY <1>1, <2>1, QuietMoves
<1>4. CASE Saves!MailDone(c)
  <2>1. /\ Quiet(c) /\ DOMAIN record' = Letters /\ (~legacy => UNCHANGED record \/ Recorded(c))
        /\ ~legacy => AskedOf(s, record')
    BY <1>1, <1>2, <1>4, MailDoneStep
  <2> QED BY <2>1, QuietMoves
<1>5. CASE \/ Saves!SkipItem(c) \/ Saves!RefuseItem(c) \/ Saves!KeepInMemory(c)
           \/ Saves!SaveLegacy(c) \/ Saves!UploadSimple(c) \/ Saves!OpenSession(c) \/ Saves!UploadChunk(c)
  <2>1. ItemEffect(c)
    BY <1>1, <1>5, ItemSteps
  <2>2. r.pc \in {"items", "uploading"}
    BY <1>5, <1>1, ItemIs
       DEF Saves!SkipItem, Saves!RefuseItem, Saves!KeepInMemory, Saves!SaveLegacy, Saves!UploadSimple,
           Saves!OpenSession, Saves!UploadChunk, Saves!In
  <2>3. OthersSame(c) /\ SaveCallOK(s) /\ KeptOf(r, s) /\ s.pc # "done" /\ s.usage = r.usage
    <3>1. CASE Uploads(c)
      BY <3>1 DEF Uploads
    <3>2. CASE Passed(c, << >>)
      BY <3>2 DEF Passed, UsageAfter
    <3> QED BY <2>1, <3>1, <3>2 DEF ItemEffect
  <2>4. ~legacy => RefsOf(s, files') /\ AskedOf(s, record')
    <3> SUFFICES ASSUME ~legacy PROVE RefsOf(s, files') /\ AskedOf(s, record')
      OBVIOUS
    <3>1. FilesKeep /\ UNCHANGED record
      BY <2>1 DEF ItemEffect
    <3>2. CASE Uploads(c)
      <4>1. /\ s.op = r.op /\ s.store = r.store /\ s.asked = r.asked /\ s.todo = r.todo
            /\ s.status = r.status /\ s.clean = r.clean /\ s.errors = r.errors /\ s.batch = r.batch
            /\ s.item = r.item /\ s.refs = r.refs /\ s.text = r.text
        BY <3>2 DEF Uploads, KeptOf
      <4>2. AskedOf(s, record')
        BY <1>2, <3>1, <4>1 DEF AskedOf
      <4>3. RefsOf(s, files')
        BY <1>2, <2>2, <3>1, <4>1, PlacedKept DEF RefsOf
      <4> QED BY <4>2, <4>3
    <3>3. CASE WentOn(c)
      BY <2>2, <2>3, <3>1, <3>3, PassedAsks
    <3> QED BY <2>1, <3>2, <3>3 DEF ItemEffect
  <2>5. ~legacy => Charged(c)
    <3>1. ~legacy => BytesOf(files') = BytesOf(files)
      BY <1>1, <2>1, BytesSame DEF ItemEffect
    <3>2. UNCHANGED crowded
      BY <2>1 DEF ItemEffect
    <3> QED BY <2>2, <2>3, <3>1, <3>2 DEF Charged
  <2>6. /\ FilesTyped' /\ UNCHANGED <<legacy, record, crowded>> /\ (~legacy => FilesKeep)
    BY <2>1 DEF ItemEffect
  <2>7. legacy /\ s.op = "save" => DOMAIN s.loaded = Letters
    BY <1>1, <2>2, <2>3 DEF KeptOf
  <2> QED BY <1>1, <2>3, <2>4, <2>5, <2>6, <2>7 DEF Moves
<1>6. CASE Saves!SaveLocal(c)
  <2>1. LocalEffect(c)
    BY <1>1, <1>6, LocalStep
  <2>2. r.pc \in {"items", "uploading"}
    BY <1>6, <1>1, ItemIs DEF Saves!SaveLocal
  <2>3. /\ ~legacy /\ UNCHANGED <<legacy, record>> /\ crowded' = (crowded \/ OthersCount(c))
        /\ FilesTyped' /\ FilesKeep
    BY <2>1 DEF LocalEffect
  <2>4. crowded' \in BOOLEAN
    BY <1>1, <2>3
  <2>5. CASE CutShort(c, "quota_exceeded") /\ UNCHANGED files
    <3>1. OthersSame(c) /\ SaveCallOK(s) /\ s.pc = "done" /\ s.status = "quota_exceeded"
      BY <2>5 DEF CutShort
    <3>2. RefsOf(s, files') /\ AskedOf(s, record')
      BY <3>1 DEF RefsOf, AskedOf
    <3>3. Charged(c)
      BY <2>3, <2>5, <3>1 DEF Charged
    <3> QED BY <1>1, <2>3, <2>4, <3>1, <3>2, <3>3 DEF Moves
  <2>6. CASE /\ OthersSame(c) /\ SaveCallOK(s) /\ KeptOf(r, s) /\ WentOn(c) /\ s.pc # "done"
             /\ \E n \in Nat : /\ s.usage = Counted(c) + n /\ s.usage <= Quota
                               /\ BytesOf(files') <= BytesOf(files) + n
    <3>1. RefsOf(s, files') /\ AskedOf(s, record')
      BY <2>2, <2>3, <2>6, PassedAsks
    <3>2. Charged(c)
      BY <2>2, <2>3, <2>6 DEF Charged
    <3> QED BY <1>1, <2>3, <2>4, <2>6, <3>1, <3>2 DEF Moves
  <2> QED BY <2>1, <2>5, <2>6 DEF LocalEffect
<1> QED BY <1>3, <1>4, <1>5, <1>6

LEMMA MovesKeep ==
  ASSUME Saves!FilesAssumption, SaveInv, NEW c \in SaveCalls, Moves(c)
  PROVE  SaveInv'
<1> DEFINE r == fileCall[c]
           s == fileCall'[c]
<1>1. /\ SaveTyped /\ UNCHANGED legacy /\ DOMAIN fileCall' = SaveCalls /\ SaveCallOK(s)
      /\ \A d \in SaveCalls \ {c} : fileCall'[d] = fileCall[d]
      /\ FilesTyped' /\ DOMAIN record' = Letters /\ crowded' \in BOOLEAN
      /\ legacy /\ s.op = "save" /\ s.pc # "done" => DOMAIN s.loaded = Letters
  BY DEF SaveInv, Moves, OthersSame
<1>2. \A d \in SaveCalls : /\ SaveCallOK(fileCall'[d])
                           /\ legacy /\ fileCall'[d].op = "save" /\ fileCall'[d].pc # "done" =>
                                DOMAIN fileCall'[d].loaded = Letters
  BY <1>1 DEF SaveTyped
<1>3. SaveTyped'
  BY <1>1, <1>2 DEF SaveTyped
<1>4. ASSUME ~legacy
      PROVE  /\ \A l \in Letters : SavedOf(record'[l], l, files')
             /\ \A d \in SaveCalls : RefsOf(fileCall'[d], files') /\ AskedOf(fileCall'[d], record')
             /\ ~crowded' => /\ BytesOf(files') <= Quota
                             /\ \A d \in SaveCalls : Counts(fileCall'[d], BytesOf(files'))
  <2>1. /\ FilesKeep /\ (UNCHANGED record \/ Recorded(c)) /\ RefsOf(s, files')
        /\ AskedOf(s, record') /\ Charged(c)
    BY <1>4 DEF Moves
  <2>2. /\ \A l \in Letters : SavedOf(record[l], l, files)
        /\ \A d \in SaveCalls : RefsOf(fileCall[d], files) /\ AskedOf(fileCall[d], record)
        /\ ~crowded => BytesOf(files) <= Quota /\ \A d \in SaveCalls : Counts(fileCall[d], BytesOf(files))
    BY <1>4 DEF SaveInv
  <2> DEFINE l == r.batch[1]
             kept == [refs |-> r.refs, done |-> TRUE, text |-> r.text]
  <2>3. Recorded(c) => /\ l \in Letters /\ record'[l] = kept /\ DOMAIN record = Letters
                       /\ \A x \in Letters \ {l} : record'[x] = record[x]
    BY <1>1 DEF Recorded, SaveTyped
  <2>4. kept.done /\ kept.refs = r.refs /\ kept.text = r.text
    OBVIOUS
  <2>5. Recorded(c) => Placed(r.refs, Len(MailItems[l]), l, r.text, files')
    <3> SUFFICES ASSUME Recorded(c) PROVE Placed(r.refs, Len(MailItems[l]), l, r.text, files')
      OBVIOUS
    <3>1. /\ r.op = "save" /\ r.store # "memory" /\ r.clean /\ r.pc = "items" /\ l \in Letters
          /\ r.item = Len(MailItems[l]) + 1
      BY DEF Recorded
    <3>2. Placed(r.refs, r.item - 1, l, r.text, files)
      BY <2>2, <3>1 DEF RefsOf
    <3>3. r.item - 1 = Len(MailItems[l])
      BY <3>1, SaveConstants
    <3> QED BY <2>1, <3>2, <3>3, PlacedKept
  <2> HIDE DEF kept, l
  <2>6. \A x \in Letters : SavedOf(record'[x], x, files')
    <3>1. \A x \in Letters : SavedOf(record[x], x, files')
      BY <2>1, <2>2, PlacedKept DEF SavedOf
    <3>2. Recorded(c) => SavedOf(record'[l], l, files')
      BY <2>3, <2>4, <2>5 DEF SavedOf
    <3> QED BY <2>1, <2>3, <3>1, <3>2
  <2>7. \A x \in Letters : record[x].done => record'[x].done
    BY <2>1, <2>3, <2>4
  <2>8. ASSUME NEW d \in SaveCalls \ {c}
        PROVE  RefsOf(fileCall'[d], files') /\ AskedOf(fileCall'[d], record')
    <3>1. RefsOf(fileCall[d], files) /\ AskedOf(fileCall[d], record) /\ fileCall'[d] = fileCall[d]
      BY <1>1, <2>2
    <3>2. RefsOf(fileCall[d], files')
      BY <2>1, <3>1, PlacedKept DEF RefsOf
    <3>3. fileCall[d].op = "save" => fileCall[d].asked \subseteq Letters
      BY <1>1 DEF SaveTyped, SaveCallOK
    <3>4. AskedOf(fileCall[d], record')
      BY <2>7, <3>1, <3>3 DEF AskedOf
    <3> QED BY <3>1, <3>2, <3>4
  <2>9. ASSUME ~crowded'
        PROVE  BytesOf(files') <= Quota /\ \A d \in SaveCalls : Counts(fileCall'[d], BytesOf(files'))
    <3>0. /\ BytesOf(files) \in Nat /\ Quota \in Nat /\ r.usage \in Nat /\ Saves!Unscanned = Quota + 1
      BY <1>1, BytesTyped, SaveConstants DEF SaveTyped, SaveCallOK, Saves!Unscanned
    <3>a. FilesTyped
      BY <1>1 DEF SaveTyped
    <3>b. BytesOf(files') \in Nat
      <4>1. LocalPlaces(files') \subseteq DOMAIN files'
        BY DEF LocalPlaces
      <4>2. IsFiniteSet(LocalPlaces(files'))
        BY <1>1, <4>1, FS_Subset DEF FilesTyped
      <4>3. \A at \in DOMAIN files' : SizesOf(files')[at] \in Nat
        <5>1. \A at \in DOMAIN files' : files'[at][1] \in Letters /\ files'[at][2] \in ItemsOf(files'[at][1])
          BY <1>1 DEF FilesTyped, ItemsOf
        <5> QED BY <5>1, SaveConstants DEF SizesOf
      <4> QED BY <4>1, <4>2, <4>3, SumNat DEF BytesOf
    <3>1. CASE /\ UNCHANGED crowded /\ BytesOf(files') = BytesOf(files) /\ r.pc # "done"
               /\ s.pc # "done" => s.usage = r.usage
      BY <1>1, <2>2, <2>9, <3>1 DEF Counts
    <3>2. CASE /\ crowded' = (crowded \/ OthersCount(c))
               /\ BytesOf(files') = BytesOf(files) /\ s.pc = "done"
      BY <1>1, <2>2, <2>9, <3>2 DEF Counts
    <3>3. CASE /\ crowded' = (crowded \/ OthersCount(c)) /\ r.pc # "done"
               /\ \E n \in Nat : /\ s.usage = Counted(c) + n /\ s.usage <= Quota
                                 /\ BytesOf(files') <= BytesOf(files) + n
      <4>1. ~crowded /\ ~OthersCount(c)
        BY <2>9, <3>3
      <4>2. PICK n \in Nat : /\ s.usage = Counted(c) + n /\ s.usage <= Quota
                             /\ BytesOf(files') <= BytesOf(files) + n
        BY <3>3
      <4>3. Counted(c) \in Nat /\ BytesOf(files) <= Counted(c)
        BY <2>2, <3>0, <3>3, <4>1 DEF Counted, Counts
      <4>4. BytesOf(files') <= s.usage
        <5> HIDE DEF s
        <5> QED BY <3>0, <3>b, <4>2, <4>3
      <4>5. BytesOf(files') <= Quota /\ Counts(s, BytesOf(files'))
        <5> HIDE DEF s
        <5>1. s.usage \in Nat
          BY <4>2, <4>3
        <5> QED BY <3>0, <3>b, <4>2, <4>4, <5>1 DEF Counts
      <4>6. \A d \in SaveCalls \ {c} : Counts(fileCall'[d], BytesOf(files'))
        BY <1>1, <4>1 DEF Counts, OthersCount
      <4> QED BY <4>5, <4>6
    <3> QED BY <2>1, <3>1, <3>2, <3>3 DEF Charged
  <2> QED BY <2>1, <2>6, <2>8, <2>9
<1>5. ASSUME ~legacy'
      PROVE  /\ \A l \in Letters : SavedOf(record'[l], l, files')
             /\ \A d \in SaveCalls : RefsOf(fileCall'[d], files') /\ AskedOf(fileCall'[d], record')
             /\ ~crowded' => /\ BytesOf(files') <= Quota
                             /\ \A d \in SaveCalls : Counts(fileCall'[d], BytesOf(files'))
  BY <1>1, <1>4, <1>5
<1> QED BY <1>3, <1>5 DEF SaveInv

LEMMA SaveHolds ==
  ASSUME Saves!FilesAssumption, SaveInv, [Saves!FileNext]_saveVars
  PROVE  SaveInv'
<1>1. CASE UNCHANGED saveVars
  BY <1>1 DEF saveVars, SaveInv, SaveTyped, FilesTyped, LocalPlaces, BytesOf, SizesOf
<1>2. CASE Saves!FileNext
  <2>1. PICK c \in SaveCalls :
          \/ Saves!BeginSave(c) \/ Saves!BeginSpecific(c) \/ Saves!NoToken(c) \/ Saves!FetchBatch(c)
          \/ Saves!NextMail(c) \/ Saves!BatchDone(c) \/ Saves!SkipItem(c) \/ Saves!RefuseItem(c)
          \/ Saves!KeepInMemory(c) \/ Saves!SaveLocal(c) \/ Saves!SaveLegacy(c) \/ Saves!UploadSimple(c)
          \/ Saves!OpenSession(c) \/ Saves!UploadChunk(c) \/ Saves!ConnectAgain(c) \/ Saves!MailDone(c)
          \/ Saves!AnswerSave(c)
    BY <1>2, Zenon DEF Saves!FileNext
  <2> QED BY <2>1, StepMoves, MovesKeep
<1> QED BY <1>1, <1>2

LEMMA SaveStart ==
  ASSUME Saves!FilesAssumption, Saves!FileInit
  PROVE  SaveInv
<1> DEFINE idle == Saves!IdleSave
           none == Saves!NoRecord
<1>1. /\ legacy \in BOOLEAN /\ files = << >> /\ record = [l \in Letters |-> none]
      /\ crowded = FALSE /\ fileCall = [c \in SaveCalls |-> idle]
  BY DEF Saves!FileInit
<1>2. /\ DOMAIN idle = SaveFields /\ idle.op = "none" /\ idle.pc = "idle" /\ idle.item = 1
      /\ idle.usage = Saves!Unscanned /\ idle.budget = RequestBudget /\ idle.chunk = 0
      /\ idle.clean = TRUE /\ idle.errors = FALSE /\ idle.processed = 0 /\ idle.status = "none"
      /\ idle.text = TRUE
  BY DEF Saves!IdleSave, SaveFields
<1>3. none.done = FALSE
  BY DEF Saves!NoRecord
<1>4. SaveCallOK(idle)
  <2>1. idle.clean \in BOOLEAN /\ idle.errors \in BOOLEAN /\ idle.clean /\ idle.text \in BOOLEAN
    BY <1>2, Zenon
  <2>2. /\ idle.item \in Nat \ {0} /\ idle.processed \in Nat /\ idle.usage \in Nat
        /\ idle.budget \in 0 .. RequestBudget /\ idle.chunk \in 0 .. Chunks - 1
    BY <1>2, SaveConstants DEF Saves!Unscanned
  <2> HIDE DEF idle
  <2> QED BY <1>2, <2>1, <2>2 DEF SaveCallOK, idle
<1>5. FilesTyped /\ LocalPlaces(files) = {}
  <2>1. DOMAIN files = {}
    BY <1>1
  <2> QED BY <2>1, FS_EmptySet DEF FilesTyped, LocalPlaces
<1>6. BytesOf(files) = 0
  BY <1>5, EmptySum DEF BytesOf
<1> HIDE DEF idle, none
<1>7. SaveTyped
  BY <1>1, <1>2, <1>4, <1>5 DEF SaveTyped
<1>8. /\ \A l \in Letters : SavedOf(record[l], l, files)
      /\ \A c \in SaveCalls : RefsOf(fileCall[c], files) /\ AskedOf(fileCall[c], record)
  BY <1>1, <1>2, <1>3 DEF SavedOf, RefsOf, AskedOf
<1>9. BytesOf(files) <= Quota /\ \A c \in SaveCalls : Counts(fileCall[c], BytesOf(files))
  BY <1>1, <1>2, <1>6, SaveConstants DEF Counts
<1> QED BY <1>7, <1>8, <1>9 DEF SaveInv

\* What the state of saved mails promises.
LEMMA SaveHeld ==
  ASSUME Saves!FilesAssumption, SaveInv
  PROVE  /\ Saves!FileTypeOK
         /\ Saves!RecordedIsSaved /\ Saves!SuccessIsRecorded /\ Saves!QuotaKept
<1>1. Saves!FileTypeOK
  <2>1. \A c \in SaveCalls :
          /\ fileCall[c].usage \in Nat /\ fileCall[c].budget \in 0 .. RequestBudget
          /\ fileCall[c].chunk \in 0 .. Chunks
          /\ fileCall[c].status \in {"none", "success", "partial", "error", "quota_exceeded", "auth_required"}
    BY SaveConstants DEF SaveInv, SaveTyped, SaveCallOK
  <2> QED BY <2>1 DEF SaveInv, SaveTyped, FilesTyped, Saves!FileTypeOK
<1>2. Saves!RecordedIsSaved
  <2> SUFFICES ASSUME ~legacy, NEW l \in Letters, record[l].done
               PROVE  /\ DOMAIN record[l].refs = Saves!Wanted(l, record[l].text)
                      /\ \A i \in DOMAIN record[l].refs :
                           /\ record[l].refs[i] \in DOMAIN files
                           /\ record[l].refs[i][1] = "local" => files[record[l].refs[i]] = <<l, i>>
    BY DEF Saves!RecordedIsSaved
  <2>1. Placed(record[l].refs, Len(MailItems[l]), l, record[l].text, files)
    BY DEF SaveInv, SavedOf
  <2>2. DOMAIN MailItems[l] = 1 .. Len(MailItems[l])
    BY SaveConstants DEF ItemsOf
  <2>3. Saves!Wanted(l, record[l].text) = WantedIn(l, Len(MailItems[l]), record[l].text)
    BY <2>2 DEF Saves!Wanted, WantedIn, Wants
  <2> QED BY <2>1, <2>3 DEF Placed
<1>3. Saves!SuccessIsRecorded
  <2> SUFFICES ASSUME ~legacy, NEW c \in SaveCalls, fileCall[c].op = "save",
                      fileCall[c].status = "success", fileCall[c].store # "memory",
                      NEW l \in fileCall[c].asked
               PROVE  record[l].done
    BY DEF Saves!SuccessIsRecorded
  <2>1. ~fileCall[c].errors /\ fileCall[c].todo = <<>> /\ fileCall[c].batch = <<>>
    BY DEF SaveInv, SaveTyped, SaveCallOK
  <2>2. record[l].done \/ Within(l, <<>>)
    BY <2>1 DEF SaveInv, AskedOf
  <2>3. ~Within(l, <<>>)
    BY DEF Within
  <2> QED BY <2>2, <2>3
<1>4. Saves!QuotaKept
  BY LocalBytesIs DEF SaveInv, Saves!QuotaKept
<1> QED BY <1>1, <1>2, <1>3, <1>4

\* No step of a call writes over a file of the user.
LEMMA FilesStay ==
  ASSUME Saves!FilesAssumption, SaveInv, [Saves!FileNext]_saveVars
  PROVE  Saves!UserFilesStay
<1> SUFFICES ASSUME ~legacy PROVE \A at \in DOMAIN files : at[1] = "local" =>
                                    at \in DOMAIN files' /\ files'[at] = files[at]
  BY DEF Saves!UserFilesStay
<1>1. CASE UNCHANGED saveVars
  BY <1>1 DEF saveVars
<1>2. CASE Saves!FileNext
  <2>1. PICK c \in SaveCalls :
          \/ Saves!BeginSave(c) \/ Saves!BeginSpecific(c) \/ Saves!NoToken(c) \/ Saves!FetchBatch(c)
          \/ Saves!NextMail(c) \/ Saves!BatchDone(c) \/ Saves!SkipItem(c) \/ Saves!RefuseItem(c)
          \/ Saves!KeepInMemory(c) \/ Saves!SaveLocal(c) \/ Saves!SaveLegacy(c) \/ Saves!UploadSimple(c)
          \/ Saves!OpenSession(c) \/ Saves!UploadChunk(c) \/ Saves!ConnectAgain(c) \/ Saves!MailDone(c)
          \/ Saves!AnswerSave(c)
    BY <1>2, Zenon DEF Saves!FileNext
  <2>2. FilesKeep
    BY <2>1, StepMoves DEF Moves
  <2> QED BY <2>2 DEF FilesKeep
<1> QED BY <1>1, <1>2

-----------------------------------------------------------------------------
(* One component at a time.                                                          *)

LEMMA FilesAssumed ==
  /\ Saves!FilesAssumption /\ Converts!ConversionAssumption /\ Saved!RecordAssumption
  /\ Drive!DriveAssumption /\ Todo!TodoAssumption
BY FilesAssumption

LEMMA OneAtATime ==
  ASSUME [Next]_vars
  PROVE  /\ part' = part
         /\ part = "saves" => [Saves!FileNext]_saveVars
         /\ part = "converts" => [Converts!ConvertNext]_convertVars
         /\ part = "records" => [Saved!RecordNext]_recordVars
         /\ part = "drive" => [Drive!DriveNext]_driveVars
         /\ part = "todo" => [Todo!TodoNext]_todoVars
BY DEF Next, SaveStep, ConvertStep, RecordStep, DriveStep, TodoStep, vars

\* Each component has its invariant while it is at work.
FilesInv ==
  /\ part \in {"saves", "converts", "records", "drive", "todo"}
  /\ part = "saves" => SaveInv
  /\ part = "converts" => ConvertInv
  /\ part = "records" => RecordInv
  /\ part = "drive" => DriveInv
  /\ part = "todo" => TodoInv

LEMMA FilesStart == ASSUME Init PROVE FilesInv
BY FilesAssumed, SaveStart, ConvertStart, RecordStart, DriveStart, TodoStart DEF Init, FilesInv

LEMMA FilesStep == ASSUME FilesInv, [Next]_vars PROVE FilesInv'
<1>1. part = "saves" => SaveInv'
  BY OneAtATime, SaveHolds, FilesAssumed DEF FilesInv
<1>2. part = "converts" => ConvertInv'
  BY OneAtATime, ConvertHolds, FilesAssumed DEF FilesInv
<1>3. part = "records" => RecordInv'
  BY OneAtATime, RecordTypeStep, SearchStep, FilesAssumed DEF FilesInv, RecordInv
<1>4. part = "drive" => DriveInv'
  BY OneAtATime, DriveHolds, FilesAssumed DEF FilesInv
<1>5. part = "todo" => TodoInv'
  BY OneAtATime, TodoHolds, FilesAssumed DEF FilesInv
<1>6. part' = part
  BY OneAtATime
<1> QED BY <1>1, <1>2, <1>3, <1>4, <1>5, <1>6 DEF FilesInv

THEOREM FilesInvariance == Spec => []FilesInv
BY FilesStart, FilesStep, PTL DEF Spec

\* Every variable of the component at work keeps its type.
THEOREM FilesTypeCorrect == Spec => []TypeOK
<1>1. FilesInv => TypeOK
  BY SaveHeld, ConvertHeld, DriveTyped, TodoTyped, FilesAssumed DEF FilesInv, RecordInv, TypeOK
<1> QED BY <1>1, FilesInvariance, PTL

\* What is on the list of those done has its files, with the content of its items, however
\* many calls saved mails of the same name at once; only a text that was not asked for and
\* attachments Graph sends no content of may be lacking.  A success means that all asked
\* for is on the list; calls that do not write at the same time keep the quota; a search
\* finds what it was asked for; an account cut off from OneDrive gets nothing of it.
THEOREM FilesStayTrue == Spec => []FilesAreTrue
<1>1. FilesInv => FilesAreTrue
  BY SaveHeld, DriveTyped, FilesAssumed DEF FilesInv, RecordInv, FilesAreTrue
<1> QED BY <1>1, FilesInvariance, PTL

\* No more converters run than there are slots, each on a directory that is there, within
\* the budget of its call, and none of a service that closed without an error.
THEOREM ConvertersAreHeld == Spec => []ConvertersHold
<1>1. FilesInv => ConvertersHold
  BY ConvertHeld, FilesAssumed DEF FilesInv, ConvertersHold
<1> QED BY <1>1, FilesInvariance, PTL

\* No step of a tool changes a file, a row, an item or a list but the one it was asked to:
\* the user's files stay under their names, rows are their owners', OneDrive's contents
\* stay, a move ends where it looked, a to-do tool keeps to the list its name meant.
THEOREM ToolsChangeWhatTheyName == Spec => OnlyTheNamedChanges
<1>1. FilesInv /\ [Next]_vars => [part = "saves" => Saves!UserFilesStay]_vars
  BY OneAtATime, FilesStay, FilesAssumed DEF FilesInv
<1>2. FilesInv /\ [Next]_vars => [part = "records" => Saved!RowsStayTheirOwners]_vars
  BY OneAtATime, RowsStep, FilesAssumed DEF FilesInv, RecordInv
<1>3. FilesInv /\ [Next]_vars => [part = "drive" => Drive!ContentsStay /\ Drive!MovesWhereItLooked]_vars
  BY OneAtATime, DriveEffects, FilesAssumed DEF FilesInv
<1>4. FilesInv /\ [Next]_vars => [part = "todo" => Todo!TouchesTheNamedList]_vars
  BY OneAtATime, TodoEffects, FilesAssumed DEF FilesInv
<1> QED BY <1>1, <1>2, <1>3, <1>4, FilesInvariance, PTL DEF Spec, OnlyTheNamedChanges
=============================================================================
