------------------------------ MODULE SumProofs ------------------------------
(***************************************************************************)
(* What the sums of the community module Functions compute: a natural      *)
(* number that grows by what is added and depends on nothing else.  They   *)
(* are defined by a recursion over subsets, which has a solution because   *)
(* the subsets get smaller.                                                *)
(***************************************************************************)
EXTENDS Naturals, FiniteSets, Functions, FiniteSetTheorems, WellFoundedInduction, TLAPS

(* Sums of functions over finite sets.                                     *)

(* One step of the recursion, and a function that solves it.               *)
SumStep(fun, s, g) ==
    IF s = {} THEN 0 ELSE LET x == CHOOSE x \in s : TRUE IN fun[x] + g[s \ {x}]
Sums(g, fun, S) == g = [s \in SUBSET S |-> SumStep(fun, s, g)]

LEMMA LeastNat ==
    ASSUME NEW Bad \in SUBSET Nat, Bad # {}
    PROVE  \E n \in Bad : \A k \in Bad : ~(k < n)
  <1>1. PICK n \in Bad : \A k \in Bad : ~(<<k, n>> \in OpToRel(<, Nat))
    <2> HIDE DEF OpToRel
    <2> QED  BY NatLessThanWellFounded, WFMin
  <1>2. QED  BY <1>1 DEF OpToRel

LEMMA Chosen ==
    ASSUME NEW s, s # {}, IsFiniteSet(s)
    PROVE  LET x == CHOOSE x \in s : TRUE
           IN  /\ x \in s /\ IsFiniteSet(s \ {x})
               /\ Cardinality(s) \in Nat /\ Cardinality(s \ {x}) = Cardinality(s) - 1
               /\ Cardinality(s \ {x}) \in Nat
  BY FS_RemoveElement, FS_CardinalityType

LEMMA StepOf ==
    ASSUME NEW fun, NEW s, NEW g
    PROVE  /\ s = {} => SumStep(fun, s, g) = 0
           /\ s # {} => SumStep(fun, s, g) = fun[CHOOSE x \in s : TRUE]
                                            + g[s \ {CHOOSE x \in s : TRUE}]
  BY DEF SumStep

LEMMA StepSame ==
    ASSUME NEW fun, NEW s, NEW g, NEW h,
           s # {} => g[s \ {CHOOSE x \in s : TRUE}] = h[s \ {CHOOSE x \in s : TRUE}]
    PROVE  SumStep(fun, s, g) = SumStep(fun, s, h)
  BY DEF SumStep

(* The recursion defines a function. *)
LEMMA SumsExist ==
    ASSUME NEW fun, NEW S, IsFiniteSet(S)
    PROVE  \E g : Sums(g, fun, S)
  <1> DEFINE Small(n) == {s \in SUBSET S : Cardinality(s) <= n}
             Solves(g, n) == g = [s \in Small(n) |-> SumStep(fun, s, g)]
             Bad == {n \in Nat : ~ \E g : Solves(g, n)}
  <1>1. \A s \in SUBSET S : IsFiniteSet(s) /\ Cardinality(s) \in Nat
    BY FS_Subset, FS_CardinalityType
  <1>2. ASSUME NEW n \in Bad, \A k \in Bad : ~(k < n)  PROVE FALSE
    <2>1. PICK g : \A s \in SUBSET S : Cardinality(s) < n => g[s] = SumStep(fun, s, g)
      <3>1. CASE n = 0
        <4>1. \A s \in SUBSET S : ~(Cardinality(s) < n)  BY <1>1, <3>1
        <4>2. QED  BY <4>1
      <3>2. CASE n # 0
        <4>1. n - 1 \in Nat /\ n - 1 < n  BY <3>2
        <4>2. PICK g : Solves(g, n - 1)  BY <1>2, <4>1
        <4>3. \A s \in SUBSET S : Cardinality(s) < n => s \in Small(n - 1)
          BY <1>1, <4>1
        <4>4. QED  BY <4>2, <4>3
      <3>3. QED  BY <3>1, <3>2
    <2> DEFINE h == [s \in Small(n) |-> SumStep(fun, s, g)]
    <2>2. ASSUME NEW s \in Small(n)  PROVE SumStep(fun, s, g) = SumStep(fun, s, h)
      <3> DEFINE x == CHOOSE x \in s : TRUE
      <3>1. s # {} => g[s \ {x}] = h[s \ {x}]
        <4> HAVE s # {}
        <4> HIDE DEF h
        <4>1. s \ {x} \in SUBSET S /\ Cardinality(s \ {x}) < n
          BY <1>1, Chosen
        <4>2. s \ {x} \in Small(n)  BY <1>1, <4>1
        <4>3. QED  BY <2>1, <4>1, <4>2 DEF h
      <3> HIDE DEF h, Small
      <3>2. QED  BY <3>1, StepSame
    <2>3. Solves(h, n)  BY <2>2
    <2>4. QED  BY <2>3
  <1>3. Bad = {}
    <2> HIDE DEF Bad
    <2>1. Bad \in SUBSET Nat  BY DEF Bad
    <2>2. QED  BY <1>2, <2>1, LeastNat
  <1>4. Cardinality(S) \in Nat  BY FS_CardinalityType
  <1>5. PICK g : Solves(g, Cardinality(S))  BY <1>3, <1>4
  <1>6. Small(Cardinality(S)) = SUBSET S  BY FS_Subset
  <1>7. QED  BY <1>5, <1>6 DEF Sums

(* Two such functions agree where what they add agrees. *)
LEMMA SumsAgree ==
    ASSUME NEW fun, NEW hun, NEW S, NEW T \in SUBSET S, IsFiniteSet(T),
           NEW g, Sums(g, fun, S), NEW h, Sums(h, hun, T), \A x \in T : fun[x] = hun[x]
    PROVE  \A s \in SUBSET T : g[s] = h[s]
  <1> DEFINE Bad == {n \in Nat : \E s \in SUBSET T : Cardinality(s) = n /\ g[s] # h[s]}
  <1>1. \A s \in SUBSET T : IsFiniteSet(s) /\ Cardinality(s) \in Nat
    BY FS_Subset, FS_CardinalityType
  <1>2. \A s \in SUBSET T : g[s] = SumStep(fun, s, g) /\ h[s] = SumStep(hun, s, h)
    BY DEF Sums
  <1>3. ASSUME NEW n \in Bad, \A k \in Bad : ~(k < n)  PROVE FALSE
    <2>1. PICK s \in SUBSET T : Cardinality(s) = n /\ g[s] # h[s]  OBVIOUS
    <2>2. s # {}  BY <1>2, <2>1, StepOf
    <2> DEFINE x == CHOOSE x \in s : TRUE
    <2>3. /\ x \in s /\ s \ {x} \in SUBSET T
          /\ Cardinality(s \ {x}) < n /\ Cardinality(s \ {x}) \in Nat
      BY <1>1, <2>1, <2>2, Chosen
    <2>4. g[s \ {x}] = h[s \ {x}]  BY <1>3, <2>3
    <2>5. g[s] = fun[x] + g[s \ {x}] /\ h[s] = hun[x] + h[s \ {x}]
      BY <1>2, <2>1, <2>2, StepOf
    <2>6. QED  BY <2>1, <2>3, <2>4, <2>5
  <1>4. Bad = {}
    <2> HIDE DEF Bad
    <2>1. Bad \in SUBSET Nat  BY DEF Bad
    <2>2. QED  BY <1>3, <2>1, LeastNat
  <1>5. QED  BY <1>1, <1>4

LEMMA SumsAdd ==
    ASSUME NEW fun, NEW S, IsFiniteSet(S), \A x \in S : fun[x] \in Nat,
           NEW g, Sums(g, fun, S)
    PROVE  /\ \A s \in SUBSET S : g[s] \in Nat
           /\ \A s \in SUBSET S : \A x \in S \ s : g[s \cup {x}] = g[s] + fun[x]
  <1>1. \A s \in SUBSET S : IsFiniteSet(s) /\ Cardinality(s) \in Nat
    BY FS_Subset, FS_CardinalityType
  <1>2. \A s \in SUBSET S : g[s] = SumStep(fun, s, g)  BY DEF Sums
  <1>3. \A s \in SUBSET S : g[s] \in Nat
    <2> DEFINE Bad == {n \in Nat : \E s \in SUBSET S : Cardinality(s) = n /\ g[s] \notin Nat}
    <2>1. ASSUME NEW n \in Bad, \A k \in Bad : ~(k < n)  PROVE FALSE
      <3>1. PICK s \in SUBSET S : Cardinality(s) = n /\ g[s] \notin Nat  OBVIOUS
      <3>2. s # {}  BY <1>2, <3>1, StepOf
      <3> DEFINE x == CHOOSE x \in s : TRUE
      <3>3. /\ x \in s /\ s \ {x} \in SUBSET S
            /\ Cardinality(s \ {x}) < n /\ Cardinality(s \ {x}) \in Nat
        BY <1>1, <3>1, <3>2, Chosen
      <3>4. g[s \ {x}] \in Nat  BY <2>1, <3>3
      <3>5. g[s] = fun[x] + g[s \ {x}]  BY <1>2, <3>1, <3>2, StepOf
      <3> HIDE DEF x
      <3>6. QED  BY <3>1, <3>3, <3>4, <3>5
    <2>2. Bad = {}
      <3> HIDE DEF Bad
      <3>1. Bad \in SUBSET Nat  BY DEF Bad
      <3>2. QED  BY <2>1, <3>1, LeastNat
    <2>3. QED  BY <1>1, <2>2
  <1>4. \A s \in SUBSET S : \A x \in S \ s : g[s \cup {x}] = g[s] + fun[x]
    <2> DEFINE Bad == {n \in Nat : \E s \in SUBSET S : \E x \in S \ s :
                          Cardinality(s) = n /\ g[s \cup {x}] # g[s] + fun[x]}
    <2>1. ASSUME NEW n \in Bad, \A k \in Bad : ~(k < n)  PROVE FALSE
      <3>0. PICK s \in SUBSET S : \E x \in S \ s :
              Cardinality(s) = n /\ g[s \cup {x}] # g[s] + fun[x]
        OBVIOUS
      <3>1. PICK x \in S \ s : Cardinality(s) = n /\ g[s \cup {x}] # g[s] + fun[x]
        BY <3>0
      <3>2. \A q \in SUBSET S : Cardinality(q) < n =>
              \A y \in S \ q : g[q \cup {y}] = g[q] + fun[y]
        BY <1>1, <2>1
      <3>3. n \in Nat /\ s \in SUBSET S /\ x \in S \ s  OBVIOUS
      <3> DEFINE t == s \cup {x}
                 c == CHOOSE c \in t : TRUE
      <3> HIDE DEF Bad
      <3>4. t \in SUBSET S /\ t # {} /\ c \in t  BY <3>3
      <3>5. g[t] = fun[c] + g[t \ {c}]
        <4> HIDE DEF t
        <4> QED  BY <1>2, <3>4, StepOf
      <3> HIDE DEF c
      <3>6. CASE c = x
        <4>1. t \ {c} = s  BY <3>3, <3>6
        <4>2. g[s] \in Nat /\ fun[x] \in Nat  BY <1>3, <3>3
        <4> HIDE DEF t
        <4>3. g[t] = fun[x] + g[s]  BY <3>5, <3>6, <4>1
        <4>4. g[t] = g[s] + fun[x]  BY <4>2, <4>3
        <4>5. QED  BY <3>1, <4>4 DEF t
      <3>7. CASE c # x
        <4> DEFINE r == s \ {c}
        <4>1. /\ c \in s /\ r \in SUBSET S
              /\ t \ {c} = r \cup {x} /\ s = r \cup {c}
              /\ x \in S \ r /\ c \in S \ r
          BY <3>3, <3>4, <3>7
        <4>2. Cardinality(r) < n
          <5>1. IsFiniteSet(s)  BY <1>1, <3>3
          <5>2. Cardinality(r) = Cardinality(s) - 1  BY <4>1, <5>1, FS_RemoveElement
          <5> HIDE DEF r, t
          <5>3. QED  BY <3>1, <3>3, <5>2
        <4> HIDE DEF r, t
        <4>3. g[r \cup {x}] = g[r] + fun[x] /\ g[r \cup {c}] = g[r] + fun[c]
          BY <3>2, <4>1, <4>2
        <4>4. g[r] \in Nat /\ fun[x] \in Nat /\ fun[c] \in Nat
          BY <1>3, <4>1
        <4>5. g[t] = fun[c] + (g[r] + fun[x]) /\ g[s] = g[r] + fun[c]
          BY <3>5, <4>1, <4>3
        <4>6. g[t] = g[s] + fun[x]  BY <4>4, <4>5
        <4>7. QED  BY <3>1, <4>6 DEF t
      <3>8. QED  BY <3>6, <3>7
    <2>2. Bad = {}
      <3> HIDE DEF Bad
      <3>1. Bad \in SUBSET Nat  BY DEF Bad
      <3>2. QED  BY <2>1, <3>1, LeastNat
    <2>3. QED  BY <1>1, <2>2
  <1>5. QED  BY <1>3, <1>4

(* The sums of Functions are such a function's values.                     *)
LEMMA SumSolves ==
    ASSUME NEW fun, NEW S, IsFiniteSet(S)
    PROVE  \E g : Sums(g, fun, S) /\ SumFunctionOnSet(fun, S) = g[S]
  <1>1. SumFunctionOnSet(fun, S) = (CHOOSE g : Sums(g, fun, S))[S]
    BY DEF SumFunctionOnSet, FoldFunctionOnSet, MapThenFoldSet, Sums, SumStep
  <1>2. Sums(CHOOSE g : Sums(g, fun, S), fun, S)  BY SumsExist
  <1>3. QED  BY <1>1, <1>2

LEMMA SumOfNone == ASSUME NEW fun PROVE SumFunctionOnSet(fun, {}) = 0
  <1>1. PICK g : Sums(g, fun, {}) /\ SumFunctionOnSet(fun, {}) = g[{}]
    BY SumSolves, FS_EmptySet
  <1>2. {} \in SUBSET {}  OBVIOUS
  <1>3. g[{}] = SumStep(fun, {}, g)  BY <1>1, <1>2 DEF Sums
  <1>4. QED  BY <1>1, <1>3, StepOf

(* A sum depends on what is added only.                                    *)
LEMMA SumAgrees ==
    ASSUME NEW S, IsFiniteSet(S), NEW fun, NEW hun, \A x \in S : fun[x] = hun[x]
    PROVE  SumFunctionOnSet(fun, S) = SumFunctionOnSet(hun, S)
  <1>1. PICK g : Sums(g, fun, S) /\ SumFunctionOnSet(fun, S) = g[S]  BY SumSolves
  <1>2. PICK h : Sums(h, hun, S) /\ SumFunctionOnSet(hun, S) = h[S]  BY SumSolves
  <1>3. S \in SUBSET S  OBVIOUS
  <1>4. \A s \in SUBSET S : g[s] = h[s]  BY <1>1, <1>2, <1>3, SumsAgree
  <1>5. QED  BY <1>1, <1>2, <1>3, <1>4

LEMMA SumGrows ==
    ASSUME NEW S, IsFiniteSet(S), NEW x, x \notin S, NEW fun,
           \A y \in S \cup {x} : fun[y] \in Nat
    PROVE  /\ SumFunctionOnSet(fun, S) \in Nat
           /\ SumFunctionOnSet(fun, S \cup {x}) = SumFunctionOnSet(fun, S) + fun[x]
  <1> DEFINE T == S \cup {x}
  <1>1. IsFiniteSet(T) /\ S \in SUBSET T /\ x \in T \ S  BY FS_AddElement
  <1>2. PICK g : Sums(g, fun, T) /\ SumFunctionOnSet(fun, T) = g[T]
    BY <1>1, SumSolves
  <1>3. PICK h : Sums(h, fun, S) /\ SumFunctionOnSet(fun, S) = h[S]  BY SumSolves
  <1>4. g[S] = h[S]
    <2> HIDE DEF T
    <2> QED  BY <1>1, <1>2, <1>3, SumsAgree
  <1>5. g[S] \in Nat /\ g[S \cup {x}] = g[S] + fun[x]  BY <1>1, <1>2, SumsAdd
  <1>6. QED  BY <1>2, <1>3, <1>4, <1>5

LEMMA SumIsNat ==
    ASSUME NEW S, IsFiniteSet(S), NEW fun, \A y \in S : fun[y] \in Nat
    PROVE  SumFunctionOnSet(fun, S) \in Nat
  <1>1. PICK g : Sums(g, fun, S) /\ SumFunctionOnSet(fun, S) = g[S]  BY SumSolves
  <1>2. S \in SUBSET S  OBVIOUS
  <1>3. QED  BY <1>1, <1>2, SumsAdd
=============================================================================
