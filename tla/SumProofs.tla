----------------------------- MODULE SumProofs -----------------------------
(***************************************************************************)
(* Sums over finite sets, as MapThenSumSet computes them: the sum exists,  *)
(* is a number, and changes with one summand by as much as the summand.    *)
(* The induction is over the subsets of the set, as a least counterexample.*)
(***************************************************************************)
EXTENDS Integers, FiniteSetsExt, FiniteSetTheorems, SequenceTheorems, TLAPS
-----------------------------------------------------------------------------
(* The recursion of the sum of f over the subsets of S *)
Adds(g, f, S) ==
    g = [s \in SUBSET S |-> IF s = {} THEN 0
                            ELSE f[CHOOSE x \in s : TRUE] + g[s \ {CHOOSE x \in s : TRUE}]]

(* The sum of f over S *)
SumOf(f, S) == (CHOOSE g : Adds(g, f, S))[S]

(* The summand that is added next *)
Picked(s) == CHOOSE x \in s : TRUE

(* What g is at each subset of S *)
AddsUp(g, f, S) ==
    \A s \in SUBSET S :
      /\ s = {} => g[s] = 0
      /\ s # {} => g[s] = f[Picked(s)] + g[s \ {Picked(s)}]

(* A set of subsets of a finite set has a least one in the order of inclusion. *)
LEMMA LeastSubset ==
    ASSUME NEW S, IsFiniteSet(S), NEW T, T \subseteq SUBSET S, T # {}
    PROVE  \E s \in T : \A u \in T : u \subseteq s => u = s
<1> DEFINE R == StrictSubsetOrdering(S)
<1>1. IsWellFoundedOn(R, SUBSET S)
  BY FS_StrictSubsetOrderingWellFounded, FS_FiniteSubsetsOfFinite
<1>2. \E s \in T : \A u \in T : ~(<<u, s>> \in R)
  <2> HIDE DEF R
  <2> QED BY <1>1, WFMin
<1>3. \A u, s \in T : <<u, s>> \in R <=> (u \subseteq s /\ u # s)
  BY DEF StrictSubsetOrdering
<1> QED
  BY <1>2, <1>3

(* A set of numbers has a least one. *)
LEMMA LeastNumber ==
    ASSUME NEW T, T \subseteq Nat, T # {}
    PROVE  \E x \in T : \A y \in T : x <= y
<1>1. PICK x \in T : \A y \in T : ~ <<y, x>> \in OpToRel(<, Nat)
  BY NatLessThanWellFounded, WFMin
<1>2. \A y \in T : ~ (y < x)
  BY <1>1 DEF OpToRel
<1> QED
  BY <1>2

(* A summand is picked from the set. *)
LEMMA PickedIn == \A s : s # {} => Picked(s) \in s
  BY DEF Picked

(* The recursion adds up, *)
LEMMA AddsAt == ASSUME NEW f, NEW S, NEW g, Adds(g, f, S) PROVE AddsUp(g, f, S)
  BY DEF Adds, AddsUp, Picked

(* and a function with these values is the recursion *)
LEMMA AddsIf ==
    ASSUME NEW f, NEW S, NEW g, g = [s \in SUBSET S |-> g[s]],
           \A s \in SUBSET S : g[s] = IF s = {} THEN 0 ELSE f[Picked(s)] + g[s \ {Picked(s)}]
    PROVE  Adds(g, f, S)
<1> DEFINE h == [s \in SUBSET S |-> IF s = {} THEN 0 ELSE f[Picked(s)] + g[s \ {Picked(s)}]]
<1>1. g = h
  OBVIOUS
<1> QED
  BY <1>1 DEF Adds, Picked

(* There is one such function, *)
LEMMA AddsUnique ==
    ASSUME NEW f, NEW S, IsFiniteSet(S), NEW g, NEW h, Adds(g, f, S), Adds(h, f, S)
    PROVE  \A s \in SUBSET S : g[s] = h[s]
<1>a. AddsUp(g, f, S) /\ AddsUp(h, f, S)
  BY AddsAt
<1> DEFINE T == {s \in SUBSET S : g[s] # h[s]}
<1> SUFFICES ASSUME T # {} PROVE FALSE
  OBVIOUS
<1>b. T \subseteq SUBSET S
  OBVIOUS
<1>1. PICK s \in T : \A u \in T : u \subseteq s => u = s
  <2> HIDE DEF T
  <2> QED
    BY <1>b, LeastSubset
<1>2. s # {}
  BY <1>a DEF AddsUp
<1>3. Picked(s) \in s
  BY <1>2, PickedIn
<1>4. g[s \ {Picked(s)}] = h[s \ {Picked(s)}]
  BY <1>1, <1>3
<1> QED
  BY <1>a, <1>2, <1>4 DEF AddsUp

(* and there is one for every finite set. *)
LEMMA AddsExists ==
    ASSUME NEW f, NEW S, IsFiniteSet(S)
    PROVE  \E g : Adds(g, f, S)
<1> DEFINE T == {s \in SUBSET S : ~ \E g : Adds(g, f, s)}
<1> SUFFICES ASSUME T # {} PROVE FALSE
  OBVIOUS
<1>b. T \subseteq SUBSET S
  OBVIOUS
<1>1. PICK t \in T : \A u \in T : u \subseteq t => u = t
  <2> HIDE DEF T
  <2> QED
    BY <1>b, LeastSubset
<1> DEFINE G(u) == CHOOSE g : Adds(g, f, u)
           V(u) == G(u)[u]
           W(s) == IF s = {} THEN 0 ELSE f[Picked(s)] + V(s \ {Picked(s)})
           h    == [s \in SUBSET t |-> W(s)]
<1>2. ASSUME NEW u \in SUBSET t, u # t
      PROVE  Adds(G(u), f, u) /\ IsFiniteSet(u)
  <2>1. \E g : Adds(g, f, u)
    BY <1>1, <1>2
  <2> QED
    BY <2>1, FS_Subset
(* the sum of u, as part of a larger set *)
<1>3. ASSUME NEW u \in SUBSET t, u # t, NEW v \in SUBSET u
      PROVE  G(u)[v] = V(v)
  <2> DEFINE r == [s \in SUBSET v |-> G(u)[s]]
  <2>1. Adds(G(u), f, u)
    BY <1>2, <1>3
  <2>2. Adds(r, f, v)
    <3>1. AddsUp(G(u), f, u)
      BY <2>1, AddsAt
    <3> HIDE DEF G
    <3>2. \A s \in SUBSET v : s \ {Picked(s)} \in SUBSET v
      OBVIOUS
    <3>3. \A s \in SUBSET v : r[s] = IF s = {} THEN 0 ELSE f[Picked(s)] + r[s \ {Picked(s)}]
      BY <3>1, <3>2 DEF AddsUp
    <3>4. r = [s \in SUBSET v |-> r[s]]
      OBVIOUS
    <3> HIDE DEF r
    <3> QED
      BY <3>3, <3>4, AddsIf
  <2>3. v # t /\ Adds(G(v), f, v) /\ IsFiniteSet(v)
    BY <1>2, <1>3
  <2> HIDE DEF G
  <2>4. r[v] = G(v)[v]
    BY <2>2, <2>3, AddsUnique
  <2> QED
    BY <2>4
<1>4. ASSUME NEW s \in SUBSET t, s # t PROVE V(s) = W(s)
  <2>1. Adds(G(s), f, s)
    BY <1>2, <1>4
  <2>2. CASE s = {}
    BY <2>1, <2>2, AddsAt DEF AddsUp
  <2>3. CASE s # {}
    <3>1. V(s) = f[Picked(s)] + G(s)[s \ {Picked(s)}]
      BY <2>1, <2>3, AddsAt DEF AddsUp
    <3>2. G(s)[s \ {Picked(s)}] = V(s \ {Picked(s)})
      BY <1>3, <1>4
    <3> HIDE DEF G, V
    <3> QED
      BY <2>3, <3>1, <3>2
  <2> QED
    BY <2>2, <2>3
<1>5. Adds(h, f, t)
  <2>0. h = [s \in SUBSET t |-> h[s]] /\ \A s \in SUBSET t : h[s] = W(s)
    OBVIOUS
  <2> SUFFICES ASSUME NEW s \in SUBSET t
               PROVE  h[s] = IF s = {} THEN 0 ELSE f[Picked(s)] + h[s \ {Picked(s)}]
    <3> HIDE DEF h
    <3> QED
      BY <2>0, AddsIf
  <2>1. CASE s # {}
    <3>1. Picked(s) \in s
      BY <2>1, PickedIn
    <3>2. s \ {Picked(s)} \in SUBSET t /\ s \ {Picked(s)} # t
      BY <3>1
    <3>3. h[s \ {Picked(s)}] = V(s \ {Picked(s)})
      BY <1>4, <3>2
    <3> QED
      BY <2>1, <3>3
  <2> QED
    BY <2>1
<1> QED
  BY <1>5

(* The sum is the value of the recursion. *)
LEMMA SumOfAdds ==
    ASSUME NEW f, NEW S, IsFiniteSet(S)
    PROVE  \E g : Adds(g, f, S) /\ SumOf(f, S) = g[S]
<1>1. Adds(CHOOSE g : Adds(g, f, S), f, S)
  BY AddsExists
<1> QED
  BY <1>1 DEF SumOf

(* A sum of integers is an integer. *)
LEMMA SumOfType ==
    ASSUME NEW S, IsFiniteSet(S), NEW f \in [S -> Int]
    PROVE  SumOf(f, S) \in Int
<1>1. PICK g : Adds(g, f, S) /\ SumOf(f, S) = g[S]
  BY SumOfAdds
<1>a. AddsUp(g, f, S)
  BY <1>1, AddsAt
<1> DEFINE T == {s \in SUBSET S : g[s] \notin Int}
<1> SUFFICES ASSUME T # {} PROVE FALSE
  BY <1>1
<1>b. T \subseteq SUBSET S
  OBVIOUS
<1>2. PICK s \in T : \A u \in T : u \subseteq s => u = s
  <2> HIDE DEF T
  <2> QED
    BY <1>b, LeastSubset
<1>3. s # {}
  <2>1. s \in SUBSET S /\ (s = {} => g[s] = 0) /\ g[s] \notin Int
    BY <1>a DEF AddsUp
  <2> QED
    BY <2>1
<1>4. Picked(s) \in s /\ f[Picked(s)] \in Int
  BY <1>3, PickedIn
<1>5. g[s \ {Picked(s)}] \in Int
  BY <1>2, <1>4
<1>6. g[s] = f[Picked(s)] + g[s \ {Picked(s)}]
  BY <1>a, <1>3 DEF AddsUp
<1> QED
  BY <1>4, <1>5, <1>6

(* A sum of natural numbers is one. *)
LEMMA SumOfNat ==
    ASSUME NEW S, IsFiniteSet(S), NEW f \in [S -> Nat]
    PROVE  SumOf(f, S) \in Nat
<1>1. PICK g : Adds(g, f, S) /\ SumOf(f, S) = g[S]
  BY SumOfAdds
<1>a. AddsUp(g, f, S)
  BY <1>1, AddsAt
<1> DEFINE T == {s \in SUBSET S : g[s] \notin Nat}
<1> SUFFICES ASSUME T # {} PROVE FALSE
  BY <1>1
<1>b. T \subseteq SUBSET S
  OBVIOUS
<1>2. PICK s \in T : \A u \in T : u \subseteq s => u = s
  <2> HIDE DEF T
  <2> QED
    BY <1>b, LeastSubset
<1>3. s # {}
  <2>1. s \in SUBSET S /\ (s = {} => g[s] = 0) /\ g[s] \notin Nat
    BY <1>a DEF AddsUp
  <2> QED
    BY <2>1
<1>4. Picked(s) \in s /\ f[Picked(s)] \in Nat
  BY <1>3, PickedIn
<1>5. g[s \ {Picked(s)}] \in Nat
  BY <1>2, <1>4
<1>6. g[s] = f[Picked(s)] + g[s \ {Picked(s)}]
  BY <1>a, <1>3 DEF AddsUp
<1> QED
  BY <1>4, <1>5, <1>6

(* Changing the function at x changes the sum by as much. *)
LEMMA SumOfChange ==
    ASSUME NEW S, IsFiniteSet(S), NEW f \in [S -> Int], NEW g \in [S -> Int],
           NEW x \in S, \A y \in S : y # x => g[y] = f[y]
    PROVE  SumOf(g, S) = SumOf(f, S) + (g[x] - f[x])
<1>1. PICK F : Adds(F, f, S) /\ SumOf(f, S) = F[S]
  BY SumOfAdds
<1>2. PICK G : Adds(G, g, S) /\ SumOf(g, S) = G[S]
  BY SumOfAdds
<1>a. AddsUp(F, f, S) /\ AddsUp(G, g, S)
  BY <1>1, <1>2, AddsAt
<1> DEFINE d(s) == IF x \in s THEN g[x] - f[x] ELSE 0
           T == {s \in SUBSET S : ~(F[s] \in Int /\ G[s] \in Int /\ G[s] = F[s] + d(s))}
<1>3. ASSUME T # {} PROVE FALSE
  <2>0. T \subseteq SUBSET S
    OBVIOUS
  <2>1. PICK s \in T : \A u \in T : u \subseteq s => u = s
    <3> HIDE DEF T
    <3> QED
      BY <1>3, <2>0, LeastSubset
  <2>2. CASE s = {}
    <3>1. F[s] = 0 /\ G[s] = 0 /\ d(s) = 0
      BY <1>a, <2>2 DEF AddsUp
    <3> QED
      BY <3>1
  <2>3. CASE s # {}
    <3> DEFINE p == Picked(s)
               r == s \ {p}
    <3>1. p \in s /\ p \in S
      BY <2>3, PickedIn
    <3>2. F[s] = f[p] + F[r] /\ G[s] = g[p] + G[r]
      BY <1>a, <2>3 DEF AddsUp
    <3>3. F[r] \in Int /\ G[r] \in Int /\ G[r] = F[r] + d(r)
      BY <2>1, <3>1
    <3>4. f[p] \in Int /\ g[p] \in Int /\ f[x] \in Int /\ g[x] \in Int
      BY <3>1
    <3>5. d(s) = d(r) + (g[p] - f[p])
      BY <3>1, <3>4
    <3> HIDE DEF d, r, p
    <3> QED
      <4>1. d(r) \in Int
        BY <3>4 DEF d
      <4> QED
        BY <3>2, <3>3, <3>4, <3>5, <4>1
  <2> QED
    BY <2>2, <2>3
<1> QED
  BY <1>1, <1>2, <1>3

(* The sum of zeroes is zero. *)
LEMMA SumOfZero ==
    ASSUME NEW S, IsFiniteSet(S), NEW f, \A x \in S : f[x] = 0
    PROVE  SumOf(f, S) = 0
<1>1. PICK g : Adds(g, f, S) /\ SumOf(f, S) = g[S]
  BY SumOfAdds
<1>2. AddsUp(g, f, S)
  BY <1>1, AddsAt
<1> DEFINE T == {s \in SUBSET S : g[s] # 0}
<1> SUFFICES ASSUME T # {} PROVE FALSE
  BY <1>1
<1>3. PICK s \in T : \A u \in T : u \subseteq s => u = s
  <2>1. T \subseteq SUBSET S
    OBVIOUS
  <2> HIDE DEF T
  <2> QED
    BY <2>1, LeastSubset
<1>4. s # {} /\ g[s] = f[Picked(s)] + g[s \ {Picked(s)}]
  BY <1>2 DEF AddsUp
<1>5. Picked(s) \in s /\ f[Picked(s)] = 0
  BY <1>4, PickedIn
<1>6. g[s \ {Picked(s)}] = 0
  BY <1>3, <1>5
<1> QED
  BY <1>4, <1>5, <1>6

(* The sum of sums is the sum of the sums. *)
LEMMA SumOfSums ==
    ASSUME NEW S, IsFiniteSet(S), NEW f \in [S -> Int], NEW g \in [S -> Int],
           NEW h \in [S -> Int], \A x \in S : h[x] = f[x] + g[x]
    PROVE  SumOf(h, S) = SumOf(f, S) + SumOf(g, S)
<1>1. PICK F : Adds(F, f, S) /\ SumOf(f, S) = F[S]
  BY SumOfAdds
<1>2. PICK G : Adds(G, g, S) /\ SumOf(g, S) = G[S]
  BY SumOfAdds
<1>3. PICK H : Adds(H, h, S) /\ SumOf(h, S) = H[S]
  BY SumOfAdds
<1>4. AddsUp(F, f, S) /\ AddsUp(G, g, S) /\ AddsUp(H, h, S)
  BY <1>1, <1>2, <1>3, AddsAt
<1> DEFINE T == {s \in SUBSET S : ~(F[s] \in Int /\ G[s] \in Int /\ H[s] = F[s] + G[s])}
<1>5. ASSUME T # {} PROVE FALSE
  <2>1. PICK s \in T : \A u \in T : u \subseteq s => u = s
    <3>1. T \subseteq SUBSET S
      OBVIOUS
    <3> HIDE DEF T
    <3> QED
      BY <1>5, <3>1, LeastSubset
  <2>2. CASE s = {}
    <3>1. F[s] = 0 /\ G[s] = 0 /\ H[s] = 0
      BY <1>4, <2>2 DEF AddsUp
    <3> QED
      BY <3>1
  <2>3. CASE s # {}
    <3> DEFINE p == Picked(s)
               r == s \ {p}
    <3>1. p \in s /\ p \in S
      BY <2>3, PickedIn
    <3>2. F[s] = f[p] + F[r] /\ G[s] = g[p] + G[r] /\ H[s] = h[p] + H[r]
      BY <1>4, <2>3 DEF AddsUp
    <3>3. F[r] \in Int /\ G[r] \in Int /\ H[r] = F[r] + G[r]
      BY <2>1, <3>1
    <3>4. f[p] \in Int /\ g[p] \in Int /\ h[p] = f[p] + g[p]
      BY <3>1
    <3> HIDE DEF r, p
    <3>5. F[s] \in Int /\ G[s] \in Int /\ H[s] = F[s] + G[s]
      BY <3>2, <3>3, <3>4
    <3> QED
      BY <3>5
  <2> QED
    BY <2>2, <2>3
<1> QED
  BY <1>1, <1>2, <1>3, <1>5

(* Whichever summand comes last, the sum is the same. *)
LEMMA AddsAny ==
    ASSUME NEW S, IsFiniteSet(S), NEW f \in [S -> Int], NEW g, AddsUp(g, f, S)
    PROVE  \A s \in SUBSET S : g[s] \in Int /\ \A y \in s : g[s] = f[y] + g[s \ {y}]
<1> DEFINE T == {s \in SUBSET S : ~(g[s] \in Int /\ \A y \in s : g[s] = f[y] + g[s \ {y}])}
<1>1. ASSUME T # {} PROVE FALSE
  <2>1. PICK s \in T : \A u \in T : u \subseteq s => u = s
    <3>1. T \subseteq SUBSET S
      OBVIOUS
    <3> HIDE DEF T
    <3> QED
      BY <1>1, <3>1, LeastSubset
  <2>2. CASE s = {}
    <3>1. g[s] = 0
      BY <2>2 DEF AddsUp
    <3> QED
      BY <2>2, <3>1
  <2>3. CASE s # {}
    <3> DEFINE p == Picked(s)
    <3>1. p \in s /\ p \in S /\ f[p] \in Int
      BY <2>3, PickedIn
    <3>2. g[s] = f[p] + g[s \ {p}]
      BY <2>1, <2>3 DEF AddsUp
    <3>3. ASSUME NEW y \in s
          PROVE  /\ g[s \ {y}] \in Int
                 /\ \A z \in s \ {y} : g[s \ {y}] = f[z] + g[(s \ {y}) \ {z}]
      <4>1. s \ {y} \in SUBSET S /\ s \ {y} \subseteq s /\ s \ {y} # s
        BY <3>3
      <4>2. s \ {y} \notin T
        BY <2>1, <4>1
      <4> QED
        BY <4>1, <4>2
    <3> HIDE DEF p, T
    <3>4. g[s] \in Int
      BY <3>1, <3>2, <3>3
    <3>5. ASSUME NEW y \in s, y # p PROVE g[s] = f[y] + g[s \ {y}]
      <4>1. g[s \ {p}] = f[y] + g[(s \ {p}) \ {y}]
        BY <3>1, <3>3, <3>5
      <4>2. g[s \ {y}] = f[p] + g[(s \ {y}) \ {p}]
        BY <3>1, <3>3, <3>5
      <4>3. (s \ {p}) \ {y} = (s \ {y}) \ {p}
        OBVIOUS
      <4>4. f[y] \in Int /\ g[s \ {p}] \in Int /\ g[s \ {y}] \in Int
        BY <2>1, <3>1, <3>3 DEF T
      <4>5. g[(s \ {y}) \ {p}] \in Int
        <5>1. (s \ {y}) \ {p} \in SUBSET S /\ (s \ {y}) \ {p} \subseteq s /\ (s \ {y}) \ {p} # s
          BY <2>1, <3>1 DEF T
        <5> QED
          BY <2>1, <5>1 DEF T
      <4>6. \A a, b, c \in Int : a + (b + c) = b + (a + c)
        OBVIOUS
      <4> QED
        <5>1. g[s] = f[p] + (f[y] + g[(s \ {y}) \ {p}])
          BY <3>2, <4>1, <4>3
        <5>2. f[y] + g[s \ {y}] = f[y] + (f[p] + g[(s \ {y}) \ {p}])
          BY <4>2
        <5>3. f[p] \in Int /\ f[y] \in Int
          BY <3>1, <4>4
        <5> QED
          BY <4>5, <4>6, <5>1, <5>2, <5>3
    <3> QED
      BY <2>1, <3>2, <3>4, <3>5 DEF T
  <2> QED
    BY <2>2, <2>3
<1> QED
  BY <1>1

(* The sum of one more summand *)
LEMMA SumOfMore ==
    ASSUME NEW S, IsFiniteSet(S), NEW f \in [S -> Int], NEW x, x \notin S,
           NEW h \in [S \cup {x} -> Int], \A y \in S : h[y] = f[y]
    PROVE  SumOf(h, S \cup {x}) = SumOf(f, S) + h[x]
<1> DEFINE T == S \cup {x}
<1>0. IsFiniteSet(T) /\ S \in SUBSET T /\ T \ {x} = S /\ x \in T
  BY FS_AddElement
<1>1. PICK F : Adds(F, f, S) /\ SumOf(f, S) = F[S]
  BY SumOfAdds
<1>2. PICK H : Adds(H, h, T) /\ SumOf(h, T) = H[T]
  <2> HIDE DEF T
  <2> QED
    BY <1>0, SumOfAdds
<1>3. AddsUp(H, h, T)
  BY <1>2, AddsAt
<1>4. H[T] = h[x] + H[S] /\ H[S] \in Int
  <2>1. h \in [T -> Int]
    OBVIOUS
  <2> HIDE DEF T
  <2> QED
    <3>1. \A s \in SUBSET T : H[s] \in Int /\ \A y \in s : H[s] = h[y] + H[s \ {y}]
      BY <1>0, <1>3, <2>1, AddsAny
    <3> QED
      BY <1>0, <3>1
<1> DEFINE r == [s \in SUBSET S |-> H[s]]
<1>5. Adds(r, f, S)
  <2>1. \A s \in SUBSET S : s \ {Picked(s)} \in SUBSET S /\ (s # {} => h[Picked(s)] = f[Picked(s)])
    BY PickedIn
  <2>2. \A s \in SUBSET S : r[s] = IF s = {} THEN 0 ELSE f[Picked(s)] + r[s \ {Picked(s)}]
    BY <1>3, <2>1 DEF AddsUp
  <2>3. r = [s \in SUBSET S |-> r[s]]
    OBVIOUS
  <2> HIDE DEF r
  <2> QED
    BY <2>2, <2>3, AddsIf
<1>6. F[S] = H[S]
  <2>1. r[S] = H[S]
    OBVIOUS
  <2> HIDE DEF r
  <2> QED
    BY <1>1, <1>5, <2>1, AddsUnique
<1>7. h[x] \in Int
  OBVIOUS
<1> QED
  BY <1>1, <1>2, <1>4, <1>6, <1>7

(* Sums of functions that agree on the set *)
LEMMA SumOfSame ==
    ASSUME NEW S, IsFiniteSet(S), NEW f, NEW h, \A y \in S : h[y] = f[y]
    PROVE  SumOf(h, S) = SumOf(f, S)
<1>1. PICK F : Adds(F, f, S) /\ SumOf(f, S) = F[S]
  BY SumOfAdds
<1>2. PICK H : Adds(H, h, S) /\ SumOf(h, S) = H[S]
  BY SumOfAdds
<1>3. AddsUp(H, h, S)
  BY <1>2, AddsAt
<1> DEFINE r == [s \in SUBSET S |-> H[s]]
<1>4. Adds(r, f, S)
  <2>1. \A s \in SUBSET S : s \ {Picked(s)} \in SUBSET S /\ (s # {} => h[Picked(s)] = f[Picked(s)])
    BY PickedIn
  <2>2. \A s \in SUBSET S : r[s] = IF s = {} THEN 0 ELSE f[Picked(s)] + r[s \ {Picked(s)}]
    BY <1>3, <2>1 DEF AddsUp
  <2>3. r = [s \in SUBSET S |-> r[s]]
    OBVIOUS
  <2> HIDE DEF r
  <2> QED
    BY <2>2, <2>3, AddsIf
<1>5. r[S] = H[S]
  OBVIOUS
<1> HIDE DEF r
<1> QED
  BY <1>1, <1>2, <1>4, <1>5, AddsUnique

(* Sums of functions that do not exceed each other *)
LEMMA SumOfLess ==
    ASSUME NEW S, IsFiniteSet(S), NEW f \in [S -> Int], NEW g \in [S -> Int],
           \A x \in S : f[x] <= g[x]
    PROVE  SumOf(f, S) <= SumOf(g, S)
<1> DEFINE h == [x \in S |-> g[x] - f[x]]
<1>1. h \in [S -> Nat] /\ h \in [S -> Int] /\ \A x \in S : g[x] = f[x] + h[x]
  OBVIOUS
<1> HIDE DEF h
<1>2. SumOf(g, S) = SumOf(f, S) + SumOf(h, S)
  BY <1>1, SumOfSums
<1>3. SumOf(h, S) \in Nat /\ SumOf(f, S) \in Int
  BY <1>1, SumOfNat, SumOfType
<1> QED
  BY <1>2, <1>3

(* One of several numbers that are not below zero is at most their sum. *)
LEMMA PartOfSum ==
    ASSUME NEW S, IsFiniteSet(S), NEW f \in [S -> Int], \A y \in S : f[y] >= 0, NEW x \in S
    PROVE  f[x] <= SumOf(f, S)
<1> DEFINE z == [y \in S |-> 0]
           g == [y \in S |-> IF y = x THEN f[x] ELSE 0]
<1>1. /\ z \in [S -> Int] /\ g \in [S -> Int] /\ g[x] = f[x] /\ z[x] = 0
      /\ (\A y \in S : y # x => g[y] = z[y]) /\ (\A y \in S : z[y] = 0)
      /\ \A y \in S : g[y] <= f[y]
  OBVIOUS
<1> HIDE DEF g, z
<1>2. SumOf(z, S) = 0
  BY <1>1, SumOfZero
<1>3. SumOf(g, S) = SumOf(z, S) + (g[x] - z[x])
  BY <1>1, SumOfChange
<1>4. SumOf(g, S) <= SumOf(f, S)
  BY <1>1, SumOfLess
<1> QED
  BY <1>1, <1>2, <1>3, <1>4

=============================================================================
