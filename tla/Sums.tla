------------------------------- MODULE Sums -------------------------------
(***************************************************************************)
(* Facts about the sum of a function over a finite set, which the models   *)
(* use to add up what many calls or many guests hold.  The induction over  *)
(* the finite set is made with a set of counterexamples: a smallest one    *)
(* exists because the strict subsets of a finite set are well founded.     *)
(***************************************************************************)
EXTENDS Integers, FiniteSets, Functions, FiniteSetTheorems, TLAPS

\* g adds up f over every subset of S, taking away one element at a time.
AddsUp(g, f, S) ==
    /\ g \in [SUBSET S -> Int]
    /\ \A s \in SUBSET S :
         g[s] = IF s = {} THEN 0
                ELSE f[CHOOSE x \in s : TRUE] + g[s \ {CHOOSE x \in s : TRUE}]

\* A set of finite sets that is not empty has one no strict subset of which
\* is in it.
LEMMA SmallestSet ==
    ASSUME NEW S, IsFiniteSet(S), NEW T \in SUBSET (SUBSET S), T # {}
    PROVE  \E s \in T : \A t \in T : t \subseteq s => t = s
  <1>1. IsWellFoundedOn(StrictSubsetOrdering(S), SUBSET S)
    BY FS_FiniteSubsetsOfFinite, FS_StrictSubsetOrderingWellFounded
  <1>2. PICK s \in T : \A t \in T : <<t, s>> \notin StrictSubsetOrdering(S)
    BY <1>1, WFMin
  <1>3. \A t \in T : t \subseteq s => t = s
    BY <1>2 DEF StrictSubsetOrdering
  <1> QED BY <1>2, <1>3

\* Two functions that add up f agree wherever both are defined.
LEMMA AddsUpOnce ==
    ASSUME NEW S, IsFiniteSet(S), NEW f, NEW A \in SUBSET S, NEW B \in SUBSET S,
           NEW g, AddsUp(g, f, A), NEW h, AddsUp(h, f, B)
    PROVE  \A s \in SUBSET A : s \in SUBSET B => g[s] = h[s]
  <1> DEFINE bad == {s \in SUBSET S : s \subseteq A /\ s \subseteq B /\ g[s] # h[s]}
  <1>1. ASSUME bad # {} PROVE FALSE
    <2>1. PICK s \in bad : \A t \in bad : t \subseteq s => t = s
      <3>1. bad \in SUBSET (SUBSET S)
        OBVIOUS
      <3> HIDE DEF bad
      <3> QED BY <1>1, <3>1, SmallestSet
    <2>2. s # {}
      BY <2>1 DEF AddsUp
    <2> DEFINE x == CHOOSE x \in s : TRUE
    <2>3. x \in s
      BY <2>2
    <2>4. g[s] = f[x] + g[s \ {x}] /\ h[s] = f[x] + h[s \ {x}]
      BY <2>1, <2>2 DEF AddsUp
    <2> HIDE DEF x
    <2>5. s \ {x} \notin bad
      BY <2>1, <2>3
    <2> QED BY <2>1, <2>4, <2>5
  <1> QED BY <1>1

\* There is such a function.
LEMMA AddsUpExists ==
    ASSUME NEW S, IsFiniteSet(S), NEW f \in [S -> Int]
    PROVE  \E g : AddsUp(g, f, S)
  <1> DEFINE bad == {s \in SUBSET S : ~ \E g : AddsUp(g, f, s)}
  <1>1. ASSUME bad # {} PROVE FALSE
    <2>1. PICK T \in bad : \A t \in bad : t \subseteq T => t = T
      <3>1. bad \in SUBSET (SUBSET S)
        OBVIOUS
      <3> HIDE DEF bad
      <3> QED BY <1>1, <3>1, SmallestSet
    <2> DEFINE below(s) == CHOOSE g : AddsUp(g, f, s)
               x(s) == CHOOSE y \in s : TRUE
               sum(s) == IF s = {} THEN 0 ELSE f[x(s)] + below(s \ {x(s)})[s \ {x(s)}]
               g == [s \in SUBSET T |-> sum(s)]
    <2>2. \A s \in SUBSET T : s # T => AddsUp(below(s), f, s)
      BY <2>1
    <2>3. \A s \in SUBSET T : s # {} => x(s) \in s /\ s \ {x(s)} \in SUBSET T /\ s \ {x(s)} # T
      OBVIOUS
    <2> HIDE DEF below, x
    <2>4. ASSUME NEW s \in SUBSET T, s # {}
          PROVE  /\ below(s \ {x(s)})[s \ {x(s)}] \in Int
                 /\ f[x(s)] \in Int
      <3>1. AddsUp(below(s \ {x(s)}), f, s \ {x(s)})
        BY <2>2, <2>3, <2>4
      <3> QED BY <2>3, <2>4, <3>1 DEF AddsUp
    <2>5. g \in [SUBSET T -> Int]
      BY <2>4
    <2>6. ASSUME NEW s \in SUBSET T, s # T
          PROVE  g[s] = below(s)[s]
      <3>1. CASE s = {}
        BY <2>2, <2>6, <3>1 DEF AddsUp
      <3>2. CASE s # {}
        <4>1. AddsUp(below(s), f, s) /\ AddsUp(below(s \ {x(s)}), f, s \ {x(s)})
          BY <2>2, <2>3, <2>6, <3>2
        <4>2. below(s)[s] = f[x(s)] + below(s)[s \ {x(s)}]
          BY <4>1, <3>2 DEF AddsUp, x
        <4>3. below(s)[s \ {x(s)}] = below(s \ {x(s)})[s \ {x(s)}]
          <5>1. ASSUME NEW t, t = s \ {x(s)}
                PROVE  below(s)[t] = below(t)[t]
            <6>1. /\ s \in SUBSET S /\ t \in SUBSET S
                  /\ t \in SUBSET s /\ t \in SUBSET t
              BY <2>1, <5>1
            <6>2. AddsUp(below(s), f, s) /\ AddsUp(below(t), f, t)
              BY <4>1, <5>1
            <6> QED BY <6>1, <6>2, AddsUpOnce
          <5> QED BY <5>1
        <4> QED BY <3>2, <4>2, <4>3
      <3> QED BY <3>1, <3>2
    <2>7. \A s \in SUBSET T : s # {} => g[s] = f[x(s)] + g[s \ {x(s)}]
      BY <2>3, <2>6
    <2>8. g[{}] = 0
      OBVIOUS
    <2> HIDE DEF g
    <2>9. AddsUp(g, f, T)
      BY <2>5, <2>7, <2>8 DEF AddsUp, x
    <2> QED BY <2>1, <2>9
  <1> QED BY <1>1

\* A sum over a finite set takes away one element at a time.
LEMMA SumUnfolds ==
    ASSUME NEW S, IsFiniteSet(S), NEW f \in [S -> Int]
    PROVE  \E g : AddsUp(g, f, S) /\ SumFunction(f) = g[S]
  <1> DEFINE body(iter) == [s \in SUBSET S |->
                 IF s = {} THEN 0
                 ELSE f[CHOOSE x \in s : TRUE] + iter[s \ {CHOOSE x \in s : TRUE}]]
             g == CHOOSE iter : iter = body(iter)
  <1>1. SumFunction(f) = g[S]
    BY DEF SumFunction, SumFunctionOnSet, FoldFunctionOnSet, MapThenFoldSet
  <1>2. PICK h : AddsUp(h, f, S)
    BY AddsUpExists
  <1>3. h = body(h)
    BY <1>2 DEF AddsUp
  <1>4. g = body(g)
    <2> HIDE DEF body
    <2> QED BY <1>3
  <1> HIDE DEF g
  <1>5. g = h
    <2> DEFINE bad == {s \in SUBSET S : g[s] # h[s]}
    <2>1. ASSUME bad # {} PROVE FALSE
      <3>1. bad \in SUBSET (SUBSET S)
        OBVIOUS
      <3> HIDE DEF bad
      <3>2. PICK s \in bad : \A t \in bad : t \subseteq s => t = s
        BY <2>1, <3>1, SmallestSet
      <3> DEFINE x == CHOOSE y \in s : TRUE
      <3>3. s \in SUBSET S /\ g[s] # h[s]
        BY <3>2 DEF bad
      <3>4. s # {}
        <4>1. g[{}] = 0 /\ h[{}] = 0
          BY <1>3, <1>4
        <4> QED BY <3>3, <4>1
      <3>5. g[s] = f[x] + g[s \ {x}] /\ h[s] = f[x] + h[s \ {x}]
        BY <1>3, <1>4, <3>3, <3>4
      <3>6. x \in s
        BY <3>4
      <3> HIDE DEF x
      <3>7. s \ {x} \notin bad
        BY <3>2, <3>6
      <3>8. g[s \ {x}] = h[s \ {x}]
        BY <3>3, <3>7 DEF bad
      <3> QED BY <3>3, <3>5, <3>8
    <2>2. \A s \in SUBSET S : g[s] = h[s]
      BY <2>1
    <2>3. \A k : k = body(k) => k = [s \in SUBSET S |-> k[s]]
      <3>1. \A k : body(k) = [s \in SUBSET S |-> body(k)[s]]
        OBVIOUS
      <3> HIDE DEF body
      <3> QED BY <3>1
    <2>4. g = [s \in SUBSET S |-> g[s]] /\ h = [s \in SUBSET S |-> h[s]]
      <3> HIDE DEF body
      <3> QED BY <1>3, <1>4, <2>3
    <2> HIDE DEF body, bad
    <2> QED BY <2>2, <2>4
  <1> QED BY <1>1, <1>2, <1>5

\* The sum of integers is an integer.
LEMMA SumIsInt ==
    ASSUME NEW S, IsFiniteSet(S), NEW f \in [S -> Int]
    PROVE  SumFunction(f) \in Int
  <1>1. PICK g : AddsUp(g, f, S) /\ SumFunction(f) = g[S]
    BY SumUnfolds
  <1> QED BY <1>1 DEF AddsUp

\* A function that is zero everywhere adds up to zero.
LEMMA SumOfZeros ==
    ASSUME NEW S, IsFiniteSet(S), NEW f \in [S -> Int], \A x \in S : f[x] = 0
    PROVE  SumFunction(f) = 0
  <1>1. PICK g : AddsUp(g, f, S) /\ SumFunction(f) = g[S]
    BY SumUnfolds
  <1> DEFINE zeros == [s \in SUBSET S |-> 0]
  <1>2. AddsUp(zeros, f, S)
    BY DEF AddsUp
  <1>3. zeros[S] = 0
    OBVIOUS
  <1> HIDE DEF zeros
  <1>4. g[S] = zeros[S]
    BY <1>1, <1>2, AddsUpOnce
  <1> QED BY <1>1, <1>3, <1>4

\* Changing a function at one point changes its sum by the difference.
LEMMA SumChanges ==
    ASSUME NEW S, IsFiniteSet(S), NEW f \in [S -> Int], NEW h \in [S -> Int],
           NEW a \in S, \A x \in S \ {a} : h[x] = f[x]
    PROVE  SumFunction(h) = SumFunction(f) + (h[a] - f[a])
  <1>1. PICK g : AddsUp(g, f, S) /\ SumFunction(f) = g[S]
    BY SumUnfolds
  <1> DEFINE k == [s \in SUBSET S |-> g[s] + (IF a \in s THEN h[a] - f[a] ELSE 0)]
  <1>2. AddsUp(k, h, S)
    <2>1. k \in [SUBSET S -> Int]
      BY <1>1 DEF AddsUp
    <2>2. ASSUME NEW s \in SUBSET S, s # {}, NEW x, x = CHOOSE y \in s : TRUE
          PROVE  k[s] = h[x] + k[s \ {x}]
      <3>1. x \in s /\ x \in S
        BY <2>2
      <3>2. g[s] = f[x] + g[s \ {x}]
        BY <1>1, <2>2 DEF AddsUp
      <3>3. g[s] \in Int /\ g[s \ {x}] \in Int
        BY <1>1 DEF AddsUp
      <3>4. f[x] \in Int /\ h[x] \in Int /\ f[a] \in Int /\ h[a] \in Int
        BY <3>1
      <3>5. CASE x = a
        BY <3>1, <3>2, <3>3, <3>4, <3>5
      <3>6. CASE x # a
        <4>1. h[x] = f[x] /\ (a \in s <=> a \in s \ {x})
          BY <3>1, <3>6
        <4> QED BY <3>2, <3>3, <3>4, <4>1
      <3> QED BY <3>5, <3>6
    <2>3. k[{}] = 0
      BY <1>1 DEF AddsUp
    <2> HIDE DEF k
    <2> QED BY <2>1, <2>2, <2>3 DEF AddsUp
  <1>3. PICK l : AddsUp(l, h, S) /\ SumFunction(h) = l[S]
    BY SumUnfolds
  <1>4. l[S] = k[S]
    <2> HIDE DEF k
    <2> QED BY <1>2, <1>3, AddsUpOnce
  <1> QED BY <1>1, <1>3, <1>4
=============================================================================
