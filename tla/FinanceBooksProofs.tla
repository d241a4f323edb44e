-------------------------- MODULE FinanceBooksProofs --------------------------
(***************************************************************************)
(* The commission of a booking is settled when it is made, and every       *)
(* report of the console, the export, the dashboard and the listing        *)
(* calendar adds up to the same figures: for any hosts, bookings, prices,  *)
(* currencies and rates.  Sums over any number of bookings are reasoned    *)
(* about by induction over the subsets of a set.                           *)
(***************************************************************************)
EXTENDS MCFaults, BookingMoneyProofs, Sequences, FiniteSetTheorems

-------------------------------------------------------------------------------
(* Sums                                                                    *)

\* A sum over a set takes one of its members off, again and again.
Unfolds(g, f, S) ==
    \A s \in SUBSET S : g[s] = IF s = {} THEN 0
                               ELSE f[CHOOSE x \in s : TRUE] + g[s \ {CHOOSE x \in s : TRUE}]

\* Such a sum exists, and is what a report builds.
LEMMA SumUnfolds ==
    ASSUME NEW S, IsFiniteSet(S), NEW f, DOMAIN f = S
    PROVE  \E g : Unfolds(g, f, S) /\ Books!SumFunction(f) = g[S]
  <1> DEFINE term(g, s) == IF s = {} THEN 0
                           ELSE f[CHOOSE x \in s : TRUE] + g[s \ {CHOOSE x \in s : TRUE}]
             body(g) == [s \in SUBSET S |-> term(g, s)]
             Upto(g, n) == \A s \in SUBSET S : Cardinality(s) <= n => g[s] = term(g, s)
             iter == CHOOSE g : g = body(g)
             bad == {n \in Nat : ~\E g : Upto(g, n)}
  <1>1. \A s \in SUBSET S : IsFiniteSet(s) /\ Cardinality(s) \in Nat /\ Cardinality(s) <= Cardinality(S)
    BY FS_Subset, FS_CardinalityType
  <1>2. \A s \in SUBSET S : s # {} =>
            /\ s \ {CHOOSE x \in s : TRUE} \in SUBSET S
            /\ Cardinality(s \ {CHOOSE x \in s : TRUE}) = Cardinality(s) - 1
    BY <1>1, FS_RemoveElement
  <1>3. \A s \in SUBSET S : Cardinality(s) <= 0 => s = {}
    BY <1>1, FS_EmptySet
  <1>4. ASSUME NEW g, NEW h, NEW n \in Nat, Upto(g, n - 1),
               h = [s \in SUBSET S |-> IF Cardinality(s) <= n - 1 THEN g[s] ELSE term(g, s)]
        PROVE  Upto(h, n)
    <2> SUFFICES ASSUME NEW s \in SUBSET S, Cardinality(s) <= n PROVE h[s] = term(h, s)
      OBVIOUS
    <2>1. h[s] = term(g, s)
      <3> HIDE DEF term
      <3> QED BY <1>4
    <2>2. ASSUME s # {} PROVE h[s \ {CHOOSE x \in s : TRUE}] = g[s \ {CHOOSE x \in s : TRUE}]
      <3>1. PICK t \in SUBSET S : t = s \ {CHOOSE x \in s : TRUE}
        BY <1>2, <2>2
      <3>2. Cardinality(t) = Cardinality(s) - 1 /\ Cardinality(s) \in Nat
        BY <1>1, <1>2, <2>2, <3>1
      <3>3. h[t] = g[t]
        <4> HIDE DEF term
        <4> QED BY <1>4, <3>2
      <3> QED BY <3>1, <3>3
    <2> QED BY <2>1, <2>2
  <1>5. \E g : Upto(g, 0)
    <2>1. PICK g : g = [s \in SUBSET S |-> 0]
      OBVIOUS
    <2>2. \A s \in SUBSET S : s = {} => g[s] = term(g, s)
      BY <2>1
    <2>3. Upto(g, 0)
      <3> HIDE DEF term
      <3> QED BY <1>3, <2>2
    <2> HIDE DEF Upto
    <2> QED BY <2>3
  <1>6. bad = {}
    <2> HIDE DEF Upto
    <2> SUFFICES ASSUME bad # {} PROVE FALSE
      OBVIOUS
    <2>1. PICK n \in bad : \A m \in bad : <<m, n>> \notin OpToRel(<, Nat)
      <3>1. IsWellFoundedOn(OpToRel(<, Nat), Nat) /\ bad \subseteq Nat
        BY NatLessThanWellFounded
      <3> QED BY <3>1, WFMin
    <2>2. n \in Nat /\ n # 0 /\ n - 1 \in Nat /\ n - 1 < n
      <3>1. n \in Nat /\ ~\E g : Upto(g, n)
        BY <2>1
      <3>2. n # 0
        BY <1>5, <3>1, Zenon
      <3> QED BY <3>1, <3>2
    <2>3. <<n - 1, n>> \in OpToRel(<, Nat)
      BY <2>2 DEF OpToRel
    <2>4. PICK g : Upto(g, n - 1)
      BY <2>1, <2>2, <2>3
    <2>5. PICK h : h = [s \in SUBSET S |-> IF Cardinality(s) <= n - 1 THEN g[s] ELSE term(g, s)]
      OBVIOUS
    <2>6. Upto(h, n)
      BY <1>4, <2>2, <2>4, <2>5
    <2> QED BY <2>1, <2>6
  <1>7. \E g : g = body(g)
    <2>1. Cardinality(S) \in Nat
      BY <1>1
    <2>2. PICK g : Upto(g, Cardinality(S))
      <3> HIDE DEF Upto
      <3> QED BY <1>6, <2>1
    <2>3. PICK h : h = [s \in SUBSET S |-> g[s]]
      OBVIOUS
    <2>4. \A s \in SUBSET S : g[s] = term(g, s) /\ term(h, s) = term(g, s)
      <3>1. \A s \in SUBSET S : g[s] = term(g, s)
        <4> HIDE DEF term
        <4> QED BY <1>1, <2>2
      <3>2. \A s \in SUBSET S : term(h, s) = term(g, s)
        BY <1>2, <2>3
      <3> QED BY <3>1, <3>2
    <2>5. h = body(h)
      <3> HIDE DEF term
      <3> QED BY <2>3, <2>4
    <2> HIDE DEF body
    <2> QED BY <2>5
  <1>8. iter = body(iter)
    <2> HIDE DEF body
    <2> QED BY <1>7
  <1>9. Books!SumFunction(f) = iter[S]
    BY Zenon DEF Books!SumFunction, Books!SumFunctionOnSet, Books!FoldFunctionOnSet, Books!MapThenFoldSet
  <1>10. Unfolds(iter, f, S)
    <2>1. \A s \in SUBSET S : iter[s] = term(iter, s)
      <3> HIDE DEF term, iter
      <3> QED BY <1>8
    <2> HIDE DEF iter
    <2> QED BY <2>1 DEF Unfolds
  <1> HIDE DEF iter
  <1> QED BY <1>9, <1>10

\* The sum of f over S, as the reports build it.
Sum(f, S) == Books!SumFunction([x \in S |-> f[x]])

\* A set of subsets of a finite S that contains each s when it contains what is left of
\* s without any one of its members contains them all.
LEMMA SubsetInduction ==
    ASSUME NEW S, IsFiniteSet(S), NEW G,
           \A s \in SUBSET S : (\A x \in s : s \ {x} \in G) => s \in G
    PROVE  S \in G
  <1> DEFINE bad == {n \in Nat : \E s \in SUBSET S : Cardinality(s) = n /\ s \notin G}
  <1>1. \A s \in SUBSET S : IsFiniteSet(s) /\ Cardinality(s) \in Nat
    BY FS_Subset, FS_CardinalityType
  <1>2. bad = {}
    <2> SUFFICES ASSUME bad # {} PROVE FALSE
      OBVIOUS
    <2>1. PICK n \in bad : \A m \in bad : <<m, n>> \notin OpToRel(<, Nat)
      <3>1. IsWellFoundedOn(OpToRel(<, Nat), Nat) /\ bad \subseteq Nat
        BY NatLessThanWellFounded
      <3> QED BY <3>1, WFMin
    <2>2. PICK s \in SUBSET S : Cardinality(s) = n /\ s \notin G
      BY <2>1
    <2>3. PICK x \in s : s \ {x} \notin G
      BY <2>2
    <2>4. Cardinality(s \ {x}) = n - 1 /\ n - 1 \in Nat /\ n \in Nat
      <3>1. IsFiniteSet(s) /\ Cardinality(s) \in Nat /\ Cardinality(s \ {x}) \in Nat
        BY <1>1
      <3>2. Cardinality(s \ {x}) = Cardinality(s) - 1
        BY <3>1, FS_RemoveElement
      <3> QED BY <2>2, <3>1, <3>2
    <2>5. n - 1 \in bad
      BY <2>3, <2>4
    <2>6. <<n - 1, n>> \in OpToRel(<, Nat)
      BY <2>4 DEF OpToRel
    <2> QED BY <2>1, <2>5, <2>6
  <1>3. Cardinality(S) \in Nat /\ S \in SUBSET S
    BY <1>1
  <1> QED BY <1>2, <1>3

\* The empty sum.
LEMMA SumEmpty == ASSUME NEW f PROVE Sum(f, {}) = 0
  <1>1. IsFiniteSet({})
    BY FS_EmptySet
  <1>2. PICK h : h = [x \in {} |-> f[x]]
    OBVIOUS
  <1>3. PICK g : Unfolds(g, h, {}) /\ Books!SumFunction(h) = g[{}]
    BY <1>1, <1>2, SumUnfolds
  <1> QED BY <1>2, <1>3 DEF Sum, Unfolds

\* A sum is the chosen term and the sum of the others.
LEMMA SumChosen ==
    ASSUME NEW S, IsFiniteSet(S), S # {}, NEW f
    PROVE  \E c \in S : Sum(f, S) = f[c] + Sum(f, S \ {c})
  <1>c. PICK c \in S : c = CHOOSE x \in S : TRUE
    OBVIOUS
  <1>0. PICK T : T = S \ {c}
    OBVIOUS
  <1>1. IsFiniteSet(T) /\ T \subseteq S /\ c \in S
    BY <1>0, FS_RemoveElement
  <1>2. PICK k : k = [x \in S |-> f[x]]
    OBVIOUS
  <1>3. PICK l : l = [x \in T |-> f[x]]
    OBVIOUS
  <1>4. PICK g : Unfolds(g, k, S) /\ Books!SumFunction(k) = g[S]
    BY <1>2, SumUnfolds
  <1>5. PICK h : Unfolds(h, l, T) /\ Books!SumFunction(l) = h[T]
    BY <1>1, <1>3, SumUnfolds
  <1> DEFINE G == {t \in SUBSET T : g[t] = h[t]}
  <1>6. ASSUME NEW t \in SUBSET T, \A x \in t : t \ {x} \in G PROVE t \in G
    <2>1. CASE t = {}
      BY <1>4, <1>5, <2>1 DEF Unfolds
    <2>2. CASE t # {}
      <3>1. PICK d \in t : d = CHOOSE x \in t : TRUE
        BY <2>2
      <3>2. g[t] = k[d] + g[t \ {d}]
        BY <1>1, <1>4, <2>2, <3>1 DEF Unfolds
      <3>3. h[t] = l[d] + h[t \ {d}]
        BY <1>5, <2>2, <3>1 DEF Unfolds
      <3>4. k[d] = l[d]
        BY <1>1, <1>2, <1>3
      <3> QED BY <1>6, <3>2, <3>3, <3>4
    <2> QED BY <2>1, <2>2
  <1>7. T \in G
    <2> HIDE DEF G
    <2> QED BY <1>1, <1>6, SubsetInduction
  <1>8. g[S] = k[c] + g[T]
    BY <1>0, <1>c, <1>4 DEF Unfolds
  <1>9. k[c] = f[c]
    BY <1>1, <1>2
  <1> QED BY <1>0, <1>c, <1>2, <1>3, <1>4, <1>5, <1>7, <1>8, <1>9 DEF Sum

\* It is a number.
LEMMA SumInt ==
    ASSUME NEW S, IsFiniteSet(S), NEW f, \A x \in S : f[x] \in Int
    PROVE  Sum(f, S) \in Int
  <1> DEFINE G == {s \in SUBSET S : Sum(f, s) \in Int}
  <1>1. ASSUME NEW s \in SUBSET S, \A x \in s : s \ {x} \in G PROVE s \in G
    <2>1. CASE s = {}
      BY <2>1, SumEmpty
    <2>2. CASE s # {}
      <3>1. IsFiniteSet(s)
        BY FS_Subset
      <3>2. PICK c \in s : Sum(f, s) = f[c] + Sum(f, s \ {c})
        BY <2>2, <3>1, SumChosen
      <3> QED BY <1>1, <3>2
    <2> QED BY <2>1, <2>2
  <1>2. S \in G
    <2> HIDE DEF G
    <2>1. \A s \in SUBSET S : (\A x \in s : s \ {x} \in G) => s \in G
      BY <1>1
    <2> QED BY <2>1, SubsetInduction
  <1> QED BY <1>2

\* Any of its terms may be taken off.
LEMMA SumTake ==
    ASSUME NEW S, IsFiniteSet(S), NEW f, \A x \in S : f[x] \in Int
    PROVE  \A x \in S : Sum(f, S) = f[x] + Sum(f, S \ {x})
  <1> DEFINE G == {s \in SUBSET S : \A x \in s : Sum(f, s) = f[x] + Sum(f, s \ {x})}
  <1>1. ASSUME NEW s \in SUBSET S, \A x \in s : s \ {x} \in G PROVE s \in G
    <2>1. CASE s = {}
      BY <2>1
    <2>2. CASE s # {}
      <3>1. IsFiniteSet(s)
        BY FS_Subset
      <3>2. PICK c \in s : Sum(f, s) = f[c] + Sum(f, s \ {c})
        BY <2>2, <3>1, SumChosen
      <3>3. ASSUME NEW x \in s, x # c PROVE Sum(f, s) = f[x] + Sum(f, s \ {x})
        <4>1. PICK t : t = (s \ {c}) \ {x}
          OBVIOUS
        <4>2. t = (s \ {x}) \ {c} /\ t \in SUBSET S
          BY <4>1
        <4>3. Sum(f, t) \in Int /\ f[x] \in Int /\ f[c] \in Int
          BY <4>2, FS_Subset, SumInt
        <4>4. Sum(f, s \ {c}) = f[x] + Sum(f, t)
          BY <1>1, <3>3, <4>1
        <4>5. Sum(f, s \ {x}) = f[c] + Sum(f, t)
          BY <1>1, <3>3, <4>2
        <4> QED BY <3>2, <4>3, <4>4, <4>5
      <3> QED BY <3>2, <3>3
    <2> QED BY <2>1, <2>2
  <1>2. S \in G
    <2> HIDE DEF G
    <2>1. \A s \in SUBSET S : (\A x \in s : s \ {x} \in G) => s \in G
      BY <1>1
    <2> QED BY <2>1, SubsetInduction
  <1> QED BY <1>2

\* It depends on the terms only.
LEMMA SumSame ==
    ASSUME NEW S, NEW f, NEW h, \A x \in S : f[x] = h[x]
    PROVE  Sum(f, S) = Sum(h, S)
  <1>1. [x \in S |-> f[x]] = [x \in S |-> h[x]]
    OBVIOUS
  <1> QED BY <1>1 DEF Sum

\* Two sums of one set add up term by term.
LEMMA SumPlus ==
    ASSUME NEW S, IsFiniteSet(S), NEW f, NEW h, NEW k,
           \A x \in S : f[x] \in Int /\ h[x] \in Int /\ k[x] = f[x] + h[x]
    PROVE  Sum(k, S) = Sum(f, S) + Sum(h, S)
  <1> DEFINE G == {s \in SUBSET S : Sum(k, s) = Sum(f, s) + Sum(h, s)}
  <1>1. ASSUME NEW s \in SUBSET S, \A x \in s : s \ {x} \in G PROVE s \in G
    <2>1. CASE s = {}
      BY <2>1, SumEmpty
    <2>2. CASE s # {}
      <3>1. PICK x \in s : TRUE
        BY <2>2
      <3>2. IsFiniteSet(s) /\ IsFiniteSet(s \ {x})
        BY FS_Subset
      <3>3. Sum(f, s) = f[x] + Sum(f, s \ {x}) /\ Sum(h, s) = h[x] + Sum(h, s \ {x})
        BY <3>2, SumTake
      <3>4. Sum(k, s) = k[x] + Sum(k, s \ {x})
        BY <3>2, SumTake
      <3>5. Sum(f, s \ {x}) \in Int /\ Sum(h, s \ {x}) \in Int
        BY <3>2, SumInt
      <3>6. Sum(k, s \ {x}) = Sum(f, s \ {x}) + Sum(h, s \ {x}) /\ k[x] = f[x] + h[x]
            /\ f[x] \in Int /\ h[x] \in Int
        BY <1>1
      <3> QED BY <3>3, <3>4, <3>5, <3>6
    <2> QED BY <2>1, <2>2
  <1>2. S \in G
    <2> HIDE DEF G
    <2> QED BY <1>1, SubsetInduction
  <1> QED BY <1>2

\* A common factor can be taken out.
LEMMA SumTimes ==
    ASSUME NEW S, IsFiniteSet(S), NEW f, NEW h, NEW c \in Int,
           \A x \in S : f[x] \in Int /\ h[x] = c * f[x]
    PROVE  Sum(h, S) = c * Sum(f, S)
  <1> DEFINE G == {s \in SUBSET S : Sum(h, s) = c * Sum(f, s)}
  <1>1. ASSUME NEW s \in SUBSET S, \A x \in s : s \ {x} \in G PROVE s \in G
    <2>1. CASE s = {}
      BY <2>1, SumEmpty
    <2>2. CASE s # {}
      <3>1. PICK x \in s : TRUE
        BY <2>2
      <3>2. IsFiniteSet(s) /\ IsFiniteSet(s \ {x})
        BY FS_Subset
      <3>3. PICK a \in Int : a = Sum(f, s \ {x})
        BY <3>2, SumInt
      <3>4. Sum(f, s) = f[x] + a
        BY <3>2, <3>3, SumTake
      <3>5. \A y \in s : h[y] \in Int
        OBVIOUS
      <3>6. Sum(h, s) = h[x] + Sum(h, s \ {x})
        BY <3>2, <3>5, SumTake
      <3>7. Sum(h, s \ {x}) = c * a /\ h[x] = c * f[x] /\ f[x] \in Int
        BY <1>1, <3>3
      <3>8. c * (f[x] + a) = c * f[x] + c * a
        BY <3>7
      <3> QED BY <3>4, <3>6, <3>7, <3>8
    <2> QED BY <2>1, <2>2
  <1>2. S \in G
    <2> HIDE DEF G
    <2> QED BY <1>1, SubsetInduction
  <1> QED BY <1>2

\* Terms that are zero may be left out.
LEMMA SumWithout ==
    ASSUME NEW S, IsFiniteSet(S), NEW T \in SUBSET S, NEW f,
           \A x \in S : f[x] \in Int, \A x \in S \ T : f[x] = 0
    PROVE  Sum(f, T) = Sum(f, S)
  <1> DEFINE G == {s \in SUBSET S : Sum(f, s \cap T) = Sum(f, s)}
  <1>1. ASSUME NEW s \in SUBSET S, \A x \in s : s \ {x} \in G PROVE s \in G
    <2>1. CASE s = {}
      <3>1. s \cap T = s
        BY <2>1
      <3> QED BY <3>1
    <2>2. CASE s # {}
      <3>1. PICK x \in s : TRUE
        BY <2>2
      <3>2. IsFiniteSet(s) /\ IsFiniteSet(s \ {x}) /\ IsFiniteSet(s \cap T)
        BY FS_Subset
      <3>3. Sum(f, s) = f[x] + Sum(f, s \ {x})
        BY <3>2, SumTake
      <3>4. Sum(f, (s \ {x}) \cap T) = Sum(f, s \ {x}) /\ Sum(f, s \ {x}) \in Int
        BY <1>1, <3>2, SumInt
      <3>5. CASE x \in T
        <4>1. (s \ {x}) \cap T = (s \cap T) \ {x}
          OBVIOUS
        <4>2. Sum(f, s \cap T) = f[x] + Sum(f, (s \cap T) \ {x})
          BY <3>2, <3>5, SumTake
        <4> QED BY <3>3, <3>4, <4>1, <4>2
      <3>6. CASE x \notin T
        <4>1. (s \ {x}) \cap T = s \cap T /\ f[x] = 0
          BY <3>6
        <4>2. Sum(f, s \cap T) = Sum(f, s \ {x})
          BY <3>4, <4>1
        <4>3. Sum(f, s) = Sum(f, s \ {x})
          BY <3>3, <3>4, <4>1
        <4> QED BY <4>2, <4>3
      <3> QED BY <3>5, <3>6
    <2> QED BY <2>1, <2>2
  <1>2. S \in G
    <2> HIDE DEF G
    <2> QED BY <1>1, SubsetInduction
  <1>3. S \cap T = T
    OBVIOUS
  <1> QED BY <1>2, <1>3

\* A sum of zeros is zero.
LEMMA SumOfZeros ==
    ASSUME NEW S, IsFiniteSet(S), NEW f, \A x \in S : f[x] = 0
    PROVE  Sum(f, S) = 0
  <1>1. Sum(f, {}) = Sum(f, S)
    BY SumWithout
  <1> QED BY <1>1, SumEmpty

\* The terms h over T are the sums of f over the parts p that g makes of S.
InParts(S, T, f, g, h, p) ==
    /\ IsFiniteSet(S) /\ IsFiniteSet(T)
    /\ \A x \in S : f[x] \in Int /\ g[x] \in T
    /\ \A t \in T : h[t] = Sum(f, p[t]) /\ \A x : x \in p[t] <=> x \in S /\ g[x] = t

\* A sum may be taken part by part.
LEMMA SumByParts ==
    ASSUME NEW S, NEW T, NEW f, NEW g, NEW h, NEW p, InParts(S, T, f, g, h, p)
    PROVE  Sum(h, T) = Sum(f, S)
  <1> DEFINE Part(s, t) == {x \in s : g[x] = t}
             By(s) == [t \in T |-> Sum(f, Part(s, t))]
             G == {s \in SUBSET S : Sum(By(s), T) = Sum(f, s)}
  <1> USE DEF InParts
  <1>0. \A s \in SUBSET S : IsFiniteSet(s) /\ \A t \in T : By(s)[t] \in Int
    <2>1. \A s \in SUBSET S : IsFiniteSet(s) /\ \A x \in s : f[x] \in Int
      BY FS_Subset
    <2>2. ASSUME NEW s \in SUBSET S, NEW t \in T PROVE Sum(f, Part(s, t)) \in Int
      <3>1. Part(s, t) \in SUBSET S
        OBVIOUS
      <3> HIDE DEF Part
      <3> QED BY <2>1, <3>1, SumInt
    <2> HIDE DEF Part
    <2> QED BY <2>1, <2>2
  <1>1. ASSUME NEW s \in SUBSET S, \A x \in s : s \ {x} \in G PROVE s \in G
    <2>1. CASE s = {}
      <3>1. \A t \in T : Part(s, t) = {}
        BY <2>1
      <3>2. \A t \in T : By(s)[t] = 0
        BY <3>1, SumEmpty
      <3> HIDE DEF By
      <3> QED BY <2>1, <3>2, SumOfZeros, SumEmpty
    <2>2. CASE s # {}
      <3>1. PICK x \in s : TRUE
        BY <2>2
      <3>2. PICK u \in T : u = g[x]
        BY <3>1
      <3>3. PICK A : A = By(s)
        OBVIOUS
      <3>4. PICK B : B = By(s \ {x})
        OBVIOUS
      <3>5. \A t \in T : A[t] \in Int /\ B[t] \in Int
        BY <1>0, <3>3, <3>4
      <3>6. \A t \in T \ {u} : A[t] = B[t]
        <4>1. \A t \in T \ {u} : Part(s, t) = Part(s \ {x}, t)
          BY <3>2
        <4> HIDE DEF Part
        <4> QED BY <3>3, <3>4, <4>1
      <3>7. A[u] = f[x] + B[u]
        <4>1. Part(s, u) \ {x} = Part(s \ {x}, u) /\ x \in Part(s, u) /\ Part(s, u) \in SUBSET S
          BY <3>2
        <4>2. A[u] = Sum(f, Part(s, u)) /\ B[u] = Sum(f, Part(s \ {x}, u))
          BY <3>3, <3>4
        <4>3. IsFiniteSet(Part(s, u)) /\ \A y \in Part(s, u) : f[y] \in Int
          BY <4>1, FS_Subset
        <4> HIDE DEF Part
        <4>4. Sum(f, Part(s, u)) = f[x] + Sum(f, Part(s, u) \ {x})
          BY <4>1, <4>3, SumTake
        <4> QED BY <4>1, <4>2, <4>4
      <3>8. IsFiniteSet(T \ {u})
        BY FS_RemoveElement
      <3>9. Sum(A, T) = A[u] + Sum(A, T \ {u}) /\ Sum(B, T) = B[u] + Sum(B, T \ {u})
        BY <3>5, SumTake
      <3>10. Sum(A, T \ {u}) = Sum(B, T \ {u}) /\ Sum(B, T \ {u}) \in Int
        BY <3>5, <3>6, <3>8, SumSame, SumInt
      <3>11. IsFiniteSet(s) /\ \A y \in s : f[y] \in Int
        BY <1>0
      <3>12. Sum(f, s) = f[x] + Sum(f, s \ {x}) /\ f[x] \in Int
        BY <3>11, SumTake
      <3>13. Sum(B, T) = Sum(f, s \ {x})
        BY <1>1, <3>4
      <3>14. Sum(A, T) = Sum(f, s)
        BY <3>2, <3>5, <3>7, <3>9, <3>10, <3>12, <3>13
      <3> QED BY <3>3, <3>14
    <2> QED BY <2>1, <2>2
  <1>2. S \in G
    <2> HIDE DEF G
    <2> QED BY <1>1, SubsetInduction
  <1>3. ASSUME NEW t \in T PROVE h[t] = By(S)[t]
    <2>1. p[t] = Part(S, t)
      OBVIOUS
    <2>2. By(S)[t] = Sum(f, Part(S, t))
      OBVIOUS
    <2> HIDE DEF By, Part
    <2> QED BY <2>1, <2>2
  <1>4. Sum(h, T) = Sum(By(S), T)
    <2> HIDE DEF By
    <2> QED BY <1>3, SumSame
  <1> QED BY <1>2, <1>4

\* Over the image of a set under a function that is one to one.
LEMMA SumOverImage ==
    ASSUME NEW S, IsFiniteSet(S), NEW g, NEW f, NEW h,
           \A x \in S : f[x] \in Int /\ h[g[x]] = f[x],
           \A x, y \in S : g[x] = g[y] => x = y
    PROVE  /\ IsFiniteSet({g[x] : x \in S})
           /\ Sum(h, {g[x] : x \in S}) = Sum(f, S)
  <1> DEFINE Img(s) == {g[x] : x \in s}
             G == {s \in SUBSET S : IsFiniteSet(Img(s)) /\ Sum(h, Img(s)) = Sum(f, s)}
  <1>1. ASSUME NEW s \in SUBSET S, \A x \in s : s \ {x} \in G PROVE s \in G
    <2>1. CASE s = {}
      <3>1. Img(s) = {}
        BY <2>1
      <3> HIDE DEF Img
      <3> QED BY <2>1, <3>1, SumEmpty, FS_EmptySet
    <2>2. CASE s # {}
      <3>1. PICK x \in s : TRUE
        BY <2>2
      <3>2. PICK A : A = Img(s)
        OBVIOUS
      <3>3. PICK B : B = Img(s \ {x})
        OBVIOUS
      <3>4. A \ {g[x]} = B /\ A = B \cup {g[x]} /\ g[x] \in A
        BY <3>2, <3>3
      <3>5. IsFiniteSet(B) /\ Sum(h, B) = Sum(f, s \ {x})
        BY <1>1, <3>3
      <3>6. IsFiniteSet(A)
        BY <3>4, <3>5, FS_AddElement
      <3>7. \A y \in A : h[y] \in Int
        BY <3>2
      <3>8. Sum(h, A) = h[g[x]] + Sum(h, B)
        BY <3>4, <3>6, <3>7, SumTake
      <3>9. Sum(f, s) = f[x] + Sum(f, s \ {x})
        <4>1. IsFiniteSet(s)
          BY FS_Subset
        <4> QED BY <4>1, SumTake
      <3>10. h[g[x]] = f[x]
        OBVIOUS
      <3>11. IsFiniteSet(A) /\ Sum(h, A) = Sum(f, s)
        BY <3>5, <3>6, <3>8, <3>9, <3>10
      <3> QED BY <3>2, <3>11
    <2> QED BY <2>1, <2>2
  <1>2. S \in G
    <2> HIDE DEF G
    <2> QED BY <1>1, SubsetInduction
  <1> QED BY <1>2

\* The sum of ones is the number of elements.
LEMMA SumOfOnes ==
    ASSUME NEW S, IsFiniteSet(S), NEW f, \A x \in S : f[x] = 1
    PROVE  Sum(f, S) = Cardinality(S)
  <1> DEFINE G == {s \in SUBSET S : Sum(f, s) = Cardinality(s)}
  <1>1. ASSUME NEW s \in SUBSET S, \A x \in s : s \ {x} \in G PROVE s \in G
    <2>1. CASE s = {}
      BY <2>1, SumEmpty, FS_EmptySet
    <2>2. CASE s # {}
      <3>1. PICK x \in s : TRUE
        BY <2>2
      <3>2. IsFiniteSet(s)
        BY FS_Subset
      <3>3. Cardinality(s) \in Nat /\ Cardinality(s \ {x}) = Cardinality(s) - 1
        BY <3>2, FS_CardinalityType, FS_RemoveElement
      <3>4. \A y \in s : f[y] \in Int
        OBVIOUS
      <3>5. Sum(f, s) = f[x] + Sum(f, s \ {x}) /\ f[x] = 1
        BY <3>2, <3>4, SumTake
      <3>6. Sum(f, s \ {x}) = Cardinality(s \ {x})
        BY <1>1
      <3> QED BY <3>3, <3>5, <3>6
    <2> QED BY <2>1, <2>2
  <1>2. S \in G
    <2> HIDE DEF G
    <2> QED BY <1>1, SubsetInduction
  <1> QED BY <1>2

\* A sum of terms within c of zero is within c times the number of terms.
LEMMA SumWithin ==
    ASSUME NEW S, IsFiniteSet(S), NEW f, NEW c \in Nat, \A x \in S : f[x] \in Int /\ -c <= f[x] /\ f[x] <= c
    PROVE  /\ Sum(f, S) \in Int /\ Cardinality(S) \in Nat
           /\ -(c * Cardinality(S)) <= Sum(f, S) /\ Sum(f, S) <= c * Cardinality(S)
  <1> DEFINE Bounded(s) == -(c * Cardinality(s)) <= Sum(f, s) /\ Sum(f, s) <= c * Cardinality(s)
             G == {s \in SUBSET S : Bounded(s)}
  <1>1. ASSUME NEW s \in SUBSET S, \A x \in s : s \ {x} \in G PROVE s \in G
    <2>1. CASE s = {}
      <3>1. Sum(f, s) = 0 /\ Cardinality(s) = 0
        BY <2>1, SumEmpty, FS_EmptySet
      <3> QED BY <3>1
    <2>2. CASE s # {}
      <3>1. PICK x \in s : TRUE
        BY <2>2
      <3>2. IsFiniteSet(s) /\ IsFiniteSet(s \ {x})
        BY FS_Subset
      <3>3. PICK n \in Nat : n = Cardinality(s \ {x}) /\ Cardinality(s) = n + 1
        BY <3>2, FS_CardinalityType, FS_RemoveElement
      <3>4. PICK a \in Int : a = Sum(f, s \ {x})
        BY <3>2, SumInt
      <3>5. Sum(f, s) = f[x] + a
        BY <3>2, <3>4, SumTake
      <3>6. PICK d \in Int : d = c * n
        OBVIOUS
      <3>7. c * (n + 1) = d + c
        BY <3>6
      <3>8. s \ {x} \in G
        BY <1>1
      <3>9. -d <= a /\ a <= d
        BY <3>3, <3>4, <3>6, <3>8
      <3>10. -(d + c) <= f[x] + a /\ f[x] + a <= d + c
        BY <3>9
      <3>11. Bounded(s)
        BY <3>3, <3>5, <3>7, <3>10
      <3> QED BY <3>11
    <2> QED BY <2>1, <2>2
  <1>2. S \in G
    <2> HIDE DEF G
    <2> QED BY <1>1, SubsetInduction
  <1> QED BY <1>2, SumInt, FS_CardinalityType

\* The steps of a function from 0 to n add up to the way it goes.
LEMMA SumOfSteps ==
    ASSUME NEW n \in Nat, NEW F, \A m \in 0 .. n : F[m] \in Int,
           NEW f, \A m \in 1 .. n : f[m] = F[m] - F[m - 1]
    PROVE  Sum(f, 1 .. n) = F[n] - F[0]
  <1> DEFINE bad == {k \in 0 .. n : Sum(f, 1 .. k) # F[k] - F[0]}
  <1>1. bad = {}
    <2> SUFFICES ASSUME bad # {} PROVE FALSE
      OBVIOUS
    <2>1. PICK k \in bad : \A m \in bad : <<m, k>> \notin OpToRel(<, Nat)
      <3>1. IsWellFoundedOn(OpToRel(<, Nat), Nat)
        BY NatLessThanWellFounded
      <3>2. bad \subseteq Nat
        OBVIOUS
      <3> HIDE DEF bad
      <3> QED BY <3>1, <3>2, WFMin
    <2>2. k \in 0 .. n /\ Sum(f, 1 .. k) # F[k] - F[0]
      BY <2>1
    <2>3. CASE k = 0
      <3>1. 1 .. k = {} /\ F[0] \in Int
        BY <2>3
      <3>2. Sum(f, 1 .. k) = 0
        BY <3>1, SumEmpty
      <3> QED BY <2>2, <2>3, <3>1, <3>2
    <2>4. CASE k # 0
      <3>1. k - 1 \in 0 .. n /\ k \in 1 .. n /\ k - 1 < k /\ k \in Nat /\ k - 1 \in Nat
        BY <2>2, <2>4
      <3>2. <<k - 1, k>> \in OpToRel(<, Nat)
        BY <3>1 DEF OpToRel
      <3>3. Sum(f, 1 .. (k - 1)) = F[k - 1] - F[0]
        BY <2>1, <3>1, <3>2
      <3>4. (1 .. k) \ {k} = 1 .. (k - 1) /\ k \in 1 .. k
        BY <3>1
      <3>5. \A m \in 1 .. k : f[m] \in Int
        <4>1. ASSUME NEW m \in 1 .. k PROVE f[m] \in Int
          <5>1. m \in 1 .. n /\ m \in 0 .. n /\ m - 1 \in 0 .. n
            BY <3>1
          <5>2. F[m] \in Int /\ F[m - 1] \in Int
            BY <5>1
          <5>3. f[m] = F[m] - F[m - 1]
            BY <5>1
          <5> QED BY <5>2, <5>3
        <4> QED BY <4>1
      <3>6. IsFiniteSet(1 .. k)
        BY <3>1, FS_Interval
      <3>7. Sum(f, 1 .. k) = f[k] + Sum(f, 1 .. (k - 1))
        <4>1. Sum(f, 1 .. k) = f[k] + Sum(f, (1 .. k) \ {k})
          BY <3>4, <3>5, <3>6, SumTake
        <4> QED BY <3>4, <4>1
      <3>8. f[k] = F[k] - F[k - 1] /\ F[k] \in Int /\ F[k - 1] \in Int /\ F[0] \in Int
        BY <3>1
      <3> QED BY <2>2, <3>3, <3>7, <3>8
    <2> QED BY <2>3, <2>4
  <1>2. n \in 0 .. n
    OBVIOUS
  <1> QED BY <1>1, <1>2

-------------------------------------------------------------------------------
(* The books (FinanceBooks)                                                *)

\* A booking that was made, with its own commission rate, and the payment rows.
Made == [host : Host \cup {None}, from : Nat, to : Nat, total : Nat, fx : Nat \ {0}, rate : Percent,
         month : Books!Month,
         status : {"pending", "confirmed", "completed", "cancelled", "declined"}]
Payment == [status : {"pending", "authorized", "paid", "failed", "refunded"}, refunded : Nat]

\* It is a stay that could be bought.
Bought(x) == \E c \in Charge : x.from = c.from /\ x.to = c.to /\ x.fx = c.fx

\* The inductive invariant: whoever makes a booking finds a rate for it, and every
\* booking has the payment row it was made with or one more.
BooksInv ==
    /\ booksBooking \in [Trip -> Made \cup {Books!NoRow}]
    /\ booksPay \in [Trip -> Seq(Payment)]
    /\ \A b \in Books!Exists :
           /\ Bought(booksBooking[b]) /\ Len(booksPay[b]) \in 1 .. 2
           /\ booksBooking[b].status \in {"confirmed", "completed"} => Len(booksPay[b]) = 2
    /\ booksCommission \in [Host -> Percent \cup {None}] /\ booksPlatform \in Percent
    /\ booksMonth \in Books!Month /\ booksChanges \in 0 .. MaxChanges

\* What a step leaves of a booking that was made.
Settled(b) ==
    booksBooking[b].status # "none" =>
        /\ booksBooking'[b].rate = booksBooking[b].rate
        /\ booksBooking'[b].status # "none"

\* A booking exists when it has a row.
LEMMA ExistsIs ==
    ASSUME booksBooking \in [Trip -> Made \cup {Books!NoRow}]
    PROVE  /\ Books!Exists = {b \in Trip : booksBooking[b] \in Made}
           /\ \A b \in Trip : b \notin Books!Exists => booksBooking[b].status = "none"
  <1>1. \A x \in Made : x.status # "none"
    BY DEF Made
  <1>2. Books!NoRow.status = "none"
    BY DEF Books!NoRow
  <1> QED BY <1>1, <1>2 DEF Books!Exists

\* A booking takes over a row, and its payments another list.
LEMMA BookingPut ==
    ASSUME BooksInv, NEW b \in Trip, NEW x \in Made, booksBooking' = [booksBooking EXCEPT ![b] = x],
           Bought(x), NEW s \in Seq(Payment), Len(s) \in 1 .. 2,
           x.status \in {"confirmed", "completed"} => Len(s) = 2, booksPay' = [booksPay EXCEPT ![b] = s],
           booksBooking[b].status # "none" => x.rate = booksBooking[b].rate,
           booksChanges' \in 0 .. MaxChanges,
           UNCHANGED <<booksCommission, booksPlatform, booksMonth>>
    PROVE  BooksInv' /\ \A d \in Trip : Settled(d)
  <1>1. /\ booksBooking' \in [Trip -> Made \cup {Books!NoRow}] /\ booksPay' \in [Trip -> Seq(Payment)]
        /\ booksBooking'[b] = x /\ booksPay'[b] = s
        /\ \A d \in Trip : d # b => booksBooking'[d] = booksBooking[d] /\ booksPay'[d] = booksPay[d]
    BY DEF BooksInv
  <1>2. Books!NoRow' = Books!NoRow
    BY DEF Books!NoRow
  <1>3. \A d \in Trip : d \in (Books!Exists)' <=> booksBooking'[d].status # "none"
    BY DEF Books!Exists
  <1>4. \A d \in Trip : d \in Books!Exists <=> booksBooking[d].status # "none"
    BY DEF Books!Exists
  <1>5. x.status # "none"
    BY DEF Made
  <1>6. \A d \in (Books!Exists)' : d \in Trip
    BY DEF Books!Exists
  <1>7. ASSUME NEW d \in (Books!Exists)' 
        PROVE  /\ Bought(booksBooking'[d]) /\ Len(booksPay'[d]) \in 1 .. 2
               /\ booksBooking'[d].status \in {"confirmed", "completed"} => Len(booksPay'[d]) = 2
    <2>1. CASE d = b
      BY <1>1, <2>1
    <2>2. CASE d # b
      BY <1>1, <1>3, <1>4, <1>6, <2>2 DEF BooksInv
    <2> QED BY <2>1, <2>2
  <1>8. \A d \in Trip : Settled(d)
    BY <1>1, <1>5 DEF Settled
  <1>9. /\ booksCommission' \in [Host -> Percent \cup {None}] /\ booksPlatform' \in Percent
        /\ booksMonth' \in Books!Month /\ booksChanges' \in 0 .. MaxChanges
    BY DEF BooksInv
  <1>10. (Books!Month)' = Books!Month /\ Made' = Made /\ Payment' = Payment
    BY DEF Books!Month, Made, Payment
  <1> HIDE DEF Settled
  <1> QED BY <1>1, <1>2, <1>7, <1>8, <1>9, <1>10 DEF BooksInv, Bought

\* A step that leaves the bookings and their payments alone.
LEMMA BooksRest ==
    ASSUME BooksInv, UNCHANGED <<booksBooking, booksPay>>,
           booksCommission' \in [Host -> Percent \cup {None}], booksPlatform' \in Percent,
           booksMonth' \in Books!Month, booksChanges' \in 0 .. MaxChanges
    PROVE  BooksInv' /\ \A d \in Trip : Settled(d)
  <1>1. (Books!Exists)' = Books!Exists /\ (Books!Month)' = Books!Month
    BY DEF Books!Exists, Books!Month
  <1>2. \A d \in Trip : Settled(d)
    BY DEF Settled
  <1> QED BY <1>1, <1>2 DEF BooksInv, Bought, Made, Payment, Books!NoRow

\* A list of payments with another payment at a place it has.
LEMMA PaymentPut ==
    ASSUME NEW s \in Seq(Payment), NEW k \in 1 .. Len(s), NEW v \in Payment
    PROVE  [s EXCEPT ![k] = v] \in Seq(Payment) /\ Len([s EXCEPT ![k] = v]) = Len(s)
  <1>1. s \in [1 .. Len(s) -> Payment] /\ Len(s) \in Nat
    OBVIOUS
  <1>2. PICK n \in Nat : n = Len(s)
    BY <1>1
  <1>3. [s EXCEPT ![k] = v] \in [1 .. n -> Payment]
    BY <1>1, <1>2
  <1>4. PICK t : t = [s EXCEPT ![k] = v]
    OBVIOUS
  <1>5. t \in [1 .. n -> Payment]
    BY <1>3, <1>4
  <1>6. t \in Seq(Payment)
    BY <1>5, <1>2
  <1>7. Len(t) = n
    BY <1>5, <1>6
  <1> QED BY <1>2, <1>4, <1>6, <1>7

\* Or with one more.
LEMMA PaymentAdded ==
    ASSUME NEW s \in Seq(Payment), NEW v \in Payment
    PROVE  Append(s, v) \in Seq(Payment) /\ Len(Append(s, v)) = Len(s) + 1
  OBVIOUS

\* The first payment.
LEMMA PaymentFirst ==
    ASSUME NEW v \in Payment
    PROVE  <<v>> \in Seq(Payment) /\ Len(<<v>>) = 1
  OBVIOUS

\* A booking changes status or total, and one of its payments.
LEMMA BookingPaid ==
    ASSUME BooksInv, NEW b \in Books!Exists, NEW x \in Made,
           x.from = booksBooking[b].from, x.to = booksBooking[b].to, x.fx = booksBooking[b].fx,
           x.rate = booksBooking[b].rate,
           booksBooking' = [booksBooking EXCEPT ![b] = x],
           NEW k \in 1 .. Len(booksPay[b]), NEW v \in Payment,
           booksPay' = [booksPay EXCEPT ![b] = [booksPay[b] EXCEPT ![k] = v]],
           UNCHANGED <<booksCommission, booksPlatform, booksMonth, booksChanges>>,
           x.status \in {"confirmed", "completed"} => Len(booksPay[b]) = 2
    PROVE  BooksInv' /\ \A d \in Trip : Settled(d)
  <1>1. b \in Trip /\ booksPay[b] \in Seq(Payment) /\ Bought(booksBooking[b])
        /\ Len(booksPay[b]) \in 1 .. 2 /\ booksChanges' \in 0 .. MaxChanges
    BY DEF BooksInv, Books!Exists
  <1>2. PICK s : s = [booksPay[b] EXCEPT ![k] = v]
    OBVIOUS
  <1>3. s \in Seq(Payment) /\ Len(s) = Len(booksPay[b])
    BY <1>1, <1>2, PaymentPut
  <1>4. Bought(x)
    BY <1>1 DEF Bought
  <1>5. booksPay' = [booksPay EXCEPT ![b] = s]
    BY <1>2
  <1> QED BY <1>1, <1>3, <1>4, <1>5, BookingPut

\* A booking leaves its payments as they are.
LEMMA BookingMoved ==
    ASSUME BooksInv, NEW b \in Books!Exists, NEW x \in Made,
           x.from = booksBooking[b].from, x.to = booksBooking[b].to, x.fx = booksBooking[b].fx,
           x.rate = booksBooking[b].rate,
           booksBooking' = [booksBooking EXCEPT ![b] = x], booksChanges' \in 0 .. MaxChanges,
           UNCHANGED <<booksPay, booksCommission, booksPlatform, booksMonth>>,
           x.status \in {"confirmed", "completed"} => Len(booksPay[b]) = 2
    PROVE  BooksInv' /\ \A d \in Trip : Settled(d)
  <1>1. b \in Trip /\ booksPay[b] \in Seq(Payment) /\ Bought(booksBooking[b])
        /\ Len(booksPay[b]) \in 1 .. 2
    BY DEF BooksInv, Books!Exists
  <1>2. booksPay \in [Trip -> Seq(Payment)]
    BY DEF BooksInv
  <1>3. booksPay' = [booksPay EXCEPT ![b] = booksPay[b]]
    BY <1>1, <1>2
  <1>4. Bought(x)
    BY <1>1 DEF Bought
  <1> QED BY <1>1, <1>3, <1>4, BookingPut

\* A row with another status, or another total.
LEMMA MadePut ==
    ASSUME NEW x \in Made
    PROVE  /\ \A st \in {"pending", "confirmed", "completed", "cancelled", "declined"} :
                  /\ [x EXCEPT !.status = st] \in Made /\ [x EXCEPT !.status = st].status = st
                  /\ [x EXCEPT !.status = st].from = x.from /\ [x EXCEPT !.status = st].to = x.to
                  /\ [x EXCEPT !.status = st].fx = x.fx /\ [x EXCEPT !.status = st].rate = x.rate
           /\ \A n \in Nat :
                  /\ [x EXCEPT !.total = n] \in Made /\ [x EXCEPT !.total = n].status = x.status
                  /\ [x EXCEPT !.total = n].from = x.from /\ [x EXCEPT !.total = n].to = x.to
                  /\ [x EXCEPT !.total = n].fx = x.fx /\ [x EXCEPT !.total = n].rate = x.rate
  BY DEF Made

\* The rows of a booking that exists.
LEMMA TheirRows ==
    ASSUME BooksInv, NEW b \in Books!Exists
    PROVE  /\ b \in Trip /\ booksBooking[b] \in Made /\ booksPay[b] \in Seq(Payment)
           /\ Len(booksPay[b]) \in 1 .. 2 /\ booksPay[b][1] \in Payment
           /\ Len(booksPay[b]) = 2 => booksPay[b][2] \in Payment
  <1>1. b \in Trip /\ booksBooking[b] \in Made /\ booksPay[b] \in Seq(Payment) /\ Len(booksPay[b]) \in 1 .. 2
    BY ExistsIs DEF BooksInv
  <1> QED BY <1>1

\* Every step keeps the invariant, and the rate of every booking.
LEMMA BooksStep ==
    ASSUME BooksInv, [Books!Next]_booksVars
    PROVE  BooksInv' /\ \A d \in Trip : Settled(d)
  <1> USE RateAssumption, BooksAssumption
  <1>1. CASE UNCHANGED booksVars
    BY <1>1, BooksRest DEF booksVars, BooksInv
  <1>2. ASSUME NEW b \in Trip, NEW h \in Host \cup {None}, NEW c \in Charge, Books!InsertBooking(b, h, c)
        PROVE  BooksInv' /\ \A d \in Trip : Settled(d)
    <2>1. PICK rate : rate = Books!HostRate(h)
      OBVIOUS
    <2>2. rate \in Percent
      BY <2>1 DEF Books!HostRate, BooksInv
    <2>3. PICK x : x = [host |-> h, from |-> c.from, to |-> c.to, total |-> c.total, fx |-> c.fx,
                        rate |-> rate, month |-> booksMonth, status |-> "pending"]
      OBVIOUS
    <2>4. booksMonth \in Books!Month /\ booksChanges' \in 0 .. MaxChanges
      BY <1>2 DEF BooksInv, Books!InsertBooking
    <2>5. x \in Made /\ Bought(x) /\ x.status = "pending"
      BY <2>2, <2>3, <2>4 DEF Made, Bought
    <2>6. PICK v : v = [status |-> "pending", refunded |-> 0]
      OBVIOUS
    <2>7. v \in Payment
      BY <2>6 DEF Payment
    <2>8. booksBooking' = [booksBooking EXCEPT ![b] = x]
      BY <1>2, <2>1, <2>3 DEF Books!InsertBooking, Books!Row
    <2>9. booksPay' = [booksPay EXCEPT ![b] = <<v>>] /\ UNCHANGED <<booksCommission, booksPlatform, booksMonth>>
      BY <1>2, <2>6 DEF Books!InsertBooking
    <2>10. booksBooking[b].status = "none"
      BY <1>2 DEF Books!InsertBooking, Books!Exists
    <2>11. <<v>> \in Seq(Payment) /\ Len(<<v>>) \in 1 .. 2
      BY <2>7, PaymentFirst
    <2> QED BY <2>4, <2>5, <2>8, <2>9, <2>10, <2>11, BookingPut
  <1>3. ASSUME NEW b \in Trip, NEW s \in {"pending", "authorized", "failed"}, Books!RecordIntent(b, s)
        PROVE  BooksInv' /\ \A d \in Trip : Settled(d)
    <2>1. b \in Books!Exists /\ Len(booksPay[b]) = 1
      BY <1>3 DEF Books!RecordIntent
    <2>2. booksBooking[b] \in Made /\ booksPay[b] \in Seq(Payment) /\ Bought(booksBooking[b])
          /\ booksChanges' \in 0 .. MaxChanges
      BY <1>3, <2>1, TheirRows DEF BooksInv, Books!RecordIntent
    <2>3. PICK v : v = [status |-> s, refunded |-> 0]
      OBVIOUS
    <2>4. v \in Payment
      BY <2>3 DEF Payment
    <2>5. PICK t : t = Append(booksPay[b], v)
      OBVIOUS
    <2>6. t \in Seq(Payment) /\ Len(t) = 2
      BY <2>1, <2>2, <2>4, <2>5, PaymentAdded
    <2>7. booksPay' = [booksPay EXCEPT ![b] = t]
      BY <1>3, <2>3, <2>5 DEF Books!RecordIntent
    <2>10. PICK x : x = booksBooking[b]
      OBVIOUS
    <2>8. booksBooking' = [booksBooking EXCEPT ![b] = x]
      BY <1>3, <2>10 DEF Books!RecordIntent, BooksInv
    <2>11. x \in Made /\ Bought(x) /\ x.rate = booksBooking[b].rate /\ Len(t) \in 1 .. 2
      BY <2>2, <2>6, <2>10
    <2>9. UNCHANGED <<booksCommission, booksPlatform, booksMonth>>
      BY <1>3 DEF Books!RecordIntent
    <2> QED BY <2>2, <2>6, <2>7, <2>8, <2>9, <2>11, BookingPut
  <1>4. ASSUME NEW b \in Trip, Books!Confirm(b)
        PROVE  BooksInv' /\ \A d \in Trip : Settled(d)
    <2>1. b \in Books!Exists /\ Len(booksPay[b]) = 2
      BY <1>4 DEF Books!Confirm
    <2>2. PICK v : v = [status |-> "paid", refunded |-> booksPay[b][2].refunded + 0]
      OBVIOUS
    <2>3. v \in Payment
      BY <2>1, <2>2, TheirRows DEF Payment
    <2>4. PICK x : x = [booksBooking[b] EXCEPT !.status = "confirmed"]
      OBVIOUS
    <2>5. x \in Made /\ x.from = booksBooking[b].from /\ x.to = booksBooking[b].to
          /\ x.fx = booksBooking[b].fx /\ x.rate = booksBooking[b].rate
          /\ (x.status \in {"confirmed", "completed"} => Len(booksPay[b]) = 2)
      BY <2>1, <2>4, TheirRows, MadePut
    <2>6. booksBooking' = [booksBooking EXCEPT ![b] = x]
      BY <1>4, <2>4 DEF Books!Confirm, Books!SetStatus
    <2>7. booksPay' = [booksPay EXCEPT ![b] = [booksPay[b] EXCEPT ![2] = v]]
      BY <1>4, <2>2 DEF Books!Confirm, Books!SetPayment
    <2>8. UNCHANGED <<booksCommission, booksPlatform, booksMonth, booksChanges>>
      BY <1>4 DEF Books!Confirm
    <2>9. 2 \in 1 .. Len(booksPay[b])
      BY <2>1
    <2> QED BY <2>1, <2>3, <2>5, <2>6, <2>7, <2>8, <2>9, BookingPaid
  <1>5. ASSUME NEW b \in Trip, NEW s \in {"declined", "cancelled"}, Books!Close(b, s)
        PROVE  BooksInv' /\ \A d \in Trip : Settled(d)
    <2>1. b \in Books!Exists /\ Len(booksPay[b]) \in 1 .. 2 /\ booksBooking[b] \in Made
      BY <1>5, TheirRows DEF Books!Close
    <2>3. s \notin {"confirmed", "completed"} /\ s \in {"pending", "confirmed", "completed", "cancelled", "declined"}
      OBVIOUS
    <2>4. PICK x : x = [booksBooking[b] EXCEPT !.status = s]
      OBVIOUS
    <2>12. x.status = s
      BY <2>1, <2>3, <2>4, MadePut
    <2>11. x \in Made /\ x.from = booksBooking[b].from /\ x.to = booksBooking[b].to
           /\ x.fx = booksBooking[b].fx /\ x.rate = booksBooking[b].rate
      BY <2>1, <2>3, <2>4 DEF Made
    <2>5. x \in Made /\ x.from = booksBooking[b].from /\ x.to = booksBooking[b].to
          /\ x.fx = booksBooking[b].fx /\ x.rate = booksBooking[b].rate
          /\ (x.status \in {"confirmed", "completed"} => Len(booksPay[b]) = 2)
      BY <2>1, <2>3, <2>12, <2>11
    <2>6. booksBooking' = [booksBooking EXCEPT ![b] = x]
      BY <1>5, <2>4 DEF Books!Close, Books!SetStatus
    <2>8. UNCHANGED <<booksCommission, booksPlatform, booksMonth, booksChanges>>
      BY <1>5 DEF Books!Close
    <2>9. CASE Len(booksPay[b]) = 1
      <3>1. PICK v : v = [booksPay[b][1] EXCEPT !.status = "failed"]
        OBVIOUS
      <3>2. v \in Payment
        BY <2>1, <3>1, TheirRows DEF Payment
      <3>3. booksPay' = [booksPay EXCEPT ![b] = [booksPay[b] EXCEPT ![1] = v]]
        BY <1>5, <2>9, <3>1 DEF Books!Close
      <3>4. 1 \in 1 .. Len(booksPay[b])
        BY <2>9
      <3> QED BY <2>1, <2>5, <2>6, <2>8, <3>2, <3>3, <3>4, BookingPaid
    <2>10. CASE Len(booksPay[b]) = 2
      <3>1. \E st \in {"refunded", "failed"}, n \in Nat :
               booksPay' = [booksPay EXCEPT ![b][2] = [status |-> st, refunded |-> @.refunded + n]]
        BY <1>5, <2>1, <2>10 DEF Books!Close, Books!SetPayment, Made
      <3>2. PICK st \in {"refunded", "failed"}, n \in Nat :
               booksPay' = [booksPay EXCEPT ![b][2] = [status |-> st, refunded |-> @.refunded + n]]
        BY <3>1
      <3>3. PICK v : v = [status |-> st, refunded |-> booksPay[b][2].refunded + n]
        OBVIOUS
      <3>4. v \in Payment
        BY <2>1, <2>10, <3>3, TheirRows DEF Payment
      <3>5. booksPay' = [booksPay EXCEPT ![b] = [booksPay[b] EXCEPT ![2] = v]]
        BY <3>2, <3>3
      <3>6. 2 \in 1 .. Len(booksPay[b])
        BY <2>10
      <3> QED BY <2>1, <2>5, <2>6, <2>8, <3>4, <3>5, <3>6, BookingPaid
    <2> QED BY <2>1, <2>9, <2>10
  <1>7. ASSUME NEW b \in Trip, Books!Complete(b)
        PROVE  BooksInv' /\ \A d \in Trip : Settled(d)
    <2>1. b \in Books!Exists /\ booksBooking[b] \in Made /\ Len(booksPay[b]) = 2
      BY <1>7, TheirRows DEF Books!Complete, BooksInv
    <2>4. PICK x : x = [booksBooking[b] EXCEPT !.status = "completed"]
      OBVIOUS
    <2>5. x \in Made /\ x.from = booksBooking[b].from /\ x.to = booksBooking[b].to
          /\ x.fx = booksBooking[b].fx /\ x.rate = booksBooking[b].rate
          /\ (x.status \in {"confirmed", "completed"} => Len(booksPay[b]) = 2)
      BY <2>1, <2>4, MadePut
    <2>6. booksBooking' = [booksBooking EXCEPT ![b] = x]
      BY <1>7, <2>4 DEF Books!Complete, Books!SetStatus
    <2>8. UNCHANGED <<booksPay, booksCommission, booksPlatform, booksMonth>> /\ booksChanges' \in 0 .. MaxChanges
      BY <1>7 DEF Books!Complete, BooksInv
    <2> QED BY <2>1, <2>5, <2>6, <2>8, BookingMoved
  <1>8. ASSUME NEW b \in Trip, NEW n \in Totals, Books!AdjustBooking(b, n)
        PROVE  BooksInv' /\ \A d \in Trip : Settled(d)
    <2>1. /\ b \in Books!Exists /\ booksBooking[b] \in Made
          /\ booksBooking[b].status \in {"confirmed", "completed"} => Len(booksPay[b]) = 2
      BY <1>8, TheirRows DEF Books!AdjustBooking, BooksInv
    <2>3. n \in Nat
      OBVIOUS
    <2>4. PICK x : x = [booksBooking[b] EXCEPT !.total = n]
      OBVIOUS
    <2>10. x.status = booksBooking[b].status
      BY <2>1, <2>3, <2>4, MadePut
    <2>11. x \in Made /\ x.from = booksBooking[b].from /\ x.to = booksBooking[b].to
           /\ x.fx = booksBooking[b].fx /\ x.rate = booksBooking[b].rate
      BY <2>1, <2>3, <2>4 DEF Made
    <2>5. x \in Made /\ x.from = booksBooking[b].from /\ x.to = booksBooking[b].to
          /\ x.fx = booksBooking[b].fx /\ x.rate = booksBooking[b].rate
          /\ (x.status \in {"confirmed", "completed"} => Len(booksPay[b]) = 2)
      BY <2>1, <2>3, <2>10, <2>11
    <2>6. booksBooking' = [booksBooking EXCEPT ![b] = x]
      BY <1>8, <2>4 DEF Books!AdjustBooking
    <2>8. UNCHANGED <<booksPay, booksCommission, booksPlatform, booksMonth>> /\ booksChanges' \in 0 .. MaxChanges
      BY <1>8 DEF Books!AdjustBooking, BooksInv
    <2> QED BY <2>1, <2>5, <2>6, <2>8, BookingMoved
  <1>9. ASSUME NEW b \in Trip, NEW share \in {0, 50, 100}, Books!Cancel(b, share)
        PROVE  BooksInv' /\ \A d \in Trip : Settled(d)
    <2>1. b \in Books!Exists /\ booksBooking[b] \in Made /\ booksBooking[b].status = "confirmed"
      BY <1>9, TheirRows DEF Books!Cancel
    <2>4. PICK x : x = [booksBooking[b] EXCEPT !.status = "cancelled"]
      OBVIOUS
    <2>5. x \in Made /\ x.from = booksBooking[b].from /\ x.to = booksBooking[b].to
          /\ x.fx = booksBooking[b].fx /\ x.rate = booksBooking[b].rate
          /\ (x.status \in {"confirmed", "completed"} => Len(booksPay[b]) = 2)
      BY <2>1, <2>4, MadePut
    <2>6. booksBooking' = [booksBooking EXCEPT ![b] = x]
      BY <1>9, <2>4 DEF Books!Cancel, Books!SetStatus
    <2>7. UNCHANGED <<booksCommission, booksPlatform, booksMonth, booksChanges>>
      BY <1>9 DEF Books!Cancel
    <2>8. CASE share = 0
      <3>1. UNCHANGED booksPay /\ booksChanges' \in 0 .. MaxChanges
        BY <1>9, <2>8 DEF Books!Cancel, BooksInv
      <3> QED BY <2>1, <2>5, <2>6, <2>7, <3>1, BookingMoved
    <2>9. CASE share # 0
      <3>1. PICK n : n = (booksBooking[b].total * share) \div 100
        OBVIOUS
      <3>2. booksBooking[b].total * share \in Nat
        BY <2>1 DEF Made
      <3>3. n \in Nat
        BY <3>1, <3>2
      <3>4. Len(booksPay[b]) = 2
        BY <2>1 DEF BooksInv
      <3>5. PICK v : v = [status |-> "refunded", refunded |-> booksPay[b][2].refunded + n]
        OBVIOUS
      <3>6. v \in Payment
        BY <2>1, <3>3, <3>4, <3>5, TheirRows DEF Payment
      <3>7. booksPay' = [booksPay EXCEPT ![b] = [booksPay[b] EXCEPT ![2] = v]]
        BY <1>9, <2>9, <3>1, <3>5 DEF Books!Cancel, Books!SetPayment
      <3>8. 2 \in 1 .. Len(booksPay[b])
        BY <3>4
      <3> QED BY <2>1, <2>5, <2>6, <2>7, <3>6, <3>7, <3>8, BookingPaid
    <2> QED BY <2>8, <2>9
  <1>10. ASSUME NEW h \in Host, NEW r \in Percent \cup {None}, Books!SetHostCommission(h, r)
         PROVE  BooksInv' /\ \A d \in Trip : Settled(d)
    BY <1>10, BooksRest DEF Books!SetHostCommission, BooksInv
  <1>11. ASSUME NEW r \in Percent, Books!SetPlatformRate(r)
         PROVE  BooksInv' /\ \A d \in Trip : Settled(d)
    BY <1>11, BooksRest DEF Books!SetPlatformRate, BooksInv
  <1>12. CASE Books!NextMonth
    BY <1>12, BooksRest DEF Books!NextMonth, BooksInv, Books!Month
  <1>13. ASSUME NEW h \in Host, Books!RemoveHost(h)
         PROVE  BooksInv' /\ \A d \in Trip : Settled(d)
    <2>1. ASSUME NEW d \in Trip
          PROVE  /\ booksBooking'[d] \in Made \cup {Books!NoRow}
                 /\ booksBooking'[d].status = booksBooking[d].status
                 /\ d \in Books!Exists => /\ booksBooking'[d].rate = booksBooking[d].rate
                                          /\ Bought(booksBooking'[d])
      <3>1. CASE d \in Books!Exists /\ booksBooking[d].host = h
        <4>1. booksBooking'[d] = [booksBooking[d] EXCEPT !.host = None]
          BY <1>13, <3>1 DEF Books!RemoveHost
        <4>2. booksBooking[d] \in Made /\ Bought(booksBooking[d])
          BY <3>1, TheirRows DEF BooksInv
        <4>3. /\ booksBooking'[d] \in Made /\ booksBooking'[d].status = booksBooking[d].status
              /\ booksBooking'[d].rate = booksBooking[d].rate /\ booksBooking'[d].from = booksBooking[d].from
              /\ booksBooking'[d].to = booksBooking[d].to /\ booksBooking'[d].fx = booksBooking[d].fx
          BY <4>1, <4>2 DEF Made
        <4> QED BY <4>2, <4>3 DEF Bought
      <3>2. CASE ~(d \in Books!Exists /\ booksBooking[d].host = h)
        <4>1. booksBooking'[d] = booksBooking[d]
          BY <1>13, <3>2 DEF Books!RemoveHost
        <4>2. booksBooking[d] \in Made \cup {Books!NoRow} /\ (d \in Books!Exists => Bought(booksBooking[d]))
          BY DEF BooksInv
        <4> QED BY <4>1, <4>2
      <3> QED BY <3>1, <3>2
    <2>2. (Books!Exists)' = Books!Exists /\ Books!Exists \subseteq Trip
      BY <2>1 DEF Books!Exists
    <2>3. booksBooking' \in [Trip -> Made \cup {Books!NoRow}]
      <3>1. booksBooking' = [d \in Trip |-> booksBooking'[d]]
        BY <1>13 DEF Books!RemoveHost
      <3> QED BY <2>1, <3>1
    <2>4. /\ booksPay' = booksPay /\ booksCommission' \in [Host -> Percent \cup {None}]
          /\ booksPlatform' \in Percent /\ booksMonth' \in Books!Month /\ booksChanges' \in 0 .. MaxChanges
      BY <1>13 DEF Books!RemoveHost, BooksInv
    <2>5. \A d \in Books!Exists :
              /\ Bought(booksBooking'[d]) /\ Len(booksPay'[d]) \in 1 .. 2
              /\ booksBooking'[d].status \in {"confirmed", "completed"} => Len(booksPay'[d]) = 2
      BY <2>1, <2>2, <2>4 DEF BooksInv
    <2>6. (Books!Month)' = Books!Month /\ Made' = Made /\ Payment' = Payment /\ Books!NoRow' = Books!NoRow
      BY DEF Books!Month, Made, Payment, Books!NoRow
    <2>7. \A d \in Trip : Settled(d)
      BY <2>1 DEF Settled, Books!Exists
    <2>8. booksPay' \in [Trip -> Seq(Payment)]
      BY <2>4 DEF BooksInv
    <2>9. BooksInv'
      BY <2>2, <2>3, <2>4, <2>5, <2>6, <2>8 DEF BooksInv, Bought
    <2> QED BY <2>7, <2>9
  <1> QED BY <1>1, <1>2, <1>3, <1>4, <1>5, <1>7, <1>8, <1>9, <1>10, <1>11, <1>12, <1>13 DEF Books!Next

\* It holds at first.
LEMMA BooksFirst == Books!Init => BooksInv
  <1> USE RateAssumption, BooksAssumption
  <1>1. <<>> \in Seq(Payment)
    OBVIOUS
  <1>2. ASSUME Books!Init PROVE \A b \in Trip : booksBooking[b].status = "none"
    BY <1>2 DEF Books!Init, Books!NoRow
  <1> QED BY <1>1, <1>2 DEF Books!Init, BooksInv, Books!Exists, Books!Month

-------------------------------------------------------------------------------
(* The figures of the books, as sums over bookings                         *)

\* What a booking counts for in the reports.
TotalOf == [b \in Trip |-> booksBooking[b].total]
OwedOf  == [b \in Trip |-> Books!Commission(b)]
PaidOf  == [b \in Trip |-> IF booksPay[b][Len(booksPay[b])].status = "paid" THEN booksBooking[b].total ELSE 0]
ShareOf == [b \in Trip |-> booksBooking[b].total * Books!Rate(b)]
LedgerOf == [b \in Trip |-> Books!LedgerCommission(b)]

\* The bookings of a host, in a currency.
Sold(h, fx) == {b \in Books!Earning : booksBooking[b].host = h /\ booksBooking[b].fx = fx}

\* The latest payment row of each of the bookings S.
LatestRows(S) == {<<b, Len(booksPay[b])>> : b \in S}

\* A function over a set is summed over that set.
LEMMA SumIs == ASSUME NEW S, NEW f, f = [x \in S |-> f[x]] PROVE Books!SumFunction(f) = Sum(f, S)
  BY DEF Sum

\* Bookings that earn exist, and are finitely many.
LEMMA EarningExist ==
    ASSUME BooksInv
    PROVE  /\ Books!Earning \subseteq Books!Exists /\ Books!Exists \subseteq Trip
           /\ IsFiniteSet(Books!Earning) /\ IsFiniteSet(Books!Exists)
           /\ \A b \in Books!Exists : booksBooking[b] \in Made
  <1>1. Books!Earning \subseteq Books!Exists /\ Books!Exists \subseteq Trip
    BY DEF Books!Earning, Books!Exists
  <1>2. IsFiniteSet(Books!Earning) /\ IsFiniteSet(Books!Exists)
    BY <1>1, FS_Subset, BooksAssumption
  <1>3. \A b \in Books!Exists : booksBooking[b] \in Made
    BY TheirRows
  <1> QED BY <1>1, <1>2, <1>3

\* A commission is a number, of a rate that is known.
LEMMA CommissionNat ==
    ASSUME BooksInv, NEW b \in Books!Exists
    PROVE  /\ Books!Rate(b) = booksBooking[b].rate /\ Books!Rate(b) \in Nat
           /\ Books!Share(b) = booksBooking[b].total * Books!Rate(b)
           /\ booksBooking[b].total * Books!Rate(b) \in Nat
           /\ Books!Commission(b) = (booksBooking[b].total * Books!Rate(b) + 50) \div 100
           /\ Books!Commission(b) \in Nat
  <1>1. booksBooking[b] \in Made
    BY TheirRows
  <1>2. booksBooking[b].rate \in Percent /\ booksBooking[b].total \in Nat
    BY <1>1 DEF Made
  <1>3. Books!Rate(b) = booksBooking[b].rate /\ Books!Rate(b) \in Nat
    BY <1>2, RateAssumption, BooksAssumption DEF Books!Rate
  <1>4. PICK x : x = booksBooking[b].total * Books!Rate(b)
    OBVIOUS
  <1>5. x \in Nat
    BY <1>2, <1>3, <1>4
  <1>6. Books!Commission(b) = (x + 100 \div 2) \div 100
    BY <1>4 DEF Books!Commission, Books!HalfUp, Books!Share
  <1>7. 100 \div 2 = 50
    OBVIOUS
  <1>8. (x + 50) \div 100 \in Nat
    BY <1>5
  <1> QED BY <1>3, <1>4, <1>5, <1>6, <1>7, <1>8 DEF Books!Share

\* The terms of the sums are numbers.
LEMMA Terms ==
    ASSUME BooksInv, NEW b \in Books!Exists
    PROVE  /\ b \in Trip
           /\ TotalOf[b] = booksBooking[b].total /\ TotalOf[b] \in Nat
           /\ OwedOf[b] = Books!Commission(b) /\ OwedOf[b] \in Nat
           /\ ShareOf[b] = booksBooking[b].total * Books!Rate(b) /\ ShareOf[b] \in Nat
           /\ PaidOf[b] \in Nat /\ PaidOf[b] <= TotalOf[b]
           /\ OwedOf[b] = (ShareOf[b] + 50) \div 100
  <1>1. b \in Trip /\ booksBooking[b] \in Made
    BY TheirRows
  <1>2. booksBooking[b].total \in Nat
    BY <1>1 DEF Made
  <1>3. TotalOf[b] = booksBooking[b].total /\ TotalOf[b] \in Nat
    BY <1>1, <1>2 DEF TotalOf
  <1>4. OwedOf[b] = Books!Commission(b) /\ OwedOf[b] \in Nat
    BY <1>1, CommissionNat DEF OwedOf
  <1>5. ShareOf[b] = booksBooking[b].total * Books!Rate(b) /\ ShareOf[b] \in Nat
    BY <1>1, CommissionNat DEF ShareOf
  <1>6. PaidOf[b] \in Nat /\ PaidOf[b] <= TotalOf[b]
    BY <1>1, <1>2, <1>3 DEF PaidOf
  <1>7. OwedOf[b] = (ShareOf[b] + 50) \div 100
    BY <1>4, <1>5, CommissionNat
  <1> QED BY <1>1, <1>3, <1>4, <1>5, <1>6, <1>7

\* A sum over the latest rows is one over the bookings.
LEMMA SumOfRows ==
    ASSUME BooksInv, NEW S \in SUBSET Books!Exists, NEW f, \A b \in S : f[b] \in Int,
           NEW k, \A b \in S : k[<<b, Len(booksPay[b])>>] = f[b],
           k = [x \in LatestRows(S) |-> k[x]]
    PROVE  Books!SumFunction(k) = Sum(f, S)
  <1>1. IsFiniteSet(S)
    BY EarningExist, FS_Subset
  <1>2. PICK g : g = [b \in S |-> <<b, Len(booksPay[b])>>]
    OBVIOUS
  <1>3. \A x \in S : g[x] = <<x, Len(booksPay[x])>>
    BY <1>2
  <1>4. \A x \in S : f[x] \in Int /\ k[g[x]] = f[x]
    BY <1>3
  <1>5. \A x, y \in S : g[x] = g[y] => x = y
    BY <1>3
  <1>6. Sum(k, {g[x] : x \in S}) = Sum(f, S)
    BY <1>1, <1>4, <1>5, SumOverImage
  <1>7. {g[x] : x \in S} = LatestRows(S)
    BY <1>3 DEF LatestRows
  <1>8. Sum(k, LatestRows(S)) = Sum(f, S)
    BY <1>6, <1>7
  <1> QED BY <1>8, SumIs

\* There are as many of them.
LEMMA AsManyRows ==
    ASSUME BooksInv, NEW S \in SUBSET Books!Exists
    PROVE  Cardinality(LatestRows(S)) = Cardinality(S)
  <1>1. IsFiniteSet(S)
    BY EarningExist, FS_Subset
  <1>2. PICK f : f = [b \in S |-> 1]
    OBVIOUS
  <1>3. PICK g : g = [b \in S |-> <<b, Len(booksPay[b])>>]
    OBVIOUS
  <1>4. PICK k : k = [x \in LatestRows(S) |-> 1]
    OBVIOUS
  <1>5. \A x \in S : g[x] = <<x, Len(booksPay[x])>>
    BY <1>3
  <1>6. {g[x] : x \in S} = LatestRows(S)
    BY <1>5 DEF LatestRows
  <1>7. \A x \in S : g[x] \in LatestRows(S)
    BY <1>5 DEF LatestRows
  <1>8. \A x \in S : f[x] \in Int /\ k[g[x]] = f[x]
    BY <1>2, <1>4, <1>7
  <1>9. \A x, y \in S : g[x] = g[y] => x = y
    BY <1>5
  <1>10. IsFiniteSet({g[x] : x \in S}) /\ Sum(k, {g[x] : x \in S}) = Sum(f, S)
    BY <1>1, <1>8, <1>9, SumOverImage
  <1>11. IsFiniteSet(LatestRows(S)) /\ Sum(k, LatestRows(S)) = Sum(f, S)
    BY <1>6, <1>10
  <1>12. Sum(f, S) = Cardinality(S)
    <2>1. \A x \in S : f[x] = 1
      BY <1>2
    <2> QED BY <1>1, <2>1, SumOfOnes
  <1>13. Sum(k, LatestRows(S)) = Cardinality(LatestRows(S))
    <2>1. \A x \in LatestRows(S) : k[x] = 1
      BY <1>4
    <2> QED BY <1>11, <2>1, SumOfOnes
  <1> QED BY <1>11, <1>12, <1>13

\* The rows the reports join are the latest ones.
LEMMA Joined ==
    ASSUME BooksInv
    PROVE  Books!BookingBase = LatestRows(Books!Hosted)
  <1>1. \A b \in Books!Hosted : Len(booksPay[b]) \in 1 .. 2
    BY TheirRows DEF Books!Hosted
  <1>2. \A row_ : row_ \in Books!BookingBase => row_ \in LatestRows(Books!Hosted)
    BY DEF Books!BookingBase, Books!BaseRows, Books!PaymentOf, LatestRows
  <1>3. ASSUME NEW b \in Books!Hosted PROVE <<b, Len(booksPay[b])>> \in Books!BookingBase
    BY <1>1 DEF Books!BookingBase, Books!BaseRows, Books!PaymentOf
  <1>4. \A row_ : row_ \in LatestRows(Books!Hosted) => row_ \in Books!BookingBase
    BY <1>3 DEF LatestRows
  <1> QED BY <1>2, <1>4

\* Those of a host that earn.
LEMMA LedgerRows ==
    ASSUME BooksInv, NEW h \in Host, NEW fx
    PROVE  Books!LedgerEarning(h, fx) = LatestRows(Sold(h, fx))
  <1>1. ASSUME NEW x \in Books!LedgerEarning(h, fx) PROVE x \in LatestRows(Sold(h, fx))
    <2>1. x \in LatestRows(Books!Hosted) /\ x[1] \in Books!Earning
          /\ booksBooking[x[1]].host = h /\ booksBooking[x[1]].fx = fx
      BY Joined DEF Books!LedgerEarning, Books!Ledger
    <2>2. PICK b \in Books!Hosted : x = <<b, Len(booksPay[b])>>
      BY <2>1 DEF LatestRows
    <2>3. x[1] = b
      BY <2>2
    <2> QED BY <2>1, <2>2, <2>3 DEF LatestRows, Sold
  <1>2. ASSUME NEW b \in Sold(h, fx) PROVE <<b, Len(booksPay[b])>> \in Books!LedgerEarning(h, fx)
    <2>1. b \in Books!Earning /\ b \in Books!Exists /\ booksBooking[b].host = h /\ booksBooking[b].fx = fx
          /\ booksBooking[b].status # "declined"
      BY EarningExist DEF Sold, Books!Earning
    <2>2. PICK x : x = <<b, Len(booksPay[b])>>
      OBVIOUS
    <2>4. b \in Books!Hosted
      BY <2>1, RateAssumption DEF Books!Hosted
    <2>3. x \in Books!BookingBase /\ x[1] = b
      BY <2>2, <2>4, Joined DEF LatestRows
    <2> QED BY <2>1, <2>2, <2>3 DEF Books!LedgerEarning, Books!Ledger
  <1>3. \A x \in LatestRows(Sold(h, fx)) : x \in Books!LedgerEarning(h, fx)
    BY <1>2 DEF LatestRows
  <1> QED BY <1>1, <1>3

\* The books count as everybody does.
LEMMA BooksCount == \A S : Books!Cardinality(S) = Cardinality(S)
  BY Zenon DEF Books!Cardinality, Cardinality

\* The commission report of a host, as sums over the bookings it sold.
LEMMA ReportIs ==
    ASSUME BooksInv, NEW h \in Host, NEW fx
    PROVE  LET report == Books!CommissionReport(h, fx) IN
           /\ report.bookings = Cardinality(Sold(h, fx))
           /\ report.revenue = Sum(TotalOf, Sold(h, fx))
           /\ report.commission = Sum(OwedOf, Sold(h, fx))
           /\ report.unpaid = Sum(TotalOf, Sold(h, fx)) - Sum(PaidOf, Sold(h, fx))
  <1> DEFINE S == Sold(h, fx)
             L == LatestRows(S)
             K1 == [x \in L |-> booksBooking[x[1]].total]
             K2 == [x \in L |-> Books!Commission(x[1])]
             K3 == [x \in L |-> IF booksPay[x[1]][x[2]].status = "paid" THEN booksBooking[x[1]].total ELSE 0]
             R == Books!CommissionReport(h, fx)
  <1>1. Books!LedgerEarning(h, fx) = L
    BY LedgerRows
  <1>2. R = [bookings |-> Books!Cardinality(L), revenue |-> Books!SumFunction(K1), commission |-> Books!SumFunction(K2),
             hostNet |-> Books!SumFunction(K1) - Books!SumFunction(K2), paid |-> Books!SumFunction(K3),
             unpaid |-> Books!SumFunction(K1) - Books!SumFunction(K3)]
    BY <1>1, Zenon DEF Books!CommissionReport, Books!SumOver
  <1>3. S \in SUBSET Books!Exists /\ \A b \in S : b \in Trip
    BY EarningExist DEF Sold
  <1>4. \A b \in S : <<b, Len(booksPay[b])>> \in L
    BY DEF LatestRows
  <1>5. \A b \in S : TotalOf[b] \in Int /\ OwedOf[b] \in Int /\ PaidOf[b] \in Int
    BY <1>3, Terms
  <1>6. \A b \in S : K1[<<b, Len(booksPay[b])>>] = TotalOf[b]
    BY <1>3, <1>4 DEF TotalOf
  <1>7. \A b \in S : K2[<<b, Len(booksPay[b])>>] = OwedOf[b]
    BY <1>3, <1>4 DEF OwedOf
  <1>8. \A b \in S : K3[<<b, Len(booksPay[b])>>] = PaidOf[b]
    BY <1>3, <1>4 DEF PaidOf
  <1>9. /\ K1 = [x \in L |-> K1[x]] /\ K2 = [x \in L |-> K2[x]] /\ K3 = [x \in L |-> K3[x]]
    OBVIOUS
  <1> HIDE DEF S, K1, K2, K3
  <1>10. Books!SumFunction(K1) = Sum(TotalOf, S)
    BY <1>3, <1>5, <1>6, <1>9, SumOfRows
  <1>11. Books!SumFunction(K2) = Sum(OwedOf, S)
    BY <1>3, <1>5, <1>7, <1>9, SumOfRows
  <1>12. Books!SumFunction(K3) = Sum(PaidOf, S)
    BY <1>3, <1>5, <1>8, <1>9, SumOfRows
  <1>13. Cardinality(L) = Cardinality(S)
    BY <1>3, AsManyRows
  <1>14. Books!Cardinality(L) = Cardinality(L)
    BY BooksCount
  <1> QED BY <1>2, <1>10, <1>11, <1>12, <1>13, <1>14 DEF S

\* An amount rounded to hundreds is within fifty of what it was.
LEMMA HalfUpIs ==
    ASSUME NEW x \in Int
    PROVE  /\ Books!HalfUp(x, 100) = (x + 50) \div 100
           /\ Books!HalfUp(x, 100) \in Int
           /\ -50 <= 100 * Books!HalfUp(x, 100) - x /\ 100 * Books!HalfUp(x, 100) - x <= 50
  <1>1. 100 \div 2 = 50
    OBVIOUS
  <1>2. Books!HalfUp(x, 100) = (x + 50) \div 100
    BY <1>1 DEF Books!HalfUp
  <1>3. PICK q \in Int : q = (x + 50) \div 100
    OBVIOUS
  <1>4. 100 * q <= x + 50 /\ x + 50 < 100 * q + 100
    BY <1>3
  <1> QED BY <1>2, <1>3, <1>4

\* So is one rounded as a double, which is the same or one less, and that only for
\* the half of a hundred.
LEMMA RoundDoubleIs ==
    ASSUME NEW x \in Int, NEW short
    PROVE  /\ Books!RoundDouble(x, short) \in Int
           /\ Books!HalfUp(x, 100) - Books!RoundDouble(x, short) \in {0, 1}
           /\ ~Books!IsHalf(x) => Books!RoundDouble(x, short) = Books!HalfUp(x, 100)
           /\ -50 <= 100 * Books!RoundDouble(x, short) - x /\ 100 * Books!RoundDouble(x, short) - x <= 50
  <1>1. CASE short /\ Books!IsHalf(x)
    <2>1. Books!RoundDouble(x, short) = x \div 100
      BY <1>1 DEF Books!RoundDouble
    <2>2. x % 100 = 50
      BY <1>1 DEF Books!IsHalf
    <2>3. PICK q \in Int : q = x \div 100
      OBVIOUS
    <2>4. x = 100 * q + 50
      BY <2>2, <2>3
    <2>5. Books!HalfUp(x, 100) = q + 1
      BY <2>4, HalfUpIs
    <2>6. PICK r : r = Books!RoundDouble(x, short)
      OBVIOUS
    <2>7. r = q /\ Books!HalfUp(x, 100) - r = 1 /\ 100 * r - x = -50
      BY <2>1, <2>3, <2>4, <2>5, <2>6
    <2>8. ~Books!IsHalf(x) => Books!RoundDouble(x, short) = Books!HalfUp(x, 100)
      BY <1>1, Zenon
    <2>9. Books!HalfUp(x, 100) - Books!RoundDouble(x, short) \in {0, 1}
      BY <2>6, <2>7
    <2>10. /\ Books!RoundDouble(x, short) \in Int
           /\ -50 <= 100 * Books!RoundDouble(x, short) - x /\ 100 * Books!RoundDouble(x, short) - x <= 50
      BY <2>3, <2>6, <2>7
    <2> QED BY <2>8, <2>9, <2>10, Zenon
  <1>2. CASE ~(short /\ Books!IsHalf(x))
    <2>1. Books!RoundDouble(x, short) = Books!HalfUp(x, 100)
      BY <1>2 DEF Books!RoundDouble
    <2> QED BY <2>1, HalfUpIs
  <1> QED BY <1>1, <1>2

\* The ledger's commission of a booking is short by at most a cent, of half a cent.
LEMMA ShortBy ==
    ASSUME BooksInv, NEW b \in Books!Exists
    PROVE  /\ LedgerOf[b] \in Int /\ OwedOf[b] - LedgerOf[b] \in {0, 1}
           /\ ~Books!IsHalf(Books!Share(b)) => OwedOf[b] - LedgerOf[b] = 0
  <1>1. b \in Trip /\ OwedOf[b] = Books!Commission(b) /\ Books!Share(b) \in Int
    BY Terms, CommissionNat
  <1>2. PICK short : short = (<<booksBooking[b].total, Books!Rate(b)>> \in ShortProducts)
    OBVIOUS
  <1>3. LedgerOf[b] = Books!RoundDouble(Books!Share(b), short)
    BY <1>1, <1>2 DEF LedgerOf, Books!LedgerCommission
  <1>4. OwedOf[b] = Books!HalfUp(Books!Share(b), 100)
    BY <1>1 DEF Books!Commission
  <1>5. OwedOf[b] \in Int
    BY Terms
  <1> QED BY <1>1, <1>3, <1>4, <1>5, RoundDoubleIs

\* The ledger of a host counts the bookings it sold as the report does, each with the
\* commission of its row.
LEMMA LedgerIs ==
    ASSUME BooksInv, NEW h \in Host, NEW fx
    PROVE  LET ledger == Books!LedgerSum(h, fx)
               report == Books!CommissionReport(h, fx)
           IN  /\ ledger.bookings = report.bookings /\ ledger.revenue = report.revenue
               /\ ledger.commission = Sum(LedgerOf, Sold(h, fx))
  <1> DEFINE S == Sold(h, fx)
             L == LatestRows(S)
             K == [x \in L |-> Books!LedgerCommission(x[1])]
  <1>1. Books!LedgerEarning(h, fx) = L
    BY LedgerRows
  <1>2. Books!LedgerSum(h, fx).commission = Books!SumFunction(K)
    BY <1>1, Zenon DEF Books!LedgerSum, Books!SumOver
  <1>3. S \in SUBSET Books!Exists /\ \A b \in S : b \in Trip
    BY EarningExist DEF Sold
  <1>4. \A b \in S : <<b, Len(booksPay[b])>> \in L
    BY DEF LatestRows
  <1>5. \A b \in S : K[<<b, Len(booksPay[b])>>] = LedgerOf[b]
    BY <1>3, <1>4 DEF LedgerOf
  <1>6. \A b \in S : LedgerOf[b] \in Int
    BY <1>3, ShortBy
  <1>7. K = [x \in L |-> K[x]]
    OBVIOUS
  <1> HIDE DEF S, K
  <1>8. Books!SumFunction(K) = Sum(LedgerOf, S)
    BY <1>3, <1>5, <1>6, <1>7, SumOfRows
  <1>9. /\ Books!LedgerSum(h, fx).bookings = Books!CommissionReport(h, fx).bookings
        /\ Books!LedgerSum(h, fx).revenue = Books!CommissionReport(h, fx).revenue
    BY DEF Books!LedgerSum, Books!CommissionReport
  <1> QED BY <1>2, <1>8, <1>9 DEF S

\* A sum of terms that are not negative is not negative.
LEMMA SumNat ==
    ASSUME NEW S, IsFiniteSet(S), NEW f, \A x \in S : f[x] \in Nat
    PROVE  Sum(f, S) \in Nat
  <1> DEFINE G == {s \in SUBSET S : Sum(f, s) \in Nat}
  <1>1. ASSUME NEW s \in SUBSET S, \A x \in s : s \ {x} \in G
        PROVE  s \in G
    <2>1. CASE s = {}
      BY <2>1, SumEmpty
    <2>2. ASSUME NEW x \in s PROVE s \in G
      <3>1. IsFiniteSet(s)
        BY FS_Subset
      <3>2. Sum(f, s) = f[x] + Sum(f, s \ {x})
        BY <3>1, SumTake
      <3> QED BY <1>1, <2>2, <3>2
    <2> QED BY <2>1, <2>2
  <1>2. S \in G
    <2> HIDE DEF G
    <2>1. \A s \in SUBSET S : (\A x \in s : s \ {x} \in G) => s \in G
      BY <1>1
    <2> QED BY <2>1, SubsetInduction
  <1> QED BY <1>2

\* Terms that are not larger have a sum that is not larger.
LEMMA SumAtMost ==
    ASSUME NEW S, IsFiniteSet(S), NEW f, NEW h, \A x \in S : f[x] \in Int /\ h[x] \in Int /\ f[x] <= h[x]
    PROVE  Sum(h, S) - Sum(f, S) \in Nat
  <1>1. PICK k : k = [x \in S |-> h[x] - f[x]]
    OBVIOUS
  <1>2. \A x \in S : k[x] \in Nat /\ f[x] \in Int /\ k[x] \in Int /\ h[x] = f[x] + k[x]
    BY <1>1
  <1>3. Sum(k, S) \in Nat
    BY <1>2, SumNat
  <1>4. Sum(h, S) = Sum(f, S) + Sum(k, S)
    BY <1>2, SumPlus
  <1>5. Sum(f, S) \in Int
    BY <1>2, SumInt
  <1> QED BY <1>3, <1>4, <1>5

\* The ledger is short of the report by no more than the halves of a cent.
LEMMA LedgerIsShort ==
    ASSUME BooksInv, NEW h \in Host, NEW fx
    PROVE  Books!CommissionReport(h, fx).commission - Books!LedgerSum(h, fx).commission
               \in 0 .. Books!Cardinality(Books!Halves(h, fx))
  <1>1. PICK S : S = Sold(h, fx)
    OBVIOUS
  <1>2. PICK T : T = Books!Halves(h, fx)
    OBVIOUS
  <1>3. S \subseteq Books!Exists /\ IsFiniteSet(S) /\ T \in SUBSET S /\ IsFiniteSet(T)
    <2>1. S \subseteq Books!Exists /\ IsFiniteSet(S) /\ T \in SUBSET S
      BY <1>1, <1>2, EarningExist, FS_Subset DEF Sold, Books!Halves
    <2> QED BY <2>1, FS_Subset
  <1>4. PICK d : d = [b \in S |-> OwedOf[b] - LedgerOf[b]]
    OBVIOUS
  <1>5. ASSUME NEW b \in S
        PROVE  /\ OwedOf[b] \in Int /\ LedgerOf[b] \in Int /\ OwedOf[b] = LedgerOf[b] + d[b]
               /\ d[b] \in {0, 1} /\ d[b] \in Int
               /\ b \notin T => d[b] = 0
    <2>1. OwedOf[b] \in Int /\ LedgerOf[b] \in Int /\ OwedOf[b] - LedgerOf[b] \in {0, 1}
          /\ (~Books!IsHalf(Books!Share(b)) => OwedOf[b] - LedgerOf[b] = 0)
      BY <1>3, ShortBy, Terms
    <2>2. d[b] = OwedOf[b] - LedgerOf[b]
      BY <1>4
    <2>3. b \in T <=> Books!IsHalf(Books!Share(b))
      BY <1>1, <1>2 DEF Sold, Books!Halves
    <2> QED BY <2>1, <2>2, <2>3
  <1>6. Sum(OwedOf, S) = Sum(LedgerOf, S) + Sum(d, S)
    BY <1>3, <1>5, SumPlus
  <1>7. Sum(d, T) = Sum(d, S)
    BY <1>3, <1>5, SumWithout
  <1>8. Sum(d, T) \in Nat
    BY <1>3, <1>5, SumNat
  <1>9. Cardinality(T) \in Nat /\ Sum(d, T) <= Cardinality(T)
    <2>1. 1 \in Nat /\ \A b \in T : d[b] \in Int /\ -1 <= d[b] /\ d[b] <= 1
      BY <1>3, <1>5
    <2>2. Cardinality(T) \in Nat /\ Sum(d, T) <= 1 * Cardinality(T)
      BY <1>3, <2>1, SumWithin
    <2> QED BY <2>2
  <1>10. Sum(LedgerOf, S) \in Int
    BY <1>3, <1>5, SumInt
  <1>11. /\ Books!CommissionReport(h, fx).commission = Sum(OwedOf, S)
         /\ Books!LedgerSum(h, fx).commission = Sum(LedgerOf, S)
    BY <1>1, ReportIs, LedgerIs
  <1> QED BY <1>2, <1>6, <1>7, <1>8, <1>9, <1>10, <1>11, BooksCount

\* No host owes for less than nothing.
LEMMA UnpaidIsOwed ==
    ASSUME BooksInv, NEW h \in Host, NEW fx
    PROVE  Books!CommissionReport(h, fx).unpaid >= 0
  <1>1. PICK S : S = Sold(h, fx)
    OBVIOUS
  <1>2. S \subseteq Books!Exists /\ IsFiniteSet(S)
    BY <1>1, EarningExist, FS_Subset DEF Sold
  <1>3. \A b \in S : PaidOf[b] \in Int /\ TotalOf[b] \in Int /\ PaidOf[b] <= TotalOf[b]
    BY <1>2, Terms
  <1>4. Sum(TotalOf, S) - Sum(PaidOf, S) \in Nat
    BY <1>2, <1>3, SumAtMost
  <1> QED BY <1>1, <1>4, ReportIs

\* The bookings of a month, in a currency, of a host.
Dated(m, fx) == {b \in Books!Earning : /\ b \in Books!Hosted
                                       /\ booksBooking[b].month = m /\ booksBooking[b].fx = fx}

\* The accounting export looks at their latest rows.
LEMMA ExportRows ==
    ASSUME BooksInv, NEW m, NEW fx
    PROVE  {x \in Books!BookingBase : LET b == booksBooking[x[1]] IN
                b.month = m /\ b.fx = fx /\ x[1] \in Books!Earning} = LatestRows(Dated(m, fx))
  <1> DEFINE E == {x \in Books!BookingBase : LET b == booksBooking[x[1]] IN
                       b.month = m /\ b.fx = fx /\ x[1] \in Books!Earning}
  <1>1. ASSUME NEW x \in E PROVE x \in LatestRows(Dated(m, fx))
    <2>1. x \in LatestRows(Books!Hosted) /\ x[1] \in Books!Earning
          /\ booksBooking[x[1]].month = m /\ booksBooking[x[1]].fx = fx
      BY Joined
    <2>2. PICK b \in Books!Hosted : x = <<b, Len(booksPay[b])>>
      BY <2>1 DEF LatestRows
    <2>3. x[1] = b
      BY <2>2
    <2> QED BY <2>1, <2>2, <2>3 DEF LatestRows, Dated
  <1>2. ASSUME NEW b \in Dated(m, fx) PROVE <<b, Len(booksPay[b])>> \in E
    <2>1. b \in Books!Earning /\ b \in Books!Hosted /\ booksBooking[b].month = m /\ booksBooking[b].fx = fx
      BY EarningExist DEF Dated
    <2>2. PICK x : x = <<b, Len(booksPay[b])>>
      OBVIOUS
    <2>3. x \in Books!BookingBase /\ x[1] = b
      BY <2>1, <2>2, Joined DEF LatestRows
    <2> QED BY <2>1, <2>2, <2>3
  <1>3. \A x \in LatestRows(Dated(m, fx)) : x \in E
    BY <1>2 DEF LatestRows
  <1> QED BY <1>1, <1>3

\* Its figures are sums over them.
LEMMA AccountingIs ==
    ASSUME BooksInv, NEW m, NEW fx
    PROVE  LET export == Books!Accounting(m, fx) IN
           /\ export.bookings = Cardinality(Dated(m, fx))
           /\ export.revenue = Sum(TotalOf, Dated(m, fx))
           /\ LET sum == Sum(ShareOf, Dated(m, fx))
              IN  export.commission = Books!RoundDouble(sum, sum \in ShortSums)
  <1> DEFINE S == Dated(m, fx)
             L == LatestRows(S)
             K1 == [x \in L |-> booksBooking[x[1]].total]
             K2 == [x \in L |-> Books!Share(x[1])]
             R == Books!Accounting(m, fx)
  <1>1. {x \in Books!BookingBase : LET b == booksBooking[x[1]] IN
             b.month = m /\ b.fx = fx /\ x[1] \in Books!Earning} = L
    BY ExportRows
  <1>2. R = [bookings |-> Books!Cardinality(L), revenue |-> Books!SumFunction(K1),
             commission |-> Books!RoundDouble(Books!SumFunction(K2), Books!SumFunction(K2) \in ShortSums)]
    BY <1>1, Zenon DEF Books!Accounting, Books!SumOver
  <1>3. S \in SUBSET Books!Exists /\ \A b \in S : b \in Trip
    BY EarningExist DEF Dated
  <1>4. \A b \in S : <<b, Len(booksPay[b])>> \in L
    BY DEF LatestRows
  <1>5. \A b \in S : TotalOf[b] \in Int /\ ShareOf[b] \in Int
    BY <1>3, Terms
  <1>6. \A b \in S : K1[<<b, Len(booksPay[b])>>] = TotalOf[b]
    BY <1>3, <1>4 DEF TotalOf
  <1>7. \A b \in S : K2[<<b, Len(booksPay[b])>>] = ShareOf[b]
    BY <1>3, <1>4 DEF ShareOf, Books!Share
  <1>9. /\ K1 = [x \in L |-> K1[x]] /\ K2 = [x \in L |-> K2[x]]
    OBVIOUS
  <1> HIDE DEF S, K1, K2
  <1>10. Books!SumFunction(K1) = Sum(TotalOf, S)
    BY <1>3, <1>5, <1>6, <1>9, SumOfRows
  <1>11. Books!SumFunction(K2) = Sum(ShareOf, S)
    BY <1>3, <1>5, <1>7, <1>9, SumOfRows
  <1>13. Cardinality(L) = Cardinality(S)
    BY <1>3, AsManyRows
  <1>14. Books!Cardinality(L) = Cardinality(L)
    BY BooksCount
  <1> QED BY <1>2, <1>10, <1>11, <1>13, <1>14 DEF S

-------------------------------------------------------------------------------
(* The reports by host and by month                                        *)

HostOf  == [b \in Trip |-> booksBooking[b].host]
MonthOf == [b \in Trip |-> booksBooking[b].month]
FxOf    == [b \in Trip |-> booksBooking[b].fx]

\* The bookings of a host, in a currency.
InFx(fx) == {b \in Books!Earning : b \in Books!Hosted /\ booksBooking[b].fx = fx}

\* Months are finitely many.
LEMMA MonthsFinite ==
    /\ IsFiniteSet(Books!Month) /\ Books!Month = 1 .. MaxMonth /\ MaxMonth \in Nat
    /\ (Books!Month)' = Books!Month
  <1>1. MaxMonth \in Nat
    BY BooksAssumption
  <1>2. Books!Month = 1 .. MaxMonth /\ (Books!Month)' = Books!Month
    BY DEF Books!Month
  <1> QED BY <1>1, <1>2, FS_Interval

\* A booking that earns is of a host, of a month and in a currency.
LEMMA BookingOf ==
    ASSUME BooksInv, NEW b \in Books!Exists
    PROVE  /\ HostOf[b] = booksBooking[b].host /\ (b \in Books!Hosted <=> HostOf[b] \in Host)
           /\ b \notin Books!Hosted => HostOf[b] = None
           /\ MonthOf[b] = booksBooking[b].month /\ MonthOf[b] \in Books!Month
           /\ FxOf[b] = booksBooking[b].fx /\ FxOf[b] \in Books!Currency
           /\ FxOf[b] \in Nat \ {0} /\ Unit % FxOf[b] = 0
  <1>1. b \in Trip /\ booksBooking[b] \in Made /\ Bought(booksBooking[b])
    BY TheirRows DEF BooksInv
  <1>2. HostOf[b] = booksBooking[b].host /\ MonthOf[b] = booksBooking[b].month /\ FxOf[b] = booksBooking[b].fx
    BY <1>1 DEF HostOf, MonthOf, FxOf
  <1>3. /\ (b \in Books!Hosted <=> HostOf[b] \in Host) /\ (b \notin Books!Hosted => HostOf[b] = None)
        /\ MonthOf[b] \in Books!Month
    BY <1>1, <1>2, RateAssumption DEF Made, Books!Hosted
  <1>4. PICK c \in Charge : booksBooking[b].fx = c.fx
    BY <1>1 DEF Bought
  <1>5. FxOf[b] \in Nat \ {0} /\ Unit % FxOf[b] = 0
    BY <1>2, <1>4, BooksAssumption
  <1>6. FxOf[b] \in Books!Currency
    BY <1>2, <1>4 DEF Books!Currency
  <1> QED BY <1>2, <1>3, <1>5, <1>6

\* What the hosts' reports say of the bookings, added up, is a sum over all bookings
\* in the currency.
LEMMA HostsAddUp ==
    ASSUME BooksInv, NEW fx, NEW f, \A b \in Books!Exists : f[b] \in Int,
           NEW k, k = [h \in Host |-> k[h]], \A h \in Host : k[h] = Sum(f, Sold(h, fx))
    PROVE  Books!SumFunction(k) = Sum(f, InFx(fx))
  <1>1. InFx(fx) \subseteq Books!Exists /\ IsFiniteSet(InFx(fx))
    BY EarningExist, FS_Subset DEF InFx
  <1>2. PICK p : p = [h \in Host |-> Sold(h, fx)]
    OBVIOUS
  <1>3. \A h \in Host : k[h] = Sum(f, p[h]) /\ \A b : b \in p[h] <=> b \in InFx(fx) /\ HostOf[b] = h
    <2>1. \A b \in Books!Earning : booksBooking[b].host \in Host => b \in Books!Hosted
      BY EarningExist, RateAssumption DEF Books!Hosted
    <2> QED BY <1>1, <1>2, <2>1, BookingOf DEF Sold, InFx
  <1>4. \A b \in InFx(fx) : f[b] \in Int /\ HostOf[b] \in Host
    BY <1>1, BookingOf DEF InFx
  <1>5. Sum(k, Host) = Sum(f, InFx(fx))
    <2>1. IsFiniteSet(Host)
      BY BooksAssumption
    <2>2. InParts(InFx(fx), Host, f, HostOf, k, p)
      BY <1>1, <1>3, <1>4, <2>1 DEF InParts
    <2> QED BY <2>2, SumByParts
  <1> QED BY <1>5, SumIs

\* So is what the exports of the months say.
LEMMA MonthsAddUp ==
    ASSUME BooksInv, NEW fx, NEW f, \A b \in Books!Exists : f[b] \in Int,
           NEW k, k = [m \in Books!Month |-> k[m]], \A m \in Books!Month : k[m] = Sum(f, Dated(m, fx))
    PROVE  Books!SumFunction(k) = Sum(f, InFx(fx))
  <1>1. InFx(fx) \subseteq Books!Exists /\ IsFiniteSet(InFx(fx))
    BY EarningExist, FS_Subset DEF InFx
  <1>2. PICK p : p = [m \in Books!Month |-> Dated(m, fx)]
    OBVIOUS
  <1>3. \A m \in Books!Month : k[m] = Sum(f, p[m]) /\ \A b : b \in p[m] <=> b \in InFx(fx) /\ MonthOf[b] = m
    BY <1>1, <1>2, BookingOf DEF Dated, InFx
  <1>4. \A b \in InFx(fx) : f[b] \in Int /\ MonthOf[b] \in Books!Month
    BY <1>1, BookingOf
  <1>5. Sum(k, Books!Month) = Sum(f, InFx(fx))
    <2>1. IsFiniteSet(Books!Month)
      BY MonthsFinite
    <2>2. InParts(InFx(fx), Books!Month, f, MonthOf, k, p)
      BY <1>1, <1>3, <1>4, <2>1 DEF InParts
    <2> QED BY <2>2, SumByParts
  <1> QED BY <1>5, SumIs

\* The revenue of the months is that of the hosts.
RevenueIn(fx) ==
    Books!SumOver(Books!Month, LAMBDA m : Books!Accounting(m, fx).revenue)
        = Books!SumOver(Host, LAMBDA h : Books!CommissionReport(h, fx).revenue)

\* It is, in every currency.
LEMMA RevenueAgrees == ASSUME BooksInv, NEW fx PROVE RevenueIn(fx)
  <1>1. PICK k : k = [m \in Books!Month |-> Books!Accounting(m, fx).revenue]
    OBVIOUS
  <1>2. PICK l : l = [h \in Host |-> Books!CommissionReport(h, fx).revenue]
    OBVIOUS
  <1>3. \A b \in Books!Exists : TotalOf[b] \in Int
    BY Terms
  <1>4. Books!SumFunction(k) = Sum(TotalOf, InFx(fx))
    <2>1. k = [m \in Books!Month |-> k[m]] /\ \A m \in Books!Month : k[m] = Sum(TotalOf, Dated(m, fx))
      BY <1>1, AccountingIs
    <2> QED BY <1>3, <2>1, MonthsAddUp
  <1>5. Books!SumFunction(l) = Sum(TotalOf, InFx(fx))
    <2>1. l = [h \in Host |-> l[h]] /\ \A h \in Host : l[h] = Sum(TotalOf, Sold(h, fx))
      BY <1>2, ReportIs
    <2> QED BY <1>3, <2>1, HostsAddUp
  <1>6. Books!SumFunction(k) = Books!SumFunction(l)
    BY <1>4, <1>5
  <1> QED BY <1>1, <1>2, <1>6, Zenon DEF Books!SumOver, RevenueIn

\* Sums of parts that are each rounded to hundreds are within fifty a part.
LEMMA RoundedParts ==
    ASSUME NEW S, IsFiniteSet(S), NEW f, NEW h,
           \A x \in S : /\ f[x] \in Int /\ h[x] \in Int
                        /\ -50 <= 100 * h[x] - f[x] /\ 100 * h[x] - f[x] <= 50
    PROVE  /\ Sum(h, S) \in Int /\ Sum(f, S) \in Int /\ Cardinality(S) \in Nat
           /\ -(50 * Cardinality(S)) <= 100 * Sum(h, S) - Sum(f, S)
           /\ 100 * Sum(h, S) - Sum(f, S) <= 50 * Cardinality(S)
  <1>1. PICK d : d = [x \in S |-> 100 * h[x] - f[x]]
    OBVIOUS
  <1>2. PICK e : e = [x \in S |-> 100 * h[x]]
    OBVIOUS
  <1>3. ASSUME NEW x \in S
        PROVE  /\ h[x] \in Int /\ e[x] = 100 * h[x] /\ e[x] \in Int /\ f[x] \in Int
               /\ d[x] \in Int /\ -50 <= d[x] /\ d[x] <= 50 /\ e[x] = f[x] + d[x]
    <2>1. /\ h[x] \in Int /\ f[x] \in Int
          /\ -50 <= 100 * h[x] - f[x] /\ 100 * h[x] - f[x] <= 50
      OBVIOUS
    <2>2. e[x] = 100 * h[x] /\ d[x] = 100 * h[x] - f[x]
      BY <1>1, <1>2
    <2> QED BY <2>1, <2>2
  <1>4. Sum(e, S) = 100 * Sum(h, S)
    BY <1>3, SumTimes
  <1>5. Sum(e, S) = Sum(f, S) + Sum(d, S)
    BY <1>3, SumPlus
  <1>6. Sum(h, S) \in Int /\ Sum(f, S) \in Int
    BY <1>3, SumInt
  <1>7. /\ Sum(d, S) \in Int /\ Cardinality(S) \in Nat
        /\ -(50 * Cardinality(S)) <= Sum(d, S) /\ Sum(d, S) <= 50 * Cardinality(S)
    BY <1>3, SumWithin
  <1> QED BY <1>4, <1>5, <1>6, <1>7

\* The commission booked by month is off by its rounding only.
CommissionIn(fx) ==
    LET owed == Books!SumOver(Host, LAMBDA h : Books!CommissionReport(h, fx).commission)
        count == Books!SumOver(Books!Month, LAMBDA m : Books!Accounting(m, fx).bookings)
        booked == Books!SumOver(Books!Month, LAMBDA m : Books!Accounting(m, fx).commission)
    IN  2 * Books!Abs(booked - owed) <= count + Books!Cardinality(Books!Month)

\* It is, in every currency.
LEMMA CommissionAgrees == ASSUME BooksInv, NEW fx PROVE CommissionIn(fx)
  <1>1. PICK k1 : k1 = [h \in Host |-> Books!CommissionReport(h, fx).commission]
    OBVIOUS
  <1>2. PICK k2 : k2 = [m \in Books!Month |-> Books!Accounting(m, fx).bookings]
    OBVIOUS
  <1>3. PICK k3 : k3 = [m \in Books!Month |-> Books!Accounting(m, fx).commission]
    OBVIOUS
  <1>4. PICK s : s = [m \in Books!Month |-> Sum(ShareOf, Dated(m, fx))]
    OBVIOUS
  <1>5. PICK ones : ones = [b \in Books!Exists |-> 1]
    OBVIOUS
  <1>6. PICK S : S = InFx(fx)
    OBVIOUS
  <1>7. S \subseteq Books!Exists /\ IsFiniteSet(S)
    BY <1>6, EarningExist, FS_Subset DEF InFx
  <1>8. \A b \in Books!Exists : OwedOf[b] \in Int /\ ShareOf[b] \in Int /\ ones[b] \in Int
    BY <1>5, Terms
  <1>9. Books!SumFunction(k1) = Sum(OwedOf, S)
    <2>1. k1 = [h \in Host |-> k1[h]] /\ \A h \in Host : k1[h] = Sum(OwedOf, Sold(h, fx))
      BY <1>1, ReportIs
    <2> QED BY <1>6, <1>8, <2>1, HostsAddUp
  <1>10. \A m \in Books!Month : Dated(m, fx) \subseteq Books!Exists /\ IsFiniteSet(Dated(m, fx))
    BY EarningExist, FS_Subset DEF Dated
  <1>11. Books!SumFunction(k2) = Cardinality(S)
    <2>1. ASSUME NEW m \in Books!Month PROVE k2[m] = Sum(ones, Dated(m, fx))
      <3>1. k2[m] = Cardinality(Dated(m, fx))
        BY <1>2, AccountingIs
      <3>2. \A b \in Dated(m, fx) : ones[b] = 1
        BY <1>5, <1>10
      <3> QED BY <1>10, <3>1, <3>2, SumOfOnes
    <2>2. k2 = [m \in Books!Month |-> k2[m]]
      BY <1>2
    <2>3. Books!SumFunction(k2) = Sum(ones, S)
      BY <1>6, <1>8, <2>1, <2>2, MonthsAddUp
    <2>4. \A b \in S : ones[b] = 1
      BY <1>5, <1>7
    <2> QED BY <1>7, <2>3, <2>4, SumOfOnes
  <1>12. Sum(s, Books!Month) = Sum(ShareOf, S)
    <2>1. s = [m \in Books!Month |-> s[m]] /\ \A m \in Books!Month : s[m] = Sum(ShareOf, Dated(m, fx))
      BY <1>4
    <2>2. Books!SumFunction(s) = Sum(ShareOf, S)
      BY <1>6, <1>8, <2>1, MonthsAddUp
    <2> QED BY <2>1, <2>2, SumIs
  <1>13. \A m \in Books!Month : /\ s[m] \in Int /\ k3[m] \in Int
                                 /\ -50 <= 100 * k3[m] - s[m] /\ 100 * k3[m] - s[m] <= 50
    <2>1. ASSUME NEW m \in Books!Month
          PROVE  /\ s[m] \in Int /\ k3[m] \in Int
                 /\ -50 <= 100 * k3[m] - s[m] /\ 100 * k3[m] - s[m] <= 50
      <3>1. s[m] = Sum(ShareOf, Dated(m, fx))
        BY <1>4
      <3>2. \A b \in Dated(m, fx) : ShareOf[b] \in Int
        BY <1>8, <1>10
      <3>3. s[m] \in Int
        BY <1>10, <3>1, <3>2, SumInt
      <3>4. k3[m] = Books!RoundDouble(s[m], s[m] \in ShortSums)
        BY <1>3, <3>1, AccountingIs
      <3>5. PICK short : short = (s[m] \in ShortSums)
        OBVIOUS
      <3>6. k3[m] = Books!RoundDouble(s[m], short)
        BY <3>4, <3>5
      <3> QED BY <3>3, <3>6, RoundDoubleIs
    <2> QED BY <2>1
  <1>14. PICK n : n = Cardinality(Books!Month)
    OBVIOUS
  <1>15. /\ Sum(k3, Books!Month) \in Int /\ Sum(s, Books!Month) \in Int /\ n \in Nat
         /\ -(50 * n) <= 100 * Sum(k3, Books!Month) - Sum(s, Books!Month)
         /\ 100 * Sum(k3, Books!Month) - Sum(s, Books!Month) <= 50 * n
    BY <1>13, <1>14, MonthsFinite, RoundedParts
  <1>16. Books!SumFunction(k3) = Sum(k3, Books!Month)
    BY <1>3, SumIs
  <1>17. \A b \in S : /\ ShareOf[b] \in Int /\ OwedOf[b] \in Int
                       /\ -50 <= 100 * OwedOf[b] - ShareOf[b] /\ 100 * OwedOf[b] - ShareOf[b] <= 50
    BY <1>7, <1>8, Terms, HalfUpIs
  <1>18. /\ Sum(OwedOf, S) \in Int /\ Sum(ShareOf, S) \in Int /\ Cardinality(S) \in Nat
         /\ -(50 * Cardinality(S)) <= 100 * Sum(OwedOf, S) - Sum(ShareOf, S)
         /\ 100 * Sum(OwedOf, S) - Sum(ShareOf, S) <= 50 * Cardinality(S)
    BY <1>7, <1>17, RoundedParts
  <1>19. PICK owed, count, booked : owed = Books!SumFunction(k1) /\ count = Books!SumFunction(k2)
                                    /\ booked = Books!SumFunction(k3)
    OBVIOUS
  <1>20. /\ owed \in Int /\ count \in Nat /\ booked \in Int
         /\ 2 * (booked - owed) <= count + n /\ 2 * (owed - booked) <= count + n
    BY <1>9, <1>11, <1>12, <1>15, <1>16, <1>18, <1>19
  <1>21. 2 * Books!Abs(booked - owed) <= count + Books!Cardinality(Books!Month)
    BY <1>14, <1>20, BooksCount DEF Books!Abs
  <1>22. /\ Books!SumOver(Host, LAMBDA h : Books!CommissionReport(h, fx).commission) = owed
         /\ Books!SumOver(Books!Month, LAMBDA m : Books!Accounting(m, fx).bookings) = count
         /\ Books!SumOver(Books!Month, LAMBDA m : Books!Accounting(m, fx).commission) = booked
    BY <1>1, <1>2, <1>3, <1>19, Zenon DEF Books!SumOver
  <1> QED BY <1>21, <1>22 DEF CommissionIn

-------------------------------------------------------------------------------
(* The overview, the months and the hosts, in euros                        *)

\* The total of a booking in euros.
GrossOf == [b \in Trip |-> Books!InEur(booksBooking[b].total, b)]
FeeOf   == [b \in Trip |-> Books!InEur(Books!Commission(b), b)]

\* A whole number of units divides without a rest.
LEMMA ToEurIs ==
    ASSUME NEW fx \in Nat \ {0}, Unit % fx = 0, NEW n \in Int
    PROVE  Unit \div fx \in Int /\ Books!ToEur(n, fx) = (Unit \div fx) * n
  <1>1. Unit \in Nat
    BY BooksAssumption
  <1>2. PICK q \in Int : q = Unit \div fx
    BY <1>1
  <1>3. Unit = fx * q
    BY <1>1, <1>2
  <1>4. PICK m \in Int : m = q * n
    OBVIOUS
  <1>5. Unit * n = fx * m
    BY <1>3, <1>4
  <1>6. (fx * m) \div fx = m
    OBVIOUS
  <1> QED BY <1>2, <1>4, <1>5, <1>6 DEF Books!ToEur

\* The terms of the sums are numbers.
LEMMA EuroTerms ==
    ASSUME BooksInv, NEW b \in Books!Exists
    PROVE  /\ b \in Trip
           /\ GrossOf[b] = Books!InEur(booksBooking[b].total, b)
           /\ FeeOf[b] = Books!InEur(Books!Commission(b), b)
           /\ Unit \div booksBooking[b].fx \in Int
           /\ GrossOf[b] \in Int /\ GrossOf[b] = (Unit \div booksBooking[b].fx) * TotalOf[b]
           /\ FeeOf[b] \in Int /\ FeeOf[b] = (Unit \div booksBooking[b].fx) * OwedOf[b]
  <1>1. b \in Trip /\ TotalOf[b] = booksBooking[b].total /\ OwedOf[b] = Books!Commission(b)
        /\ TotalOf[b] \in Int /\ OwedOf[b] \in Int
    BY Terms
  <1>2. GrossOf[b] = Books!InEur(booksBooking[b].total, b) /\ FeeOf[b] = Books!InEur(Books!Commission(b), b)
    BY <1>1 DEF GrossOf, FeeOf
  <1>3. booksBooking[b].fx \in Nat \ {0} /\ Unit % booksBooking[b].fx = 0
    BY BookingOf
  <1>4. PICK q : q = Unit \div booksBooking[b].fx
    OBVIOUS
  <1>5. q \in Int /\ GrossOf[b] = q * TotalOf[b] /\ FeeOf[b] = q * OwedOf[b]
    BY <1>1, <1>2, <1>3, <1>4, ToEurIs DEF Books!InEur
  <1>6. q * TotalOf[b] \in Int /\ q * OwedOf[b] \in Int
    BY <1>1, <1>5
  <1> QED BY <1>1, <1>2, <1>4, <1>5, <1>6

\* A sum in euros, of bookings that exist.
LEMMA EurSumIs ==
    ASSUME BooksInv, NEW S \in SUBSET Books!Exists
    PROVE  /\ Books!EurSum(S).gross = Sum(GrossOf, S)
           /\ Books!EurSum(S).commission = Sum(FeeOf, S)
           /\ Books!SumOver(S, LAMBDA b : Books!InEur(booksBooking[b].total, b)) = Sum(GrossOf, S)
  <1>1. PICK k : k = [b \in S |-> Books!InEur(booksBooking[b].total, b)]
    OBVIOUS
  <1>2. PICK l : l = [b \in S |-> Books!InEur(Books!Commission(b), b)]
    OBVIOUS
  <1>3. Books!EurSum(S) = [gross |-> Books!SumFunction(k), commission |-> Books!SumFunction(l)]
    BY <1>1, <1>2, Zenon DEF Books!EurSum, Books!SumOver
  <1>4. Books!SumOver(S, LAMBDA b : Books!InEur(booksBooking[b].total, b)) = Books!SumFunction(k)
    BY <1>1, Zenon DEF Books!SumOver
  <1>5. k = [b \in S |-> k[b]] /\ l = [b \in S |-> l[b]]
    BY <1>1, <1>2
  <1>6. \A b \in S : k[b] = GrossOf[b] /\ l[b] = FeeOf[b]
    BY <1>1, <1>2, EuroTerms
  <1>7. Books!SumFunction(k) = Sum(k, S) /\ Books!SumFunction(l) = Sum(l, S)
    BY <1>5, SumIs
  <1>8. Sum(k, S) = Sum(GrossOf, S) /\ Sum(l, S) = Sum(FeeOf, S)
    BY <1>6, SumSame
  <1> QED BY <1>3, <1>4, <1>7, <1>8

\* The months add up to the overview.
LEMMA MonthsAreTheOverview ==
    ASSUME BooksInv
    PROVE  /\ Books!Overview.gross = Books!SumOver(Books!Month, LAMBDA m : Books!Monthly(m).gross)
           /\ Books!Overview.commission = Books!SumOver(Books!Month, LAMBDA m : Books!Monthly(m).commission)
  <1> DEFINE E == Books!Earning
             M == Books!Month
  <1>1. PICK p : p = [m \in M |-> {b \in E : booksBooking[b].month = m}]
    OBVIOUS
  <1>2. PICK k : k = [m \in M |-> Books!Monthly(m).gross]
    OBVIOUS
  <1>3. PICK l : l = [m \in M |-> Books!Monthly(m).commission]
    OBVIOUS
  <1>4. IsFiniteSet(E) /\ E \in SUBSET Books!Exists
    BY EarningExist
  <1>5. \A m \in M : Books!Monthly(m) = Books!EurSum(p[m]) /\ p[m] \in SUBSET Books!Exists
    BY <1>1, <1>4 DEF Books!Monthly
  <1>6. \A m \in M : k[m] = Sum(GrossOf, p[m]) /\ l[m] = Sum(FeeOf, p[m])
    BY <1>2, <1>3, <1>5, EurSumIs
  <1>7. \A b \in E : GrossOf[b] \in Int /\ FeeOf[b] \in Int /\ MonthOf[b] = booksBooking[b].month /\ MonthOf[b] \in M
    BY <1>4, EuroTerms, BookingOf
  <1>8. \A m \in M : \A b : b \in p[m] <=> b \in E /\ MonthOf[b] = m
    BY <1>1, <1>7
  <1>9. IsFiniteSet(M)
    BY MonthsFinite
  <1> HIDE DEF E, M
  <1>10. InParts(E, M, GrossOf, MonthOf, k, p)
    BY <1>4, <1>6, <1>7, <1>8, <1>9 DEF InParts
  <1>11. InParts(E, M, FeeOf, MonthOf, l, p)
    BY <1>4, <1>6, <1>7, <1>8, <1>9 DEF InParts
  <1>12. Sum(k, M) = Sum(GrossOf, E) /\ Sum(l, M) = Sum(FeeOf, E)
    BY <1>10, <1>11, SumByParts
  <1>13. k = [m \in M |-> k[m]] /\ l = [m \in M |-> l[m]]
    BY <1>2, <1>3
  <1>14. Books!SumFunction(k) = Sum(GrossOf, E) /\ Books!SumFunction(l) = Sum(FeeOf, E)
    BY <1>12, <1>13, SumIs
  <1>15. Books!Overview.gross = Sum(GrossOf, E) /\ Books!Overview.commission = Sum(FeeOf, E)
    BY <1>4, EurSumIs DEF E, Books!Overview
  <1>16. /\ Books!SumOver(Books!Month, LAMBDA m : Books!Monthly(m).gross) = Books!SumFunction(k)
         /\ Books!SumOver(Books!Month, LAMBDA m : Books!Monthly(m).commission) = Books!SumFunction(l)
    BY <1>2, <1>3, Zenon DEF Books!SumOver, M
  <1> QED BY <1>14, <1>15, <1>16

\* A sum is that over a part of the set and that over the rest.
LEMMA SumSplit ==
    ASSUME NEW S, IsFiniteSet(S), NEW T \in SUBSET S, NEW f, \A x \in S : f[x] \in Int
    PROVE  Sum(f, S) = Sum(f, T) + Sum(f, S \ T)
  <1>1. PICK g : g = [x \in S |-> IF x \in T THEN f[x] ELSE 0]
    OBVIOUS
  <1>2. PICK h : h = [x \in S |-> IF x \in T THEN 0 ELSE f[x]]
    OBVIOUS
  <1>3. \A x \in S : g[x] \in Int /\ h[x] \in Int /\ f[x] = g[x] + h[x]
    BY <1>1, <1>2
  <1>4. Sum(f, S) = Sum(g, S) + Sum(h, S)
    BY <1>3, SumPlus
  <1>5. Sum(g, T) = Sum(g, S)
    <2>1. \A x \in S \ T : g[x] = 0
      BY <1>1
    <2> QED BY <1>3, <2>1, SumWithout
  <1>6. PICK R \in SUBSET S : R = S \ T
    OBVIOUS
  <1>7. Sum(h, R) = Sum(h, S)
    <2>1. \A x \in S \ R : h[x] = 0
      BY <1>2, <1>6
    <2> QED BY <1>3, <2>1, SumWithout
  <1>8. Sum(g, T) = Sum(f, T)
    <2>1. \A x \in T : g[x] = f[x]
      BY <1>1
    <2> QED BY <2>1, SumSame
  <1>9. Sum(h, R) = Sum(f, R)
    <2>1. \A x \in R : h[x] = f[x]
      BY <1>2, <1>6
    <2> QED BY <2>1, SumSame
  <1> QED BY <1>4, <1>5, <1>6, <1>7, <1>8, <1>9

\* The overview is what the hosts' bookings bring and what those without a host do.
LEMMA WithAndWithoutHost ==
    ASSUME BooksInv
    PROVE  LET E == Books!Earning \cap Books!Hosted IN
           /\ E \in SUBSET Books!Exists /\ IsFiniteSet(E)
           /\ Books!Overview.gross = Sum(GrossOf, E) + Books!Unassigned.gross
           /\ Books!Overview.commission = Sum(FeeOf, E) + Books!Unassigned.commission
  <1>1. PICK A, E, R : A = Books!Earning /\ E = A \cap Books!Hosted /\ R = A \ Books!Hosted
    OBVIOUS
  <1>2. IsFiniteSet(A) /\ A \in SUBSET Books!Exists /\ E \in SUBSET A /\ R \in SUBSET Books!Exists /\ R = A \ E
    BY <1>1, EarningExist
  <1>3. \A b \in A : GrossOf[b] \in Int /\ FeeOf[b] \in Int
    BY <1>2, EuroTerms
  <1>4. Sum(GrossOf, A) = Sum(GrossOf, E) + Sum(GrossOf, R) /\ Sum(FeeOf, A) = Sum(FeeOf, E) + Sum(FeeOf, R)
    BY <1>2, <1>3, SumSplit
  <1>5. Books!Overview.gross = Sum(GrossOf, A) /\ Books!Overview.commission = Sum(FeeOf, A)
    BY <1>1, <1>2, EurSumIs DEF Books!Overview
  <1>6. Books!Unassigned.gross = Sum(GrossOf, R) /\ Books!Unassigned.commission = Sum(FeeOf, R)
    BY <1>1, <1>2, EurSumIs DEF Books!Unassigned
  <1>7. IsFiniteSet(E) /\ E \in SUBSET Books!Exists
    BY <1>2, FS_Subset
  <1> QED BY <1>1, <1>4, <1>5, <1>6, <1>7

\* So do the hosts, with what the listings without one bring.
LEMMA HostsAreTheOverview ==
    ASSUME BooksInv
    PROVE  Books!Overview.gross = Books!SumOver(Host, Books!TopHosts) + Books!Unassigned.gross
  <1> DEFINE E == Books!Earning \cap Books!Hosted
  <1>1. PICK p : p = [h \in Host |-> {b \in E : booksBooking[b].host = h}]
    OBVIOUS
  <1>2. PICK k : k = [h \in Host |-> Books!TopHosts(h)]
    OBVIOUS
  <1>4. IsFiniteSet(E) /\ E \in SUBSET Books!Exists
    BY WithAndWithoutHost
  <1>5. ASSUME NEW h \in Host PROVE k[h] = Sum(GrossOf, p[h])
    <2>1. PICK S : S = {b \in Books!Earning : booksBooking[b].host = h}
      OBVIOUS
    <2>2. S \in SUBSET Books!Exists /\ S = {b \in E : booksBooking[b].host = h}
      BY <2>1, EarningExist, RateAssumption DEF Books!Hosted
    <2>3. Books!TopHosts(h) = Books!SumOver(S, LAMBDA b : Books!InEur(booksBooking[b].total, b))
      BY <2>1, Zenon DEF Books!TopHosts, Books!SumOver
    <2>4. Books!TopHosts(h) = Sum(GrossOf, S)
      BY <2>2, <2>3, EurSumIs
    <2> QED BY <1>1, <1>2, <2>2, <2>4
  <1>7. \A b \in E : GrossOf[b] \in Int /\ HostOf[b] = booksBooking[b].host /\ HostOf[b] \in Host
    BY <1>4, EuroTerms, BookingOf
  <1>8. \A h \in Host : \A b : b \in p[h] <=> b \in E /\ HostOf[b] = h
    BY <1>1, <1>7
  <1>9. IsFiniteSet(Host)
    BY BooksAssumption
  <1> HIDE DEF E
  <1>10. InParts(E, Host, GrossOf, HostOf, k, p)
    BY <1>4, <1>5, <1>7, <1>8, <1>9 DEF InParts
  <1>12. Sum(k, Host) = Sum(GrossOf, E)
    BY <1>10, SumByParts
  <1>13. k = [h \in Host |-> k[h]]
    BY <1>2
  <1>14. Books!SumFunction(k) = Sum(GrossOf, E)
    BY <1>12, <1>13, SumIs
  <1>15. Books!Overview.gross = Sum(GrossOf, E) + Books!Unassigned.gross
    BY WithAndWithoutHost DEF E
  <1>16. Books!SumOver(Host, Books!TopHosts) = Books!SumFunction(k)
    BY <1>2, Zenon DEF Books!SumOver
  <1> QED BY <1>14, <1>15, <1>16

\* And so do the reports of the hosts, each turned into euros.
LEMMA ReportsAreTheOverview ==
    ASSUME BooksInv
    PROVE  /\ Books!Overview.gross = Books!SumOver(Books!Pairs,
                   LAMBDA p : Books!ToEur(Books!CommissionReport(p[1], p[2]).revenue, p[2]))
                  + Books!Unassigned.gross
           /\ Books!Overview.commission = Books!SumOver(Books!Pairs,
                   LAMBDA p : Books!ToEur(Books!CommissionReport(p[1], p[2]).commission, p[2]))
                  + Books!Unassigned.commission
  <1> DEFINE E == Books!Earning \cap Books!Hosted
             P == Books!Pairs
  <1>1. PICK s : s = [x \in P |-> Sold(x[1], x[2])]
    OBVIOUS
  <1>2. PICK k : k = [x \in P |-> Books!ToEur(Books!CommissionReport(x[1], x[2]).revenue, x[2])]
    OBVIOUS
  <1>3. PICK l : l = [x \in P |-> Books!ToEur(Books!CommissionReport(x[1], x[2]).commission, x[2])]
    OBVIOUS
  <1>4. IsFiniteSet(E) /\ E \in SUBSET Books!Exists
    BY WithAndWithoutHost
  <1>5. ASSUME NEW x \in P PROVE k[x] = Sum(GrossOf, s[x]) /\ l[x] = Sum(FeeOf, s[x])
    <2>1. PICK h, fx : x[1] = h /\ x[2] = fx
      OBVIOUS
    <2>2. fx \in Books!Currency /\ h \in Host
      BY <2>1 DEF Books!Pairs
    <2>3. fx \in Nat \ {0} /\ Unit % fx = 0
      BY <2>2, BooksAssumption DEF Books!Currency
    <2>4. PICK S : S = Sold(h, fx)
      OBVIOUS
    <2>5. S \subseteq Books!Exists /\ IsFiniteSet(S) /\ \A b \in S : booksBooking[b].fx = fx
      BY <2>4, EarningExist, FS_Subset DEF Sold
    <2>6. PICK q : q = Unit \div fx
      OBVIOUS
    <2>7. \A n \in Int : Books!ToEur(n, fx) = q * n /\ q \in Int
      BY <2>3, <2>6, ToEurIs
    <2>8. /\ q \in Int
          /\ \A b \in S : /\ TotalOf[b] \in Int /\ OwedOf[b] \in Int
                          /\ GrossOf[b] = q * TotalOf[b] /\ FeeOf[b] = q * OwedOf[b]
      BY <2>5, <2>6, <2>7, EuroTerms, Terms
    <2>9. Sum(GrossOf, S) = q * Sum(TotalOf, S) /\ Sum(FeeOf, S) = q * Sum(OwedOf, S)
      BY <2>5, <2>8, SumTimes
    <2>10. Sum(TotalOf, S) \in Int /\ Sum(OwedOf, S) \in Int
      BY <2>5, <2>8, SumInt
    <2>11. /\ Books!CommissionReport(h, fx).revenue = Sum(TotalOf, S)
           /\ Books!CommissionReport(h, fx).commission = Sum(OwedOf, S)
      BY <2>2, <2>4, ReportIs
    <2>12. k[x] = Books!ToEur(Sum(TotalOf, S), fx) /\ l[x] = Books!ToEur(Sum(OwedOf, S), fx)
      BY <1>2, <1>3, <2>1, <2>11
    <2>13. s[x] = S
      BY <1>1, <2>1, <2>4
    <2> QED BY <2>7, <2>9, <2>10, <2>12, <2>13
  <1>6. PICK g : g = [b \in E |-> <<HostOf[b], FxOf[b]>>]
    OBVIOUS
  <1>7. \A b \in E : /\ GrossOf[b] \in Int /\ FeeOf[b] \in Int
                     /\ g[b] = <<booksBooking[b].host, booksBooking[b].fx>> /\ g[b] \in P
    BY <1>4, <1>6, EuroTerms, BookingOf DEF Books!Pairs
  <1>8. ASSUME NEW x \in P PROVE \A b : b \in s[x] <=> b \in E /\ g[b] = x
    <2>1. x = <<x[1], x[2]>>
      BY DEF Books!Pairs
    <2>2. \A b \in E : g[b] = x <=> booksBooking[b].host = x[1] /\ booksBooking[b].fx = x[2]
      BY <1>7, <2>1
    <2>3. \A b \in Books!Earning : booksBooking[b].host = x[1] => b \in Books!Hosted
      BY EarningExist, RateAssumption DEF Books!Pairs, Books!Hosted
    <2>4. s[x] = Sold(x[1], x[2])
      BY <1>1
    <2> QED BY <2>2, <2>3, <2>4 DEF Sold, E
  <1>9. IsFiniteSet(P)
    <2>1. IsFiniteSet(Host) /\ IsFiniteSet(Books!Currency)
      BY BooksAssumption DEF Books!Currency
    <2> QED BY <2>1, FS_Product DEF Books!Pairs
  <1> HIDE DEF E, P
  <1>10. InParts(E, P, GrossOf, g, k, s)
    BY <1>4, <1>5, <1>7, <1>8, <1>9 DEF InParts
  <1>11. InParts(E, P, FeeOf, g, l, s)
    BY <1>4, <1>5, <1>7, <1>8, <1>9 DEF InParts
  <1>12. Sum(k, P) = Sum(GrossOf, E) /\ Sum(l, P) = Sum(FeeOf, E)
    BY <1>10, <1>11, SumByParts
  <1>13. k = [x \in P |-> k[x]] /\ l = [x \in P |-> l[x]]
    BY <1>2, <1>3
  <1>14. Books!SumFunction(k) = Sum(GrossOf, E) /\ Books!SumFunction(l) = Sum(FeeOf, E)
    BY <1>12, <1>13, SumIs
  <1>15. /\ Books!Overview.gross = Sum(GrossOf, E) + Books!Unassigned.gross
         /\ Books!Overview.commission = Sum(FeeOf, E) + Books!Unassigned.commission
    BY WithAndWithoutHost DEF E
  <1>16. /\ Books!SumOver(Books!Pairs, LAMBDA p : Books!ToEur(Books!CommissionReport(p[1], p[2]).revenue, p[2]))
              = Books!SumFunction(k)
         /\ Books!SumOver(Books!Pairs, LAMBDA p : Books!ToEur(Books!CommissionReport(p[1], p[2]).commission, p[2]))
              = Books!SumFunction(l)
    BY <1>2, <1>3, Zenon DEF Books!SumOver, P
  <1> QED BY <1>14, <1>15, <1>16

-------------------------------------------------------------------------------
(* The dashboard of a host and the nights                                  *)

\* The larger of two numbers.
LEMMA MaxOfBoth == ASSUME NEW a \in Int, NEW b \in Int PROVE Books!Max({a, b}) = IF a >= b THEN a ELSE b
  <1>1. \E x \in {a, b} : \A y \in {a, b} : x >= y
    OBVIOUS
  <1>2. PICK m : m = Books!Max({a, b})
    OBVIOUS
  <1>3. m \in {a, b} /\ \A y \in {a, b} : m >= y
    BY <1>1, <1>2 DEF Books!Max
  <1> QED BY <1>2, <1>3

\* And the smaller.
LEMMA MinOfBoth == ASSUME NEW a \in Int, NEW b \in Int PROVE Books!Min({a, b}) = IF a <= b THEN a ELSE b
  <1>1. \E x \in {a, b} : \A y \in {a, b} : x <= y
    OBVIOUS
  <1>2. PICK m : m = Books!Min({a, b})
    OBVIOUS
  <1>3. m \in {a, b} /\ \A y \in {a, b} : m <= y
    BY <1>1, <1>2 DEF Books!Min
  <1> QED BY <1>2, <1>3

\* The bookings of a host that earn, and all of them.
EarnedBy(h) == {b \in Books!Earning : booksBooking[b].host = h}
AllOf(h) == {b \in Books!Exists : booksBooking[b].host = h}

\* The reports of a host in every currency are its bookings that earn.
LEMMA CurrenciesAddUp ==
    ASSUME BooksInv, NEW h \in Host
    PROVE  Books!SumOver(Books!Currency, LAMBDA fx : Books!CommissionReport(h, fx).revenue)
               = Sum(TotalOf, EarnedBy(h))
  <1> DEFINE S == EarnedBy(h)
             C == Books!Currency
  <1>1. PICK p : p = [fx \in C |-> Sold(h, fx)]
    OBVIOUS
  <1>2. PICK k : k = [fx \in C |-> Books!CommissionReport(h, fx).revenue]
    OBVIOUS
  <1>3. S \subseteq Books!Exists /\ IsFiniteSet(S)
    BY EarningExist, FS_Subset DEF EarnedBy
  <1>4. \A fx \in C : k[fx] = Sum(TotalOf, p[fx])
    BY <1>1, <1>2, ReportIs
  <1>5. \A b \in S : TotalOf[b] \in Int /\ FxOf[b] \in C /\ FxOf[b] = booksBooking[b].fx
    BY <1>3, Terms, BookingOf
  <1>6. \A fx \in C : \A b : b \in p[fx] <=> b \in S /\ FxOf[b] = fx
    BY <1>1, <1>5 DEF Sold, EarnedBy
  <1>7. IsFiniteSet(C)
    BY BooksAssumption DEF Books!Currency
  <1> HIDE DEF S, C
  <1>8. InParts(S, C, TotalOf, FxOf, k, p)
    BY <1>3, <1>4, <1>5, <1>6, <1>7 DEF InParts
  <1>9. Sum(k, C) = Sum(TotalOf, S)
    BY <1>8, SumByParts
  <1>10. k = [fx \in C |-> k[fx]]
    BY <1>2
  <1>11. Books!SumFunction(k) = Sum(TotalOf, S)
    BY <1>9, <1>10, SumIs
  <1>12. Books!SumOver(Books!Currency, LAMBDA fx : Books!CommissionReport(h, fx).revenue) = Books!SumFunction(k)
    BY <1>2, Zenon DEF Books!SumOver, C
  <1> QED BY <1>11, <1>12 DEF S

\* What a cancelled booking leaves its host is a number, and nothing if it earns.
LEMMA KeptIs ==
    ASSUME BooksInv, NEW b \in Books!Exists
    PROVE  /\ Books!Kept(b) \in Int
           /\ booksBooking[b].status # "cancelled" => Books!Kept(b) = 0
           /\ Books!Latest(b).status \notin {"paid", "refunded"} => Books!Kept(b) = 0
  <1>1. booksBooking[b] \in Made /\ Books!Latest(b) \in Payment
    BY TheirRows DEF Books!Latest
  <1>2. PICK n \in Int : n = booksBooking[b].total - Books!Latest(b).refunded
    BY <1>1 DEF Made, Payment
  <1>3. Books!Max({n, 0}) \in Int
    BY MaxOfBoth
  <1> QED BY <1>2, <1>3 DEF Books!Kept

\* The dashboard of a host is what its bookings earn, and what those that were
\* cancelled leave it.
LEMMA DashboardIs ==
    ASSUME BooksInv, NEW h
    PROVE  Books!DashboardGross(h) = Sum(TotalOf, EarnedBy(h)) + Books!SumOver(AllOf(h), Books!Kept)
  <1>1. PICK A : A = AllOf(h)
    OBVIOUS
  <1>2. PICK seen : seen = {b \in Books!Exists : /\ booksBooking[b].host = h
                                /\ \/ booksBooking[b].status \notin {"pending", "cancelled"}
                                   \/ Books!Latest(b).status \in {"authorized", "paid", "refunded"}}
    OBVIOUS
  <1>3. PICK S : S = EarnedBy(h)
    OBVIOUS
  <1>4. PICK k : k = [b \in seen |-> IF b \in Books!Earning THEN booksBooking[b].total ELSE Books!Kept(b)]
    OBVIOUS
  <1>5. PICK d : d = [b \in A |-> IF b \in Books!Earning THEN booksBooking[b].total ELSE Books!Kept(b)]
    OBVIOUS
  <1>6. PICK e : e = [b \in A |-> IF b \in Books!Earning THEN booksBooking[b].total ELSE 0]
    OBVIOUS
  <1>7. PICK l : l = [b \in A |-> Books!Kept(b)]
    OBVIOUS
  <1>8. /\ A \subseteq Books!Exists /\ seen \in SUBSET A /\ S \in SUBSET A
        /\ IsFiniteSet(A) /\ IsFiniteSet(seen) /\ IsFiniteSet(S)
    <2>1. A \subseteq Books!Exists /\ seen \in SUBSET A /\ S \in SUBSET A
      BY <1>1, <1>2, <1>3, EarningExist DEF AllOf, EarnedBy
    <2> QED BY <2>1, EarningExist, FS_Subset
  <1>9. Books!DashboardGross(h) = Books!SumFunction(k)
    BY <1>2, <1>4, Zenon DEF Books!DashboardGross, Books!SumOver
  <1>10. Books!SumOver(AllOf(h), Books!Kept) = Books!SumFunction(l)
    BY <1>1, <1>7, Zenon DEF Books!SumOver
  <1>11. k = [b \in seen |-> k[b]] /\ l = [b \in A |-> l[b]]
    BY <1>4, <1>7
  <1>12. Books!SumFunction(k) = Sum(k, seen) /\ Books!SumFunction(l) = Sum(l, A)
    BY <1>11, SumIs
  <1>13. ASSUME NEW b \in A
         PROVE  /\ d[b] \in Int /\ e[b] \in Int /\ l[b] \in Int /\ d[b] = e[b] + l[b]
                /\ b \notin seen => d[b] = 0
                /\ b \in seen => k[b] = d[b]
                /\ b \notin S => e[b] = 0
                /\ b \in S => e[b] = TotalOf[b]
    <2>1. b \in Books!Exists /\ booksBooking[b].host = h
      BY <1>1 DEF AllOf
    <2>2. TotalOf[b] = booksBooking[b].total /\ TotalOf[b] \in Int
      BY <2>1, Terms
    <2>3. PICK r : r = Books!Kept(b)
      OBVIOUS
    <2>4. /\ r \in Int
          /\ booksBooking[b].status # "cancelled" => r = 0
          /\ Books!Latest(b).status \notin {"paid", "refunded"} => r = 0
      BY <2>1, <2>3, KeptIs
    <2>5. /\ d[b] = (IF b \in Books!Earning THEN booksBooking[b].total ELSE r)
          /\ e[b] = (IF b \in Books!Earning THEN booksBooking[b].total ELSE 0) /\ l[b] = r
      BY <1>5, <1>6, <1>7, <2>3
    <2>6. b \in S <=> b \in Books!Earning
      BY <1>3, <2>1 DEF EarnedBy
    <2>7. b \in Books!Earning => booksBooking[b].status \in {"confirmed", "completed"}
      BY DEF Books!Earning
    <2>8. b \in seen => k[b] = d[b]
      BY <1>4, <2>3, <2>5
    <2>9. b \notin seen => /\ booksBooking[b].status \in {"pending", "cancelled"}
                           /\ Books!Latest(b).status \notin {"authorized", "paid", "refunded"}
      BY <1>2, <2>1
    <2> QED BY <2>2, <2>4, <2>5, <2>6, <2>7, <2>8, <2>9
  <1>14. Sum(k, seen) = Sum(d, seen)
    BY <1>8, <1>13, SumSame
  <1>15. Sum(d, seen) = Sum(d, A)
    BY <1>8, <1>13, SumWithout
  <1>16. Sum(d, A) = Sum(e, A) + Sum(l, A)
    BY <1>8, <1>13, SumPlus
  <1>17. Sum(e, S) = Sum(e, A)
    BY <1>8, <1>13, SumWithout
  <1>18. Sum(e, S) = Sum(TotalOf, S)
    BY <1>8, <1>13, SumSame
  <1> QED BY <1>3, <1>9, <1>10, <1>12, <1>14, <1>15, <1>16, <1>17, <1>18

\* The months a stay touches.
LEMMA StayIs ==
    ASSUME BooksInv, NEW b \in Books!Exists
    PROVE  /\ booksBooking[b].from \in Nat /\ booksBooking[b].to \in Nat
           /\ booksBooking[b].from < booksBooking[b].to
           /\ booksBooking[b].to <= MaxMonth * MonthLength
           /\ booksBooking[b].from \div MonthLength + 1 \in Books!Month
  <1>1. Bought(booksBooking[b])
    BY DEF BooksInv
  <1>2. PICK c \in Charge : booksBooking[b].from = c.from /\ booksBooking[b].to = c.to
    BY <1>1 DEF Bought
  <1>3. PICK from, to : from = booksBooking[b].from /\ to = booksBooking[b].to
    OBVIOUS
  <1>4. /\ from \in Nat /\ to \in Nat /\ from < to /\ to <= MaxMonth * MonthLength
        /\ MonthLength \in Nat \ {0} /\ MaxMonth \in Nat \ {0}
    BY <1>2, <1>3, BooksAssumption
  <1>5. PICK q \in Int : q = from \div MonthLength
    BY <1>4
  <1>6. q * MonthLength <= from /\ q >= 0
    BY <1>4, <1>5
  <1>7. q < MaxMonth
    <2>1. SUFFICES ASSUME q >= MaxMonth PROVE FALSE
      BY <1>4
    <2>2. q * MonthLength >= MaxMonth * MonthLength
      BY <1>4, <2>1
    <2>3. q * MonthLength \in Int /\ MaxMonth * MonthLength \in Int
      BY <1>4
    <2> QED BY <1>4, <1>6, <2>2, <2>3
  <1>8. q + 1 \in Books!Month
    BY <1>4, <1>6, <1>7 DEF Books!Month
  <1> QED BY <1>3, <1>4, <1>5, <1>8

\* The chart of a host is its report.
LEMMA ChartAddsUp ==
    ASSUME BooksInv, NEW h
    PROVE  Books!SumOver(Books!Month, LAMBDA m : Books!EarningsByMonth(h, m)) = Sum(TotalOf, EarnedBy(h))
  <1> DEFINE S == EarnedBy(h)
             M == Books!Month
  <1>1. PICK g : g = [b \in S |-> booksBooking[b].from \div MonthLength + 1]
    OBVIOUS
  <1>2. PICK p : p = [m \in M |-> {b \in Books!Earning : /\ booksBooking[b].host = h
                                      /\ booksBooking[b].from \div MonthLength + 1 = m}]
    OBVIOUS
  <1>3. PICK k : k = [m \in M |-> Books!EarningsByMonth(h, m)]
    OBVIOUS
  <1>4. S \subseteq Books!Exists /\ IsFiniteSet(S)
    BY EarningExist, FS_Subset DEF EarnedBy
  <1>5. ASSUME NEW m \in M PROVE k[m] = Sum(TotalOf, p[m])
    <2>1. PICK P : P = {b \in Books!Earning : /\ booksBooking[b].host = h
                            /\ booksBooking[b].from \div MonthLength + 1 = m}
      OBVIOUS
    <2>2. PICK l : l = [b \in P |-> booksBooking[b].total]
      OBVIOUS
    <2>3. Books!EarningsByMonth(h, m) = Books!SumFunction(l)
      BY <2>1, <2>2, Zenon DEF Books!EarningsByMonth, Books!SumOver
    <2>4. l = [b \in P |-> l[b]] /\ \A b \in P : l[b] = TotalOf[b]
      <3>1. P \subseteq Books!Exists
        BY <2>1, EarningExist
      <3> QED BY <2>2, <3>1, Terms
    <2>5. Books!SumFunction(l) = Sum(l, P) /\ Sum(l, P) = Sum(TotalOf, P)
      BY <2>4, SumIs, SumSame
    <2> QED BY <1>2, <1>3, <2>1, <2>3, <2>5
  <1>6. \A b \in S : TotalOf[b] \in Int /\ g[b] \in M
    BY <1>1, <1>4, Terms, StayIs
  <1>7. \A m \in M : \A b : b \in p[m] <=> b \in S /\ g[b] = m
    BY <1>1, <1>2 DEF EarnedBy
  <1>8. IsFiniteSet(M)
    BY MonthsFinite
  <1> HIDE DEF S, M
  <1>9. InParts(S, M, TotalOf, g, k, p)
    BY <1>4, <1>5, <1>6, <1>7, <1>8 DEF InParts
  <1>10. Sum(k, M) = Sum(TotalOf, S)
    BY <1>9, SumByParts
  <1>11. k = [m \in M |-> k[m]]
    BY <1>3
  <1>12. Books!SumFunction(k) = Sum(TotalOf, S)
    BY <1>10, <1>11, SumIs
  <1>13. Books!SumOver(Books!Month, LAMBDA m : Books!EarningsByMonth(h, m)) = Books!SumFunction(k)
    BY <1>3, Zenon DEF Books!SumOver, M
  <1> QED BY <1>12, <1>13 DEF S

\* The nights of a stay before day n.
Lesser(a, b) == IF a <= b THEN a ELSE b
Before(b, n) == Lesser(booksBooking[b].to, n) - Lesser(booksBooking[b].from, n)

\* The nights of a month are those before its last day and not before its first.
LEMMA NightsOfMonth ==
    ASSUME BooksInv, NEW m \in Books!Month,
           NEW f, \A b \in Books!Earning : f[b] = Before(b, m * MonthLength),
           NEW g, \A b \in Books!Earning : g[b] = Before(b, (m - 1) * MonthLength)
    PROVE  /\ \A b \in Books!Earning : f[b] \in Int /\ g[b] \in Int
           /\ Books!NightsBooked(m) = Sum(f, Books!Earning) - Sum(g, Books!Earning)
  <1>1. PICK E : E = Books!Earning
    OBVIOUS
  <1>2. PICK start, stop : start = (m - 1) * MonthLength /\ stop = m * MonthLength
    OBVIOUS
  <1>3. start \in Nat /\ stop \in Nat /\ start < stop
    <2>1. m \in Nat \ {0} /\ MonthLength \in Nat \ {0}
      BY MonthsFinite, BooksAssumption
    <2>2. PICK n \in Nat : n = m - 1
      BY <2>1
    <2>3. n * MonthLength \in Nat /\ m * MonthLength \in Nat
      BY <2>1
    <2>4. m * MonthLength = n * MonthLength + MonthLength
      BY <2>1, <2>2
    <2> QED BY <1>2, <2>1, <2>2, <2>3, <2>4
  <1>4. PICK P : P = {b \in Books!Earning : booksBooking[b].from < stop /\ booksBooking[b].to > start}
    OBVIOUS
  <1>5. PICK k : k = [b \in P |-> Books!Min({booksBooking[b].to, stop}) - Books!Max({booksBooking[b].from, start})]
    OBVIOUS
  <1>6. PICK d : d = [b \in E |-> f[b] - g[b]]
    OBVIOUS
  <1>7. Books!NightsBooked(m) = Books!SumFunction(k)
    BY <1>2, <1>4, <1>5, Zenon DEF Books!NightsBooked, Books!SumOver
  <1>8. P \in SUBSET E /\ E \subseteq Books!Exists /\ IsFiniteSet(E)
    BY <1>1, <1>4, EarningExist
  <1>9. ASSUME NEW b \in E
        PROVE  /\ f[b] \in Int /\ g[b] \in Int /\ d[b] \in Int /\ f[b] = g[b] + d[b]
               /\ b \in P => k[b] = d[b]
               /\ b \notin P => d[b] = 0
    <2>1. PICK from, to : from = booksBooking[b].from /\ to = booksBooking[b].to
      OBVIOUS
    <2>2. from \in Nat /\ to \in Nat /\ from < to
      BY <1>8, <2>1, StayIs
    <2>3. /\ f[b] = Lesser(to, stop) - Lesser(from, stop)
          /\ g[b] = Lesser(to, start) - Lesser(from, start)
      BY <1>1, <1>2, <2>1 DEF Before
    <2>4. d[b] = f[b] - g[b]
      BY <1>6
    <2>5. b \in P <=> from < stop /\ to > start
      BY <1>1, <1>4, <2>1
    <2>6. b \in P => k[b] = Books!Min({to, stop}) - Books!Max({from, start})
      BY <1>5, <2>1
    <2>7. /\ Books!Min({to, stop}) = Lesser(to, stop)
          /\ Books!Max({from, start}) = IF from >= start THEN from ELSE start
      BY <1>3, <2>2, MinOfBoth, MaxOfBoth DEF Lesser
    <2> QED BY <1>3, <2>2, <2>3, <2>4, <2>5, <2>6, <2>7 DEF Lesser
  <1>10. k = [b \in P |-> k[b]]
    BY <1>5
  <1>11. Books!SumFunction(k) = Sum(k, P)
    BY <1>10, SumIs
  <1>12. Sum(k, P) = Sum(d, P)
    BY <1>8, <1>9, SumSame
  <1>13. Sum(d, P) = Sum(d, E)
    BY <1>8, <1>9, SumWithout
  <1>14. Sum(f, E) = Sum(g, E) + Sum(d, E)
    BY <1>8, <1>9, SumPlus
  <1>15. Sum(g, E) \in Int /\ Sum(d, E) \in Int
    BY <1>8, <1>9, SumInt
  <1> QED BY <1>1, <1>7, <1>9, <1>11, <1>12, <1>13, <1>14, <1>15

\* The nights of the months are the nights sold.
LEMMA NightsAddUp ==
    ASSUME BooksInv
    PROVE  Books!SumOver(Books!Month, Books!NightsBooked)
               = Books!SumOver(Books!Earning, LAMBDA b : booksBooking[b].to - booksBooking[b].from)
  <1>1. PICK E : E = Books!Earning
    OBVIOUS
  <1>2. PICK F : F = [n \in 0 .. MaxMonth |-> [b \in E |-> Before(b, n * MonthLength)]]
    OBVIOUS
  <1>3. PICK G : G = [n \in 0 .. MaxMonth |-> Sum(F[n], E)]
    OBVIOUS
  <1>4. PICK k : k = [m \in Books!Month |-> Books!NightsBooked(m)]
    OBVIOUS
  <1>5. PICK l : l = [b \in E |-> booksBooking[b].to - booksBooking[b].from]
    OBVIOUS
  <1>6. IsFiniteSet(E) /\ E \subseteq Books!Exists
    BY <1>1, EarningExist
  <1>7. MaxMonth \in Nat /\ MonthLength \in Nat /\ Books!Month = 1 .. MaxMonth
    BY MonthsFinite, BooksAssumption
  <1>8. ASSUME NEW n \in 0 .. MaxMonth, NEW b \in E
        PROVE  F[n][b] = Before(b, n * MonthLength) /\ F[n][b] \in Int
    <2>1. F[n][b] = Before(b, n * MonthLength)
      BY <1>2
    <2>2. n * MonthLength \in Int
      BY <1>7
    <2>3. booksBooking[b].from \in Int /\ booksBooking[b].to \in Int
      BY <1>6, StayIs
    <2> QED BY <2>1, <2>2, <2>3 DEF Before, Lesser
  <1>9. \A n \in 0 .. MaxMonth : G[n] \in Int
    BY <1>3, <1>6, <1>8, SumInt
  <1>10. ASSUME NEW m \in 1 .. MaxMonth PROVE k[m] = G[m] - G[m - 1]
    <2>1. m \in 0 .. MaxMonth /\ m - 1 \in 0 .. MaxMonth /\ m \in Books!Month
      BY <1>7
    <2>2. PICK f, g : f = F[m] /\ g = F[m - 1]
      OBVIOUS
    <2>3. /\ \A b \in Books!Earning : f[b] = Before(b, m * MonthLength)
          /\ \A b \in Books!Earning : g[b] = Before(b, (m - 1) * MonthLength)
      BY <1>1, <1>8, <2>1, <2>2
    <2>4. Books!NightsBooked(m) = Sum(f, E) - Sum(g, E)
      BY <1>1, <2>1, <2>3, NightsOfMonth
    <2> QED BY <1>3, <1>4, <2>1, <2>2, <2>4
  <1>11. Sum(k, 1 .. MaxMonth) = G[MaxMonth] - G[0]
    BY <1>7, <1>9, <1>10, SumOfSteps
  <1>12. G[0] = 0
    <2>1. ASSUME NEW b \in E PROVE F[0][b] = 0
      <3>1. F[0][b] = Before(b, 0 * MonthLength) /\ 0 * MonthLength = 0
        BY <1>7, <1>8
      <3>2. booksBooking[b].from \in Nat /\ booksBooking[b].to \in Nat
        BY <1>6, StayIs
      <3> QED BY <3>1, <3>2 DEF Before, Lesser
    <2>2. Sum(F[0], E) = 0
      BY <1>6, <2>1, SumOfZeros
    <2> QED BY <1>3, <1>7, <2>2
  <1>13. G[MaxMonth] = Sum(l, E)
    <2>1. ASSUME NEW b \in E PROVE F[MaxMonth][b] = l[b]
      <3>1. F[MaxMonth][b] = Before(b, MaxMonth * MonthLength) /\ MaxMonth * MonthLength \in Int
        BY <1>7, <1>8
      <3>2. /\ booksBooking[b].from \in Nat /\ booksBooking[b].to \in Nat
            /\ booksBooking[b].from < booksBooking[b].to /\ booksBooking[b].to <= MaxMonth * MonthLength
        BY <1>6, StayIs
      <3> QED BY <1>5, <3>1, <3>2 DEF Before, Lesser
    <2>2. Sum(F[MaxMonth], E) = Sum(l, E)
      BY <2>1, SumSame
    <2> QED BY <1>3, <1>7, <2>2
  <1>14. k = [m \in Books!Month |-> k[m]] /\ l = [b \in E |-> l[b]]
    BY <1>4, <1>5
  <1>15. Books!SumFunction(k) = Sum(k, Books!Month) /\ Books!SumFunction(l) = Sum(l, E)
    BY <1>14, SumIs
  <1>16. Sum(l, E) \in Int
    <2>1. \A b \in E : l[b] \in Int
      BY <1>5, <1>6, StayIs
    <2> QED BY <1>6, <2>1, SumInt
  <1>17. Books!SumFunction(k) = Books!SumFunction(l)
    BY <1>7, <1>11, <1>12, <1>13, <1>15, <1>16
  <1>18. /\ Books!SumOver(Books!Month, Books!NightsBooked) = Books!SumFunction(k)
         /\ Books!SumOver(Books!Earning, LAMBDA b : booksBooking[b].to - booksBooking[b].from) = Books!SumFunction(l)
    BY <1>1, <1>4, <1>5, Zenon DEF Books!SumOver
  <1> QED BY <1>17, <1>18

\* Whatever was booked, paid, given back and adjusted, the books agree.
LEMMA BooksBalance == ASSUME BooksInv PROVE Books!BooksAgree
  <1>1. ASSUME NEW h \in Host, NEW fx
        PROVE  LET report == Books!CommissionReport(h, fx)
                   ledger == Books!LedgerSum(h, fx)
               IN  /\ ledger.bookings = report.bookings /\ ledger.revenue = report.revenue
                   /\ report.commission - ledger.commission \in 0 .. Books!Cardinality(Books!Halves(h, fx))
                   /\ report.unpaid >= 0
    BY LedgerIs, LedgerIsShort, UnpaidIsOwed, Zenon
  <1>2. \A fx \in Books!Currency : RevenueIn(fx) /\ CommissionIn(fx)
    BY RevenueAgrees, CommissionAgrees
  <1>3. ASSUME NEW h \in Host
        PROVE  LET report == Books!SumOver(Books!Currency, LAMBDA fx : Books!CommissionReport(h, fx).revenue) IN
               /\ Books!DashboardGross(h) = report + Books!SumOver({b \in Books!Exists : booksBooking[b].host = h}, Books!Kept)
               /\ report = Books!SumOver(Books!Month, LAMBDA m : Books!EarningsByMonth(h, m))
    <2>1. Books!SumOver(Books!Currency, LAMBDA fx : Books!CommissionReport(h, fx).revenue) = Sum(TotalOf, EarnedBy(h))
      BY CurrenciesAddUp
    <2>2. Books!DashboardGross(h) = Sum(TotalOf, EarnedBy(h))
              + Books!SumOver({b \in Books!Exists : booksBooking[b].host = h}, Books!Kept)
      BY DashboardIs DEF AllOf
    <2>3. Books!SumOver(Books!Month, LAMBDA m : Books!EarningsByMonth(h, m)) = Sum(TotalOf, EarnedBy(h))
      BY ChartAddsUp
    <2> QED BY <2>1, <2>2, <2>3, Zenon
  <1> QED BY <1>1, <1>2, <1>3, MonthsAreTheOverview, HostsAreTheOverview, ReportsAreTheOverview, NightsAddUp, Zenon
        DEF Books!BooksAgree, RevenueIn, CommissionIn

\* The bookings keep to their types.
LEMMA BooksTypes == ASSUME BooksInv PROVE Books!TypeOK
  <1>1. ASSUME NEW b \in Books!Exists
        PROVE  /\ booksBooking[b].host \in Host \cup {None} /\ booksBooking[b].month \in Books!Month
               /\ booksBooking[b].rate \in Percent \cup {None}
               /\ booksBooking[b].status \in {"pending", "confirmed", "completed", "cancelled", "declined"}
               /\ Len(booksPay[b]) \in 1 .. 2
    BY TheirRows DEF Made
  <1> QED BY <1>1 DEF BooksInv, Books!TypeOK

-------------------------------------------------------------------------------
(* The payment and the books together (MCFaults)                           *)

\* The inductive invariant.
SumInv == MoneyInv /\ BooksInv

\* A step of either part leaves the other as it is.
LEMMA SumKeeps == ASSUME SumInv, [SumNext]_sumVars PROVE SumInv'
  <1>1. [Next]_vars /\ [Books!Next]_booksVars
    BY DEF SumNext, sumVars, booksVars, vars, stripeVars
  <1>2. MoneyInv'
    BY <1>1, StepTypes DEF SumInv
  <1>3. BooksInv'
    BY <1>1, BooksStep DEF SumInv
  <1> QED BY <1>2, <1>3 DEF SumInv

\* It holds at first.
LEMMA SumFirst == SumInit => SumInv
  BY PaidTypes, BooksFirst DEF SumInit, SumInv

\* Always.
LEMMA SumAlways == SumSpec => []SumInv
  <1>1. SumInv /\ [SumNext]_sumVars => SumInv'
    BY SumKeeps
  <1> QED BY SumFirst, <1>1, PTL DEF SumSpec

\* "earnings", "overview", "commission report", "accounting": whatever was booked, paid,
\* given back, adjusted and rated, the reports tell the same figures, and no amount a
\* request or an event of a payment carries leaves the total (BooksAgree).
THEOREM BooksAlwaysAgree == SumSpec => []BooksAgree
  <1>1. SumInv => BooksAgree
    <2>1. MoneyInv => TypeOK
      BY DEF MoneyInv
    <2> QED BY <2>1, BooksBalance, BooksTypes DEF SumInv, BooksAgree, TypesOK
  <1> QED BY SumAlways, <1>1, PTL

\* What the platform takes of a booking is settled when it is made: later rates,
\* payments and cancellations leave it, and only a new total moves it (BooksAreClosed).
THEOREM CommissionIsFrozen == SumSpec => BooksAreClosed
  <1>1. [SumNext]_sumVars => [Books!Next]_booksVars
    BY DEF SumNext, sumVars, booksVars, vars, stripeVars
  <1>2. SumInv /\ [SumNext]_sumVars =>
            [\A b \in Books!Exists : booksBooking[b].total = booksBooking'[b].total
                 => Books!Commission(b)' = Books!Commission(b)]_(Books!vars)
    <2> SUFFICES ASSUME SumInv, [SumNext]_sumVars, NEW b \in Books!Exists,
                        booksBooking[b].total = booksBooking'[b].total
                 PROVE  Books!Commission(b)' = Books!Commission(b)
      OBVIOUS
    <2>1. b \in Trip /\ booksBooking[b].status # "none" /\ booksBooking[b] \in Made
      BY ExistsIs DEF Books!Exists, SumInv, BooksInv
    <2>2. booksBooking'[b].rate = booksBooking[b].rate
      BY <1>1, <2>1, BooksStep DEF Settled, SumInv
    <2>3. booksBooking[b].rate # None
      BY <2>1, RateAssumption DEF Made
    <2>4. Books!Rate(b) = booksBooking[b].rate /\ Books!Rate(b)' = booksBooking[b].rate
      BY <2>2, <2>3 DEF Books!Rate
    <2> QED BY <2>4 DEF Books!Commission, Books!Share
  <1> QED BY SumAlways, <1>2, PTL DEF SumSpec, BooksAreClosed, Books!BooksAreClosed
===============================================================================
