----------------------------- MODULE StoreProofs -----------------------------
(***************************************************************************)
(* Two parts of the store that serve a request from bounded room, for      *)
(* every value of the constants: the cache stays exact, evicts no more     *)
(* than it must and implements a bounded map; and the walk of              *)
(* /get_missing_events returns only what is wanted, and all of it when     *)
(* there is room.  Proofs checked by TLAPS.                                *)
(*                                                                         *)
(* Induction over data goes by a minimal counterexample, which takes no    *)
(* operator parameter: MinimalSubset and SubsetInduction.                  *)
(***************************************************************************)
EXTENDS LRU, MissingEvents, FiniteSetTheorems, SequenceTheorems,
        WellFoundedInduction, TLAPS

-----------------------------------------------------------------------------
(* Numbers and finite sets.                                                *)

(* A set of naturals has a least element.                                  *)
LEMMA LeastNatural ==
  ASSUME NEW T \in SUBSET Nat, T # {}
  PROVE  \E x \in T : \A y \in T : x <= y
<1>1. PICK x \in T : \A y \in T : ~ (<<y, x>> \in OpToRel(<, Nat))
  BY NatLessThanWellFounded, WFMin
<1>2. \A y \in T : ~(y < x)
  BY <1>1 DEF OpToRel
<1> QED
  BY <1>2

(* And a greatest, if it is bounded: what Max chooses.                     *)
LEMMA MaxFacts ==
  ASSUME NEW T \in SUBSET Nat, T # {}, NEW b \in Nat, \A y \in T : y <= b
  PROVE  Max(T) \in T /\ \A y \in T : y <= Max(T)
<1> DEFINE U == {n \in Nat : \A y \in T : y <= n}
<1>1. PICK m \in U : \A n \in U : m <= n
  <2>1. U \in SUBSET Nat /\ b \in U
    OBVIOUS
  <2> HIDE DEF U
  <2> QED
    BY <2>1, LeastNatural
<1>2. m \in T
  <2> SUFFICES ASSUME m \notin T PROVE FALSE
    OBVIOUS
  <2>1. PICK t \in T : TRUE
    OBVIOUS
  <2>2. \A y \in T : y < m
    BY <1>1
  <2>3. m - 1 \in U
    BY <2>1, <2>2
  <2> QED
    BY <1>1, <2>3
<1>3. \E x \in T : \A y \in T : x >= y
  BY <1>1, <1>2
<1> QED
  BY <1>3 DEF Max

(* A family of subsets of a finite set has a minimal member.               *)
LEMMA MinimalSubset ==
  ASSUME NEW D, IsFiniteSet(D), NEW Q \in SUBSET (SUBSET D), Q # {}
  PROVE  \E t \in Q : \A a \in t : t \ {a} \notin Q
<1>1. IsWellFoundedOn(StrictSubsetOrdering(D), FiniteSubsetsOf(D))
  BY FS_StrictSubsetOrderingWellFounded
<1>2. Q \subseteq FiniteSubsetsOf(D)
  BY FS_Subset DEF FiniteSubsetsOf
<1>3. PICK t \in Q : \A u \in Q : ~ (<<u, t>> \in StrictSubsetOrdering(D))
  BY <1>1, <1>2, WFMin
<1>4. ASSUME NEW a \in t, t \ {a} \in Q PROVE FALSE
  <2>1. <<t \ {a}, t>> \in (SUBSET D) \X (SUBSET D) /\ t \ {a} \subseteq t /\ t \ {a} # t
    BY <1>4
  <2>2. <<t \ {a}, t>> \in StrictSubsetOrdering(D)
    BY <2>1 DEF StrictSubsetOrdering
  <2> QED
    BY <1>3, <1>4, <2>2
<1> QED
  BY <1>4

(* Induction over the subsets of a finite set.                             *)
LEMMA SubsetInduction ==
  ASSUME NEW D, IsFiniteSet(D), NEW P \in SUBSET (SUBSET D), {} \in P,
         \A t \in P : \A a \in D \ t : t \cup {a} \in P
  PROVE  P = SUBSET D
<1> SUFFICES ASSUME P # SUBSET D PROVE FALSE
  OBVIOUS
<1> DEFINE Q == (SUBSET D) \ P
<1>1. Q # {} /\ Q \in SUBSET (SUBSET D)
  OBVIOUS
<1>2. PICK t \in Q : \A a \in t : t \ {a} \notin Q
  <2> HIDE DEF Q
  <2> QED
    BY <1>1, MinimalSubset
<1>3. PICK a \in t : TRUE
  OBVIOUS
<1>4. t \ {a} \in P /\ a \in D \ (t \ {a}) /\ (t \ {a}) \cup {a} = t
  BY <1>2, <1>3
<1> QED
  BY <1>4

(* A finite set of naturals has a greatest element.                        *)
LEMMA GreatestNatural ==
  ASSUME NEW D \in SUBSET Nat, IsFiniteSet(D), D # {}
  PROVE  \E m \in D : \A x \in D : x <= m
<1> DEFINE P == {t \in SUBSET D : t = {} \/ \E m \in t : \A x \in t : x <= m}
<1>1. {} \in P
  OBVIOUS
<1>2. ASSUME NEW t \in P, NEW a \in D \ t PROVE t \cup {a} \in P
  <2>1. CASE t = {}
    BY <2>1
  <2>2. CASE t # {}
    <3>1. PICK m \in t : \A x \in t : x <= m
      BY <2>2
    <3>2. m \in Nat /\ a \in Nat /\ \A x \in t : x \in Nat
      OBVIOUS
    <3>3. CASE a <= m
      BY <3>1, <3>2, <3>3
    <3>4. CASE m <= a
      <4>1. \A x \in t \cup {a} : x <= a
        BY <3>1, <3>2, <3>4
      <4> QED
        BY <4>1
    <3> QED
      BY <3>2, <3>3, <3>4
  <2> QED
    BY <2>1, <2>2
<1>3. P = SUBSET D
  <2>1. P \in SUBSET (SUBSET D)
    OBVIOUS
  <2> HIDE DEF P
  <2> QED
    BY <1>1, <1>2, <2>1, SubsetInduction
<1> QED
  BY <1>3

-----------------------------------------------------------------------------
(* Sums over finite sets.                                                  *)

(* A table of the sums of w over the subsets of D.                         *)
Adds(g, D, w) ==
  /\ g \in [SUBSET D -> Nat]
  /\ g[{}] = 0
  /\ \A s \in SUBSET D : \A a \in D \ s : g[s \cup {a}] = g[s] + w[a]

(* Every finite set has such a table.                                      *)
LEMMA AddsExists ==
  ASSUME NEW D, IsFiniteSet(D), NEW w, \A x \in D : w[x] \in Nat
  PROVE  \E g : Adds(g, D, w)
<1> DEFINE P == {t \in SUBSET D : \E g : Adds(g, t, w)}
<1>1. {} \in P
  <2>1. Adds([t \in SUBSET {} |-> 0], {}, w)
    BY DEF Adds
  <2> QED
    BY <2>1
<1>2. ASSUME NEW t \in P, NEW a \in D \ t PROVE t \cup {a} \in P
  <2>1. PICK g : Adds(g, t, w)
    OBVIOUS
  <2> DEFINE h == [s \in SUBSET (t \cup {a}) |-> IF a \in s THEN g[s \ {a}] + w[a] ELSE g[s]]
  <2>2. h \in [SUBSET (t \cup {a}) -> Nat]
    BY <2>1 DEF Adds
  <2>3. h[{}] = 0
    BY <2>1 DEF Adds
  <2>4. ASSUME NEW s \in SUBSET (t \cup {a}), NEW b \in (t \cup {a}) \ s
        PROVE  h[s \cup {b}] = h[s] + w[b]
    <3>1. CASE b = a
      <4>1. (s \cup {b}) \ {a} = s /\ s \in SUBSET t
        BY <3>1
      <4>2. h[s \cup {b}] = g[s] + w[a] /\ h[s] = g[s]
        BY <3>1, <4>1
      <4> QED
        BY <3>1, <4>2
    <3>2. CASE b # a /\ a \in s
      <4>1. (s \cup {b}) \ {a} = (s \ {a}) \cup {b} /\ s \ {a} \in SUBSET t /\ b \in t \ (s \ {a})
        BY <3>2
      <4>2. g[(s \ {a}) \cup {b}] = g[s \ {a}] + w[b]
        BY <2>1, <4>1 DEF Adds
      <4>3. h[s \cup {b}] = g[(s \ {a}) \cup {b}] + w[a] /\ h[s] = g[s \ {a}] + w[a]
        BY <3>2, <4>1
      <4>4. g[s \ {a}] \in Nat /\ w[a] \in Nat /\ w[b] \in Nat
        BY <2>1, <4>1 DEF Adds
      <4> HIDE DEF h
      <4> QED
        BY <4>2, <4>3, <4>4
    <3>3. CASE b # a /\ a \notin s
      <4>1. s \in SUBSET t /\ b \in t \ s /\ s \cup {b} \in SUBSET (t \cup {a}) /\ a \notin s \cup {b}
        BY <3>3
      <4>2. g[s \cup {b}] = g[s] + w[b]
        BY <2>1, <4>1 DEF Adds
      <4> QED
        BY <3>3, <4>1, <4>2
    <3> QED
      BY <3>1, <3>2, <3>3
  <2>5. Adds(h, t \cup {a}, w)
    <3> HIDE DEF h
    <3> QED
      BY <2>2, <2>3, <2>4 DEF Adds
  <2> QED
    BY <2>5
<1>3. P = SUBSET D
  <2>1. P \in SUBSET (SUBSET D)
    OBVIOUS
  <2> HIDE DEF P
  <2> QED
    BY <1>1, <1>2, <2>1, SubsetInduction
<1> QED
  BY <1>3

(* And but one: a table for a larger set agrees with it.                   *)
LEMMA AddsUnique ==
  ASSUME NEW D, NEW E, IsFiniteSet(D), D \subseteq E, NEW w, NEW g, Adds(g, D, w), NEW h, Adds(h, E, w)
  PROVE  g[D] = h[D]
<1> DEFINE P == {t \in SUBSET D : g[t] = h[t]}
<1>1. {} \in P
  BY DEF Adds
<1>2. ASSUME NEW t \in P, NEW a \in D \ t PROVE t \cup {a} \in P
  <2>1. g[t \cup {a}] = g[t] + w[a]
    BY DEF Adds
  <2>2. t \in SUBSET E /\ a \in E \ t
    OBVIOUS
  <2>3. h[t \cup {a}] = h[t] + w[a]
    BY <2>2 DEF Adds
  <2> QED
    BY <2>1, <2>3
<1>3. P = SUBSET D
  <2>1. P \in SUBSET (SUBSET D)
    OBVIOUS
  <2> HIDE DEF P
  <2> QED
    BY <1>1, <1>2, <2>1, SubsetInduction
<1> QED
  BY <1>3

(* The sum of w over D.                                                    *)
Sum(D, w) == CHOOSE n : \E g : Adds(g, D, w) /\ n = g[D]

(* It can be read off a table for any larger set.                          *)
LEMMA SumIs ==
  ASSUME NEW D, NEW E, IsFiniteSet(E), D \subseteq E, NEW w, NEW h, Adds(h, E, w),
         \A x \in E : w[x] \in Nat
  PROVE  Sum(D, w) = h[D]
<1>0. IsFiniteSet(D)
  BY FS_Subset
<1>1. \E g : Adds(g, D, w)
  BY <1>0, AddsExists
<1>2. PICK g : Adds(g, D, w) /\ Sum(D, w) = g[D]
  BY <1>1 DEF Sum
<1> QED
  BY <1>0, <1>2, AddsUnique

(* Nothing sums to 0, and an element adds its own weight.                  *)
LEMMA SumFacts ==
  ASSUME NEW D, IsFiniteSet(D), NEW w, \A x \in D : w[x] \in Nat
  PROVE  /\ Sum({}, w) = 0
         /\ \A s \in SUBSET D : Sum(s, w) \in Nat
         /\ \A s \in SUBSET D : \A a \in D \ s : Sum(s \cup {a}, w) = Sum(s, w) + w[a]
<1>1. PICK h : Adds(h, D, w)
  BY AddsExists
<1>2. \A s \in SUBSET D : Sum(s, w) = h[s]
  BY <1>1, SumIs
<1>3. {} \in SUBSET D /\ \A s \in SUBSET D : \A a \in D \ s : s \cup {a} \in SUBSET D
  OBVIOUS
<1>4. h \in [SUBSET D -> Nat] /\ h[{}] = 0
  BY <1>1 DEF Adds
<1>5. \A s \in SUBSET D : \A a \in D \ s : h[s \cup {a}] = h[s] + w[a]
  BY <1>1 DEF Adds
<1> QED
  BY <1>2, <1>3, <1>4, <1>5

(* The table by which the folds of the community modules are defined.      *)
IsTable(g, D, w) ==
  g = [s \in SUBSET D |-> IF s = {} THEN 0
         ELSE w[CHOOSE x \in s : TRUE] + g[s \ {CHOOSE x \in s : TRUE}]]

(* That recursion has a solution.                                          *)
LEMMA TableExists ==
  ASSUME NEW D, IsFiniteSet(D), NEW w, \A x \in D : w[x] \in Nat
  PROVE  \E g : IsTable(g, D, w)
<1>1. PICK g : Adds(g, D, w)
  BY AddsExists
<1>2. ASSUME NEW s \in SUBSET D
      PROVE  g[s] = IF s = {} THEN 0
                       ELSE w[CHOOSE x \in s : TRUE] + g[s \ {CHOOSE x \in s : TRUE}]
  <2>1. CASE s = {}
    BY <1>1, <2>1 DEF Adds
  <2>2. CASE s # {}
    <3> DEFINE a == CHOOSE x \in s : TRUE
    <3>1. a \in s
      BY <2>2
    <3>0. g \in [SUBSET D -> Nat]
      BY <1>1 DEF Adds
    <3> HIDE DEF a
    <3>2. s \ {a} \in SUBSET D /\ a \in D \ (s \ {a}) /\ (s \ {a}) \cup {a} = s
      BY <3>1
    <3>3. g[(s \ {a}) \cup {a}] = g[s \ {a}] + w[a]
      BY <1>1, <3>2 DEF Adds
    <3>4. g[s \ {a}] \in Nat /\ w[a] \in Nat
      BY <3>0, <3>2
    <3>5. g[s] = g[s \ {a}] + w[a]
      BY <3>2, <3>3
    <3>6. g[s] = w[a] + g[s \ {a}]
      BY <3>4, <3>5
    <3> QED
      BY <2>2, <3>6 DEF a
  <2> QED
    BY <2>1, <2>2
<1>3. IsTable(g, D, w)
  BY <1>1, <1>2 DEF Adds, IsTable
<1> QED
  BY <1>3

(* And every solution ends in the sum, whatever order it took.             *)
LEMMA TableIsSum ==
  ASSUME NEW D, IsFiniteSet(D), NEW w, \A x \in D : w[x] \in Nat,
         NEW g, IsTable(g, D, w)
  PROVE  g[D] = Sum(D, w)
<1> DEFINE Q == {t \in SUBSET D : g[t] # Sum(t, w)}
<1>1. ASSUME Q # {} PROVE FALSE
  <2>1. PICK t \in Q : \A a \in t : t \ {a} \notin Q
    <3>1. Q \in SUBSET (SUBSET D)
      OBVIOUS
    <3> HIDE DEF Q
    <3> QED
      BY <1>1, <3>1, MinimalSubset
  <2>2. t # {}
    <3>1. g[{}] = 0
      BY DEF IsTable
    <3>2. Sum({}, w) = 0
      BY SumFacts
    <3> QED
      BY <3>1, <3>2
  <2> DEFINE a == CHOOSE x \in t : TRUE
  <2>3. a \in t
    BY <2>2
  <2>4. g[t] = w[a] + g[t \ {a}]
    BY <2>2 DEF IsTable
  <2>5. t \in SUBSET D
    OBVIOUS
  <2> HIDE DEF a
  <2>6. t \ {a} \in SUBSET D /\ a \in D \ (t \ {a}) /\ (t \ {a}) \cup {a} = t
    BY <2>3, <2>5
  <2>7. g[t \ {a}] = Sum(t \ {a}, w)
    BY <2>1, <2>3, <2>6
  <2>8. Sum(t, w) = Sum(t \ {a}, w) + w[a] /\ Sum(t \ {a}, w) \in Nat /\ w[a] \in Nat
    <3>1. /\ \A s \in SUBSET D : Sum(s, w) \in Nat
          /\ \A s \in SUBSET D : \A b \in D \ s : Sum(s \cup {b}, w) = Sum(s, w) + w[b]
      BY SumFacts
    <3>2. Sum((t \ {a}) \cup {a}, w) = Sum(t \ {a}, w) + w[a]
      BY <2>6, <3>1
    <3> QED
      BY <2>6, <3>1, <3>2
  <2>9. g[t] = Sum(t, w)
    BY <2>4, <2>7, <2>8
  <2> QED
    BY <2>9
<1> QED
  BY <1>1

(* A sum does not depend on how what is summed is indexed.                 *)
LEMMA SumReindex ==
  ASSUME NEW D, IsFiniteSet(D), NEW w, NEW v, NEW f,
         \A x, y \in D : f[x] = f[y] => x = y,
         \A x \in D : w[x] = v[f[x]] /\ v[f[x]] \in Nat
  PROVE  Sum(D, w) = Sum({f[x] : x \in D}, v)
<1> DEFINE Im(t) == {f[x] : x \in t}
           P == {t \in SUBSET D : Sum(t, w) = Sum(Im(t), v)}
<1>0. IsFiniteSet(Im(D)) /\ \A x \in Im(D) : v[x] \in Nat
  <2>1. IsFiniteSet(Im(D))
    <3> DEFINE h == [x \in D |-> f[x]]
    <3>1. h \in [D -> Im(D)] /\ \A y \in Im(D) : \E x \in D : h[x] = y
      OBVIOUS
    <3>2. h \in Surjection(D, Im(D))
      <4> HIDE DEF h, Im
      <4> QED
        BY <3>1 DEF Surjection
    <3> HIDE DEF h, Im
    <3> QED
      BY <3>2, FS_Surjection
  <2> QED
    BY <2>1
<1>1. {} \in P
  <2>1. Im({}) = {}
    OBVIOUS
  <2>2. Sum({}, w) = 0 /\ Sum({}, v) = 0
    BY <1>0, SumFacts
  <2> QED
    BY <2>1, <2>2
<1>2. ASSUME NEW t \in P, NEW a \in D \ t PROVE t \cup {a} \in P
  <2>1. t \in SUBSET D /\ Sum(t, w) = Sum(Im(t), v)
    OBVIOUS
  <2>2. Im(t) \in SUBSET Im(D) /\ f[a] \in Im(D) \ Im(t) /\ Im(t \cup {a}) = Im(t) \cup {f[a]}
    BY <2>1
  <2>3. Sum(t \cup {a}, w) = Sum(t, w) + w[a]
    BY <2>1, SumFacts
  <2>4. Sum(Im(t) \cup {f[a]}, v) = Sum(Im(t), v) + v[f[a]]
    <3> HIDE DEF Im
    <3> QED
      BY <1>0, <2>2, SumFacts
  <2>5. t \cup {a} \in SUBSET D /\ w[a] = v[f[a]]
    BY <2>1
  <2> HIDE DEF Im
  <2> QED
    BY <2>1, <2>2, <2>3, <2>4, <2>5
<1>3. P = SUBSET D
  <2>1. P \in SUBSET (SUBSET D)
    OBVIOUS
  <2> HIDE DEF P
  <2> QED
    BY <1>1, <1>2, <2>1, SubsetInduction
<1>4. D \in P
  BY <1>3
<1> QED
  BY <1>4

(* Sums over disjoint sets add up.                                         *)
LEMMA SumDisjoint ==
  ASSUME NEW A, NEW B, IsFiniteSet(A), IsFiniteSet(B), A \cap B = {},
         NEW w, \A x \in A \cup B : w[x] \in Nat
  PROVE  Sum(A \cup B, w) = Sum(A, w) + Sum(B, w)
<1> DEFINE P == {t \in SUBSET B : Sum(A \cup t, w) = Sum(A, w) + Sum(t, w)}
<1>0. IsFiniteSet(A \cup B)
  BY FS_Union
<1>1. {} \in P
  <2>1. Sum(A, w) \in Nat /\ Sum({}, w) = 0
    BY SumFacts
  <2>2. A \cup {} = A
    OBVIOUS
  <2> QED
    BY <2>1, <2>2
<1>2. ASSUME NEW t \in P, NEW a \in B \ t PROVE t \cup {a} \in P
  <2>1. A \cup t \in SUBSET (A \cup B) /\ a \in (A \cup B) \ (A \cup t)
        /\ A \cup (t \cup {a}) = (A \cup t) \cup {a}
    OBVIOUS
  <2>2. Sum((A \cup t) \cup {a}, w) = Sum(A \cup t, w) + w[a]
    <3>1. \A s \in SUBSET (A \cup B) : \A b \in (A \cup B) \ s : Sum(s \cup {b}, w) = Sum(s, w) + w[b]
      BY <1>0, SumFacts
    <3> QED
      BY <2>1, <3>1
  <2>3. Sum(t \cup {a}, w) = Sum(t, w) + w[a] /\ Sum(t, w) \in Nat
    BY SumFacts
  <2>4. Sum(A, w) \in Nat
    BY SumFacts
  <2>5. Sum(A \cup t, w) = Sum(A, w) + Sum(t, w) /\ w[a] \in Nat /\ t \cup {a} \in SUBSET B
    OBVIOUS
  <2>6. Sum(A \cup (t \cup {a}), w) = Sum(A, w) + Sum(t \cup {a}, w)
    <3>1. Sum(A \cup (t \cup {a}), w) = (Sum(A, w) + Sum(t, w)) + w[a]
      BY <2>1, <2>2, <2>5
    <3> QED
      BY <2>3, <2>4, <2>5, <3>1
  <2> QED
    BY <2>5, <2>6
<1>3. P = SUBSET B
  <2>1. P \in SUBSET (SUBSET B)
    OBVIOUS
  <2> HIDE DEF P
  <2> QED
    BY <1>1, <1>2, <2>1, SubsetInduction
<1>4. B \in P
  BY <1>3
<1> QED
  BY <1>4

(* The elements of the list, and what each of them weighs.                 *)
Entry == [key : Key, value : Value]
Sizes(s) == [i \in DOMAIN s |-> SizeOf(s[i])]

(* Sizes are naturals, and a list has finitely many.                       *)
LEMMA SizesNat ==
  ASSUME NEW s \in Seq(Entry)
  PROVE  /\ IsFiniteSet(DOMAIN s) /\ DOMAIN s = 1 .. Len(s)
         /\ \A i \in DOMAIN s : Sizes(s)[i] \in Nat /\ SizeOf(s[i]) \in Nat
<1>1. \A i \in DOMAIN s : SizeOf(s[i]) \in Nat
  <2> SUFFICES ASSUME NEW i \in DOMAIN s PROVE SizeOf(s[i]) \in Nat
    OBVIOUS
  <2>1. s[i] \in Entry
    OBVIOUS
  <2>2. s[i].value \in Value
    BY <2>1 DEF Entry
  <2> QED
    BY <2>2, SizeAssumption DEF SizeOf
<1>2. DOMAIN s = 1 .. Len(s) /\ Len(s) \in Nat
  OBVIOUS
<1>3. IsFiniteSet(1 .. Len(s))
  BY <1>2, FS_Interval
<1> QED
  BY <1>1, <1>2, <1>3 DEF Sizes

(* Total, a fold over the list, is the sum of the sizes.                   *)
LEMMA TotalIsSum ==
  ASSUME NEW s \in Seq(Entry)
  PROVE  Total(s) = Sum(DOMAIN s, Sizes(s))
<1> DEFINE D == DOMAIN s
           w == Sizes(s)
           IsFold(g) == g = [t \in SUBSET D |-> IF t = {} THEN 0
                       ELSE SizeOf(s[CHOOSE x \in t : TRUE]) + g[t \ {CHOOSE x \in t : TRUE}]]
<1>1. Total(s) = (CHOOSE g : IsFold(g))[DOMAIN s]
  BY DEF Total, FoldSeq, FoldFunction, FoldFunctionOnSet, MapThenFoldSet
<1>2. ASSUME NEW g PROVE IsFold(g) <=> IsTable(g, D, w)
  <2>1. ASSUME NEW t \in SUBSET D, t # {}
        PROVE  w[CHOOSE x \in t : TRUE] = SizeOf(s[CHOOSE x \in t : TRUE])
    BY <2>1 DEF Sizes
  <2> HIDE DEF w
  <2> QED
    BY <2>1 DEF IsTable
<1> HIDE DEF D, w, IsFold
<1>3. IsFiniteSet(D) /\ \A x \in D : w[x] \in Nat
  BY SizesNat DEF D, w
<1>4. \E g : IsTable(g, D, w)
  BY <1>3, TableExists
<1>5. IsTable(CHOOSE g : IsFold(g), D, w)
  BY <1>2, <1>4
<1>6. (CHOOSE g : IsFold(g))[D] = Sum(D, w)
  BY <1>3, <1>5, TableIsSum
<1> QED
  BY <1>1, <1>6 DEF D, w

(* The total of two lists.                                                 *)
LEMMA TotalCat ==
  ASSUME NEW s \in Seq(Entry), NEW t \in Seq(Entry)
  PROVE  Total(s \o t) = Total(s) + Total(t)
<1> DEFINE u == s \o t
           m == Len(s)
           n == Len(t)
           f == [i \in 1 .. n |-> i + m]
           id == [i \in 1 .. m |-> i]
<1>1. u \in Seq(Entry) /\ Len(u) = m + n /\ m \in Nat /\ n \in Nat
  OBVIOUS
<1>2. \A i \in 1 .. m : u[i] = s[i]
  OBVIOUS
<1>3. \A i \in 1 .. n : u[i + m] = t[i]
  OBVIOUS
<1> HIDE DEF u
<1>4. 1 .. (m + n) = (1 .. m) \cup ((m + 1) .. (m + n)) /\ (1 .. m) \cap ((m + 1) .. (m + n)) = {}
  BY <1>1
<1>5. IsFiniteSet(1 .. m) /\ IsFiniteSet((m + 1) .. (m + n)) /\ IsFiniteSet(1 .. n)
  BY <1>1, FS_Interval
<1>6. DOMAIN u = 1 .. (m + n) /\ \A i \in DOMAIN u : Sizes(u)[i] \in Nat
  BY <1>1, SizesNat
<1>7. Sum(DOMAIN u, Sizes(u)) = Sum(1 .. m, Sizes(u)) + Sum((m + 1) .. (m + n), Sizes(u))
  <2> DEFINE A == 1 .. m
             B == (m + 1) .. (m + n)
             w == Sizes(u)
  <2>1. IsFiniteSet(A) /\ IsFiniteSet(B) /\ A \cap B = {} /\ DOMAIN u = A \cup B
        /\ \A x \in A \cup B : w[x] \in Nat
    BY <1>4, <1>5, <1>6
  <2> HIDE DEF A, B, w
  <2>2. Sum(A \cup B, w) = Sum(A, w) + Sum(B, w)
    BY <2>1, SumDisjoint
  <2> QED
    BY <2>1, <2>2 DEF A, B, w
<1>8. Sum(1 .. m, Sizes(u)) = Sum(1 .. m, Sizes(s))
  <2>1. {id[x] : x \in 1 .. m} = 1 .. m
    OBVIOUS
  <2>2. \A x, y \in 1 .. m : id[x] = id[y] => x = y
    OBVIOUS
  <2>3. \A x \in 1 .. m : Sizes(u)[x] = Sizes(s)[id[x]] /\ Sizes(s)[id[x]] \in Nat
    <3>1. \A x \in 1 .. m : x \in DOMAIN s /\ x \in DOMAIN u /\ id[x] = x
      BY <1>1, <1>6
    <3>2. \A x \in 1 .. m : Sizes(s)[x] \in Nat
      BY <3>1, SizesNat
    <3>3. \A x \in 1 .. m : Sizes(u)[x] = SizeOf(u[x]) /\ Sizes(s)[x] = SizeOf(s[x])
      BY <3>1 DEF Sizes
    <3> QED
      BY <1>2, <3>1, <3>2, <3>3
  <2> DEFINE D == 1 .. m
             w == Sizes(u)
             v == Sizes(s)
  <2>4. Sum(D, w) = Sum({id[x] : x \in D}, v)
    <3>1. IsFiniteSet(D) /\ (\A x, y \in D : id[x] = id[y] => x = y)
          /\ \A x \in D : w[x] = v[id[x]] /\ v[id[x]] \in Nat
      BY <1>5, <2>2, <2>3
    <3> HIDE DEF D, w, v, id
    <3> QED
      BY <3>1, SumReindex
  <2> QED
    BY <2>1, <2>4
<1>9. Sum((m + 1) .. (m + n), Sizes(u)) = Sum(1 .. n, Sizes(t))
  <2>1. {f[x] : x \in 1 .. n} = (m + 1) .. (m + n)
    <3>1. \A x \in 1 .. n : f[x] \in (m + 1) .. (m + n)
      BY <1>1
    <3>2. \A y \in (m + 1) .. (m + n) : y - m \in 1 .. n /\ f[y - m] = y
      BY <1>1
    <3> HIDE DEF f
    <3> QED
      BY <3>1, <3>2
  <2>2. \A x, y \in 1 .. n : f[x] = f[y] => x = y
    BY <1>1
  <2>3. \A x \in 1 .. n : Sizes(t)[x] = Sizes(u)[f[x]] /\ Sizes(u)[f[x]] \in Nat
    <3>1. \A x \in 1 .. n : x \in DOMAIN t /\ x + m \in DOMAIN u /\ f[x] = x + m
      BY <1>1, <1>6
    <3>2. \A x \in 1 .. n : Sizes(u)[x + m] \in Nat
      BY <1>1, <3>1, SizesNat
    <3>3. \A x \in 1 .. n : Sizes(u)[x + m] = SizeOf(u[x + m]) /\ Sizes(t)[x] = SizeOf(t[x])
      BY <3>1 DEF Sizes
    <3> QED
      BY <1>3, <3>1, <3>2, <3>3
  <2> DEFINE D == 1 .. n
             w == Sizes(t)
             v == Sizes(u)
  <2>4. Sum(D, w) = Sum({f[x] : x \in D}, v)
    <3>1. IsFiniteSet(D) /\ (\A x, y \in D : f[x] = f[y] => x = y)
          /\ \A x \in D : w[x] = v[f[x]] /\ v[f[x]] \in Nat
      BY <1>5, <2>2, <2>3
    <3> HIDE DEF D, w, v, f
    <3> QED
      BY <3>1, SumReindex
  <2> QED
    BY <2>1, <2>4
<1>10. Total(u) = Sum(DOMAIN u, Sizes(u)) /\ Total(s) = Sum(1 .. m, Sizes(s))
       /\ Total(t) = Sum(1 .. n, Sizes(t))
  <2>1. DOMAIN s = 1 .. m /\ DOMAIN t = 1 .. n
    OBVIOUS
  <2> QED
    BY <1>1, <2>1, TotalIsSum
<1>11. Total(u) = Total(s) + Total(t)
  BY <1>7, <1>8, <1>9, <1>10
<1> QED
  BY <1>11 DEF u

(* The totals of no entry and of one.                                      *)
LEMMA TotalFacts ==
  /\ Total(<< >>) = 0
  /\ \A e \in Entry : Total(<<e>>) = SizeOf(e)
  /\ \A s \in Seq(Entry) : Total(s) \in Nat
<1>1. \A s \in Seq(Entry) : Total(s) \in Nat
  <2> TAKE s \in Seq(Entry)
  <2>1. \A x \in SUBSET DOMAIN s : Sum(x, Sizes(s)) \in Nat
    BY SizesNat, SumFacts
  <2> QED
    BY <2>1, TotalIsSum
<1>2. Total(<< >>) = 0
  <2>1. << >> \in Seq(Entry) /\ << >> \o << >> = << >>
    OBVIOUS
  <2>2. Total(<< >>) = Total(<< >>) + Total(<< >>)
    BY <2>1, TotalCat
  <2>3. Total(<< >>) \in Nat
    BY <1>1, <2>1
  <2> QED
    BY <2>2, <2>3
<1>3. ASSUME NEW e \in Entry PROVE Total(<<e>>) = SizeOf(e)
  <2> DEFINE s == <<e>>
  <2>1. s \in Seq(Entry) /\ DOMAIN s = {1} /\ s[1] = e
    OBVIOUS
  <2> HIDE DEF s
  <2>2. Sum({} \cup {1}, Sizes(s)) = Sum({}, Sizes(s)) + Sizes(s)[1] /\ Sum({}, Sizes(s)) = 0
    <3>1. IsFiniteSet({1}) /\ \A i \in {1} : Sizes(s)[i] \in Nat
      BY <2>1, SizesNat
    <3> DEFINE w == Sizes(s)
               D == {1}
    <3>2. /\ Sum({}, w) = 0
          /\ \A x \in SUBSET D : \A a \in D \ x : Sum(x \cup {a}, w) = Sum(x, w) + w[a]
      <4>1. IsFiniteSet(D) /\ \A i \in D : w[i] \in Nat
        BY <3>1
      <4> HIDE DEF w, D
      <4> QED
        BY <4>1, SumFacts
    <3> QED
      BY <3>2
  <2>3. Sizes(s)[1] = SizeOf(e) /\ Sizes(s)[1] \in Nat
    BY <2>1, SizesNat DEF Sizes
  <2>4. {} \cup {1} = {1}
    OBVIOUS
  <2>5. Total(s) = SizeOf(e)
    BY <2>1, <2>2, <2>3, <2>4, TotalIsSum
  <2> QED
    BY <2>5 DEF s
<1> QED
  BY <1>1, <1>2, <1>3

(* Sequences.                                                              *)

(* No key twice.                                                           *)
KeyedOnce(s) == \A i, j \in DOMAIN s : s[i].key = s[j].key => i = j

(* Cutting a list in two.                                                  *)
LEMMA CutTotal ==
  ASSUME NEW s \in Seq(Entry), NEW n \in 0 .. Len(s)
  PROVE  /\ SubSeq(s, 1, n) \in Seq(Entry) /\ SubSeq(s, n + 1, Len(s)) \in Seq(Entry)
         /\ Total(s) = Total(SubSeq(s, 1, n)) + Total(SubSeq(s, n + 1, Len(s)))
         /\ Total(SubSeq(s, 1, n)) \in Nat /\ Total(SubSeq(s, n + 1, Len(s))) \in Nat
<1> DEFINE p == SubSeq(s, 1, n)
           q == SubSeq(s, n + 1, Len(s))
<1>1. p \in Seq(Entry) /\ q \in Seq(Entry) /\ s = p \o q
  <2>1. p \in Seq(Entry) /\ q \in Seq(Entry)
    OBVIOUS
  <2>2. 1 \in 1 .. Len(s) + 1 /\ n \in 1 - 1 .. Len(s) /\ Len(s) \in n .. Len(s)
    OBVIOUS
  <2>3. p \o q = SubSeq(s, 1, Len(s))
    BY <2>2, ConcatAdjacentSubSeq
  <2>4. SubSeq(s, 1, Len(s)) = s
    BY SubSeqFull
  <2> QED
    BY <2>1, <2>3, <2>4
<1> HIDE DEF p, q
<1>2. Total(s) = Total(p) + Total(q)
  BY <1>1, TotalCat
<1>3. Total(p) \in Nat /\ Total(q) \in Nat
  BY <1>1, TotalFacts
<1> QED
  BY <1>1, <1>2, <1>3 DEF p, q

(* The list without its element at i.                                      *)
LEMMA RemoveFacts ==
  ASSUME NEW s \in Seq(Entry), NEW i \in DOMAIN s
  PROVE  /\ RemoveAt(s, i) \in Seq(Entry)
         /\ Len(RemoveAt(s, i)) = Len(s) - 1
         /\ \A j \in 1 .. (Len(s) - 1) : RemoveAt(s, i)[j] = IF j < i THEN s[j] ELSE s[j + 1]
<1> DEFINE p == SubSeq(s, 1, i - 1)
           q == SubSeq(s, i + 1, Len(s))
<1>1. p \in Seq(Entry) /\ Len(p) = i - 1 /\ \A j \in 1 .. i - 1 : p[j] = s[j]
  OBVIOUS
<1>2. q \in Seq(Entry) /\ Len(q) = Len(s) - i /\ \A j \in 1 .. Len(s) - i : q[j] = s[i + j]
  OBVIOUS
<1>3. RemoveAt(s, i) = p \o q
  BY DEF RemoveAt
<1>4. i \in 1 .. Len(s) /\ Len(s) \in Nat
  OBVIOUS
<1> HIDE DEF p, q
<1>5. p \o q \in Seq(Entry) /\ Len(p \o q) = Len(s) - 1
  BY <1>1, <1>2, <1>4
<1>6. \A j \in 1 .. Len(p) + Len(q) :
        (p \o q)[j] = IF j <= Len(p) THEN p[j] ELSE q[j - Len(p)]
  BY <1>1, <1>2, ConcatProperties
<1>7. ASSUME NEW j \in 1 .. (Len(s) - 1)
      PROVE  (p \o q)[j] = IF j < i THEN s[j] ELSE s[j + 1]
  <2>1. j \in 1 .. Len(p) + Len(q)
    BY <1>1, <1>2, <1>4
  <2>2. CASE j < i
    BY <1>1, <1>4, <1>6, <2>1, <2>2
  <2>3. CASE ~(j < i)
    <3>1. ~(j <= Len(p)) /\ j - Len(p) \in 1 .. Len(s) - i /\ i + (j - Len(p)) = j + 1
      BY <1>1, <1>4, <2>3
    <3>2. (p \o q)[j] = q[j - Len(p)]
      BY <1>6, <2>1, <3>1
    <3>3. q[j - Len(p)] = s[i + (j - Len(p))]
      BY <1>2, <3>1
    <3> QED
      BY <2>3, <3>1, <3>2, <3>3
  <2> QED
    BY <2>2, <2>3
<1> QED
  BY <1>3, <1>5, <1>7

(* It weighs that much less.                                               *)
LEMMA RemoveTotal ==
  ASSUME NEW s \in Seq(Entry), NEW i \in DOMAIN s
  PROVE  Total(s) = Total(RemoveAt(s, i)) + SizeOf(s[i]) /\ Total(RemoveAt(s, i)) \in Nat
<1> DEFINE p == SubSeq(s, 1, i - 1)
           q == SubSeq(s, i + 1, Len(s))
           e == s[i]
<1>1. p \in Seq(Entry) /\ q \in Seq(Entry) /\ e \in Entry /\ <<e>> \in Seq(Entry)
  OBVIOUS
<1>2. s = (p \o <<e>>) \o q
  <2>1. i \in 1 .. Len(s) /\ 1 \in 1 .. Len(s) /\ i \in 1 - 1 .. Len(s) /\ Len(s) \in i .. Len(s)
        /\ 1 \in 1 .. Len(s) + 1
    OBVIOUS
  <2>2. SubSeq(s, 1, i) = p \o <<e>>
    BY <2>1, SubSeqRecursiveSecond
  <2>3. SubSeq(s, 1, i) \o q = SubSeq(s, 1, Len(s))
    BY <2>1, ConcatAdjacentSubSeq
  <2>4. SubSeq(s, 1, Len(s)) = s
    BY SubSeqFull
  <2> QED
    BY <2>2, <2>3, <2>4
<1>3. RemoveAt(s, i) = p \o q
  BY DEF RemoveAt
<1>6. SizeOf(e) \in Nat
  BY SizesNat
<1> HIDE DEF p, q, e
<1>4. p \o <<e>> \in Seq(Entry) /\ p \o q \in Seq(Entry)
  BY <1>1
<1>5. Total(s) = (Total(p) + SizeOf(e)) + Total(q) /\ Total(p \o q) = Total(p) + Total(q)
  <2>1. Total(s) = Total(p \o <<e>>) + Total(q)
    BY <1>1, <1>2, <1>4, TotalCat
  <2>2. Total(p \o <<e>>) = Total(p) + Total(<<e>>) /\ Total(p \o q) = Total(p) + Total(q)
    BY <1>1, TotalCat
  <2>3. Total(<<e>>) = SizeOf(e)
    BY <1>1, TotalFacts
  <2> QED
    BY <2>1, <2>2, <2>3
<1>7. Total(p) \in Nat /\ Total(q) \in Nat
  BY <1>1, TotalFacts
<1>8. Total(s) = Total(p \o q) + SizeOf(e) /\ Total(p \o q) \in Nat
  BY <1>5, <1>6, <1>7
<1> QED
  BY <1>3, <1>8 DEF e

(* evictLocked, when the counter is exact: it stays so, what remains fits, *)
(* the next entry would not have, and one that fits by itself stays.       *)
LEMMA EvictFacts ==
  ASSUME NEW s \in Seq(Entry), NEW n, n = Kept(s, Total(s))
  PROVE  /\ n \in 0 .. Len(s)
         /\ Total(s) - Total(SubSeq(s, n + 1, Len(s))) = Total(SubSeq(s, 1, n))
         /\ Total(SubSeq(s, 1, n)) <= MaxBytes
         /\ n = Len(s) \/ Total(SubSeq(s, 1, n + 1)) > MaxBytes
         /\ Len(s) > 0 /\ SizeOf(s[1]) <= MaxBytes => n > 0
<1> DEFINE rest(i) == Total(s) - Total(SubSeq(s, i + 1, Len(s)))
           T == {i \in 0 .. Len(s) : rest(i) <= MaxBytes}
<1>0. MaxBytes \in Nat /\ Len(s) \in Nat
  BY SizeAssumption
<1>1. \A i \in 0 .. Len(s) : rest(i) = Total(SubSeq(s, 1, i))
  <2> TAKE i \in 0 .. Len(s)
  <2>1. /\ Total(s) = Total(SubSeq(s, 1, i)) + Total(SubSeq(s, i + 1, Len(s)))
        /\ Total(SubSeq(s, 1, i)) \in Nat /\ Total(SubSeq(s, i + 1, Len(s))) \in Nat
    BY CutTotal
  <2> QED
    BY <2>1
<1>2. 0 \in T
  <2>1. SubSeq(s, 1, 0) = << >> /\ 0 \in 0 .. Len(s)
    OBVIOUS
  <2>2. rest(0) = 0
    BY <1>1, <2>1, TotalFacts
  <2> QED
    BY <1>0, <2>1, <2>2
<1>3. n = Max({0} \cup T)
  BY DEF Kept
<1>4. {0} \cup T = T /\ T \in SUBSET Nat /\ T # {} /\ \A y \in T : y <= Len(s)
  BY <1>2
<1>5. n \in T /\ \A y \in T : y <= n
  <2> HIDE DEF T
  <2> QED
    BY <1>0, <1>3, <1>4, MaxFacts
<1>6. n \in 0 .. Len(s) /\ rest(n) <= MaxBytes
  BY <1>5
<1>7. n = Len(s) \/ Total(SubSeq(s, 1, n + 1)) > MaxBytes
  <2> SUFFICES ASSUME n # Len(s) PROVE Total(SubSeq(s, 1, n + 1)) > MaxBytes
    OBVIOUS
  <2>1. n + 1 \in 0 .. Len(s) /\ n + 1 \notin T
    BY <1>5, <1>6
  <2>2. Total(SubSeq(s, 1, n + 1)) \in Nat
    BY <2>1, CutTotal
  <2>3. ~(rest(n + 1) <= MaxBytes)
    BY <2>1
  <2> HIDE DEF rest
  <2> QED
    BY <1>0, <1>1, <2>1, <2>2, <2>3
<1>8. ASSUME Len(s) > 0, SizeOf(s[1]) <= MaxBytes PROVE n > 0
  <2>1. 1 \in 0 .. Len(s) /\ SubSeq(s, 1, 1) = <<s[1]>> /\ s[1] \in Entry
    <3>1. 1 \in 0 .. Len(s) /\ s[1] \in Entry
      BY <1>8
    <3>2. SubSeq(s, 1, 1) \in Seq(Entry) /\ <<s[1]>> \in Seq(Entry)
          /\ Len(SubSeq(s, 1, 1)) = 1 /\ Len(<<s[1]>>) = 1
          /\ \A j \in 1 .. 1 : SubSeq(s, 1, 1)[j] = <<s[1]>>[j]
      BY <1>8, <3>1
    <3> QED
      BY <3>1, <3>2, SeqEqual
  <2>2. rest(1) = SizeOf(s[1])
    BY <1>1, <2>1, TotalFacts
  <2>3. 1 \in T
    BY <1>8, <2>1, <2>2
  <2> QED
    BY <1>5, <1>6, <2>3
<1> QED
  BY <1>1, <1>6, <1>7, <1>8

(* A prefix, a removal, and a new front all keep the keys apart.           *)
LEMMA PrefixKeyed ==
  ASSUME NEW s \in Seq(Entry), KeyedOnce(s), NEW n \in 0 .. Len(s)
  PROVE  /\ SubSeq(s, 1, n) \in Seq(Entry) /\ Len(SubSeq(s, 1, n)) = n
         /\ \A i \in 1 .. n : SubSeq(s, 1, n)[i] = s[i]
         /\ KeyedOnce(SubSeq(s, 1, n))
<1> DEFINE p == SubSeq(s, 1, n)
<1>1. p \in Seq(Entry) /\ Len(p) = n /\ \A i \in 1 .. n : p[i] = s[i]
  OBVIOUS
<1>2. DOMAIN p = 1 .. n /\ DOMAIN s = 1 .. Len(s)
  BY <1>1
<1> HIDE DEF p
<1>3. KeyedOnce(p)
  <2> SUFFICES ASSUME NEW i \in DOMAIN p, NEW j \in DOMAIN p, p[i].key = p[j].key PROVE i = j
    BY DEF KeyedOnce
  <2>1. i \in DOMAIN s /\ j \in DOMAIN s /\ p[i] = s[i] /\ p[j] = s[j]
    BY <1>1, <1>2
  <2> QED
    BY <2>1 DEF KeyedOnce
<1> QED
  BY <1>1, <1>3 DEF p

(* It has the other entries, and no entry under that key.                  *)
LEMMA RemoveKeyed ==
  ASSUME NEW s \in Seq(Entry), KeyedOnce(s), NEW i \in DOMAIN s
  PROVE  /\ RemoveAt(s, i) \in Seq(Entry)
         /\ KeyedOnce(RemoveAt(s, i))
         /\ \A j \in DOMAIN RemoveAt(s, i) :
              /\ \E m \in DOMAIN s : m # i /\ RemoveAt(s, i)[j] = s[m]
              /\ RemoveAt(s, i)[j].key # s[i].key
         /\ \A m \in DOMAIN s : m # i => \E j \in DOMAIN RemoveAt(s, i) : RemoveAt(s, i)[j] = s[m]
<1> DEFINE r == RemoveAt(s, i)
           at(j) == IF j < i THEN j ELSE j + 1
<1>1. r \in Seq(Entry) /\ Len(r) = Len(s) - 1
      /\ \A j \in 1 .. (Len(s) - 1) : r[j] = IF j < i THEN s[j] ELSE s[j + 1]
  BY RemoveFacts
<1> HIDE DEF r
<1>2. DOMAIN r = 1 .. (Len(s) - 1) /\ DOMAIN s = 1 .. Len(s) /\ Len(s) \in Nat
  BY <1>1
<1>3. \A j \in DOMAIN r : at(j) \in DOMAIN s /\ at(j) # i /\ r[j] = s[at(j)]
  BY <1>1, <1>2
<1>4. \A j, m \in DOMAIN r : at(j) = at(m) => j = m
  BY <1>2
<1>5. \A m \in DOMAIN s : m # i => \E j \in DOMAIN r : at(j) = m
  <2> SUFFICES ASSUME NEW m \in DOMAIN s, m # i PROVE \E j \in DOMAIN r : at(j) = m
    OBVIOUS
  <2>1. CASE m < i
    BY <1>2, <2>1
  <2>2. CASE m > i
    <3>1. m - 1 \in DOMAIN r /\ at(m - 1) = m
      BY <1>2, <2>2
    <3> QED
      BY <3>1
  <2> QED
    BY <1>2, <2>1, <2>2
<1> HIDE DEF at
<1>6. KeyedOnce(r)
  BY <1>3, <1>4 DEF KeyedOnce
<1>7. \A j \in DOMAIN r : r[j].key # s[i].key
  BY <1>3 DEF KeyedOnce
<1>8. \A m \in DOMAIN s : m # i => \E j \in DOMAIN r : r[j] = s[m]
  BY <1>3, <1>5
<1>9. \A j \in DOMAIN r : \E m \in DOMAIN s : m # i /\ r[j] = s[m]
  BY <1>3
<1>10. /\ r \in Seq(Entry) /\ KeyedOnce(r)
       /\ \A j \in DOMAIN r : (\E m \in DOMAIN s : m # i /\ r[j] = s[m]) /\ r[j].key # s[i].key
       /\ \A m \in DOMAIN s : m # i => \E j \in DOMAIN r : r[j] = s[m]
  BY <1>1, <1>6, <1>7, <1>8, <1>9
<1> QED
  BY <1>10 DEF r

(* A new front.                                                            *)
LEMMA FrontKeyed ==
  ASSUME NEW e \in Entry, NEW s \in Seq(Entry), KeyedOnce(s), \A j \in DOMAIN s : s[j].key # e.key
  PROVE  /\ <<e>> \o s \in Seq(Entry)
         /\ Len(<<e>> \o s) = Len(s) + 1
         /\ (<<e>> \o s)[1] = e
         /\ \A j \in 1 .. Len(s) : (<<e>> \o s)[j + 1] = s[j]
         /\ Total(<<e>> \o s) = Total(s) + SizeOf(e)
         /\ KeyedOnce(<<e>> \o s)
<1> DEFINE t == <<e>> \o s
<1>1. t \in Seq(Entry) /\ Len(t) = Len(s) + 1 /\ t[1] = e /\ \A j \in 1 .. Len(s) : t[j + 1] = s[j]
  OBVIOUS
<1>2. Total(t) = Total(s) + SizeOf(e)
  <2>1. <<e>> \in Seq(Entry)
    OBVIOUS
  <2>2. Total(t) = Total(<<e>>) + Total(s)
    BY <2>1, TotalCat
  <2>3. Total(<<e>>) = SizeOf(e) /\ Total(<<e>>) \in Nat /\ Total(s) \in Nat
    BY <2>1, TotalFacts
  <2> HIDE DEF t
  <2> QED
    BY <2>2, <2>3
<1> HIDE DEF t
<1>3. DOMAIN t = 1 .. (Len(s) + 1) /\ DOMAIN s = 1 .. Len(s) /\ Len(s) \in Nat
  BY <1>1
<1>4. \A j \in DOMAIN t : j = 1 \/ (j - 1 \in DOMAIN s /\ t[j] = s[j - 1])
  <2> SUFFICES ASSUME NEW j \in DOMAIN t, j # 1 PROVE j - 1 \in DOMAIN s /\ t[j] = s[j - 1]
    OBVIOUS
  <2>1. j - 1 \in 1 .. Len(s) /\ (j - 1) + 1 = j
    BY <1>3
  <2>2. t[(j - 1) + 1] = s[j - 1]
    BY <1>1, <2>1
  <2> QED
    BY <1>3, <2>1, <2>2
<1>5. KeyedOnce(t)
  <2> SUFFICES ASSUME NEW i \in DOMAIN t, NEW j \in DOMAIN t, t[i].key = t[j].key PROVE i = j
    BY DEF KeyedOnce
  <2>1. i \in Nat /\ j \in Nat
    BY <1>3
  <2>2. CASE i = 1
    BY <1>1, <1>4, <2>2
  <2>3. CASE j = 1
    BY <1>1, <1>4, <2>3
  <2>4. CASE i # 1 /\ j # 1
    <3>1. i - 1 \in DOMAIN s /\ j - 1 \in DOMAIN s /\ s[i - 1].key = s[j - 1].key
      BY <1>4, <2>4
    <3>2. i - 1 = j - 1
      BY <3>1 DEF KeyedOnce
    <3> QED
      BY <2>1, <3>2
  <2> QED
    BY <2>2, <2>3, <2>4
<1> QED
  BY <1>1, <1>2, <1>5 DEF t

-----------------------------------------------------------------------------
(* The cache.                                                              *)

(* The inductive invariant: what eviction decides by is exact only if no   *)
(* key is listed twice.                                                    *)
IInv == TypeOK /\ BytesExact

(* The same, with the counter's type implied.                              *)
LEMMA IInvIs ==
  IInv <=> order \in Seq(Entry) /\ KeyedOnce(order) /\ bytes = Total(order)
<1>1. order \in Seq(Entry) => Total(order) \in Nat
  BY TotalFacts
<1> QED
  BY <1>1 DEF IInv, TypeOK, BytesExact, KeyedOnce, Entry

(* What the list is before eviction, whichever way the entry comes in.     *)
Full(k, v) == <<[key |-> k, value |-> v]>> \o Others(k)

(* The other entries.                                                      *)
LEMMA OthersFacts ==
  ASSUME IInv, NEW k \in Key
  PROVE  /\ Others(k) \in Seq(Entry) /\ KeyedOnce(Others(k))
         /\ \A j \in DOMAIN Others(k) :
              Others(k)[j].key # k /\ \E m \in DOMAIN order : Others(k)[j] = order[m]
         /\ \A m \in DOMAIN order :
              order[m].key # k => \E j \in DOMAIN Others(k) : Others(k)[j] = order[m]
         /\ \A i \in Position(k) : Others(k) = RemoveAt(order, i)
<1>1. order \in Seq(Entry) /\ KeyedOnce(order)
  BY IInvIs
<1>2. CASE Position(k) = {}
  <2>1. Others(k) = order
    BY <1>2 DEF Others
  <2>2. \A j \in DOMAIN order : order[j].key # k
    BY <1>2 DEF Position
  <2> QED
    BY <1>1, <1>2, <2>1, <2>2
<1>3. CASE Position(k) # {}
  <2> DEFINE i == CHOOSE i \in Position(k) : TRUE
  <2>1. i \in Position(k) /\ Others(k) = RemoveAt(order, i)
    BY <1>3 DEF Others
  <2> HIDE DEF i
  <2>2. i \in DOMAIN order /\ order[i].key = k
    BY <2>1 DEF Position
  <2>3. \A j \in Position(k) : j = i
    BY <1>1, <2>2 DEF Position, KeyedOnce
  <2> DEFINE r == RemoveAt(order, i)
  <2>4. /\ r \in Seq(Entry) /\ KeyedOnce(r)
        /\ \A j \in DOMAIN r :
             (\E m \in DOMAIN order : m # i /\ r[j] = order[m]) /\ r[j].key # order[i].key
        /\ \A m \in DOMAIN order : m # i => \E j \in DOMAIN r : r[j] = order[m]
    BY <1>1, <2>2, RemoveKeyed
  <2> HIDE DEF r
  <2>5. Others(k) = r
    BY <2>1 DEF r
  <2>6. \A m \in DOMAIN order : order[m].key # k => m # i
    BY <2>2
  <2>7. \A j \in Position(k) : Others(k) = RemoveAt(order, j)
    BY <2>1, <2>3
  <2> QED
    BY <2>2, <2>4, <2>5, <2>6, <2>7
<1> QED
  BY <1>2, <1>3

(* An Add that is admitted, whether it replaces or inserts: the new entry  *)
(* goes before the others, and the longest prefix that fits remains.       *)
LEMMA AddFacts ==
  ASSUME IInv, NEW k \in Key, NEW v \in Value, Add(k, v), Size[v] <= MaxBytes
  PROVE  /\ Full(k, v) \in Seq(Entry) /\ KeyedOnce(Full(k, v))
         /\ \E n \in 1 .. Len(Full(k, v)) :
              /\ order' = SubSeq(Full(k, v), 1, n) /\ bytes' = Total(order')
              /\ Total(SubSeq(Full(k, v), 1, n)) <= MaxBytes
              /\ n = Len(Full(k, v)) \/ Total(SubSeq(Full(k, v), 1, n + 1)) > MaxBytes
<1> DEFINE e == [key |-> k, value |-> v]
           s == Full(k, v)
           o == Others(k)
<1>1. order \in Seq(Entry) /\ KeyedOnce(order) /\ bytes = Total(order)
  BY IInvIs
<1>2. e \in Entry /\ SizeOf(e) = Size[v] /\ Size[v] \in Nat /\ e.key = k /\ MaxBytes \in Nat
  BY SizeAssumption DEF Entry, SizeOf
<1>3. o \in Seq(Entry) /\ KeyedOnce(o) /\ (\A j \in DOMAIN o : o[j].key # k)
      /\ \A i \in Position(k) : o = RemoveAt(order, i)
  BY OthersFacts
<1>3a. s = <<e>> \o o
  BY DEF Full
<1> HIDE DEF s, o, e
<1>4. /\ s \in Seq(Entry) /\ KeyedOnce(s) /\ Len(s) = Len(o) + 1
      /\ s[1] = e /\ Total(s) = Total(o) + Size[v]
  BY <1>2, <1>3, <1>3a, FrontKeyed
<1>5. EvictLocked(s, Total(s))
  <2>1. ~AddRefused(k, v)
    BY <1>2 DEF AddRefused
  <2>2. CASE AddReplaces(k, v)
    <3>1. PICK i \in Position(k) : EvictLocked(ToFront(i, v), bytes + Size[v] - SizeOf(order[i]))
      BY <2>2 DEF AddReplaces
    <3>2. i \in DOMAIN order /\ order[i].key = k /\ order[i] \in Entry
      BY <1>1 DEF Position
    <3>3. [order[i] EXCEPT !.value = v] = e
      BY <3>2 DEF Entry, e
    <3>4. ToFront(i, v) = s
      BY <1>3, <1>3a, <3>3 DEF ToFront
    <3>5. Total(order) = Total(o) + SizeOf(order[i]) /\ Total(o) \in Nat /\ SizeOf(order[i]) \in Nat
      BY <1>1, <1>3, <3>2, RemoveTotal, SizesNat
    <3>6. bytes + Size[v] - SizeOf(order[i]) = Total(s)
      BY <1>1, <1>2, <1>4, <3>5
    <3> QED
      BY <3>1, <3>4, <3>6
  <2>3. CASE AddInserts(k, v)
    <3>1. Position(k) = {} /\ EvictLocked(<<e>> \o order, bytes + Size[v])
      BY <2>3 DEF AddInserts, e
    <3>2. o = order
      BY <3>1 DEF Others, o
    <3>3. bytes + Size[v] = Total(s)
      BY <1>1, <1>4, <3>2
    <3> QED
      BY <1>3a, <3>1, <3>2, <3>3
  <2> QED
    BY <2>1, <2>2, <2>3 DEF Add
<1> DEFINE n == Kept(s, Total(s))
<1>6. order' = SubSeq(s, 1, n) /\ bytes' = Total(s) - Total(SubSeq(s, n + 1, Len(s)))
  BY <1>5 DEF EvictLocked
<1> HIDE DEF n
<1>7. /\ n \in 0 .. Len(s)
      /\ Total(s) - Total(SubSeq(s, n + 1, Len(s))) = Total(SubSeq(s, 1, n))
      /\ Total(SubSeq(s, 1, n)) <= MaxBytes
      /\ n = Len(s) \/ Total(SubSeq(s, 1, n + 1)) > MaxBytes
      /\ Len(s) > 0 /\ SizeOf(s[1]) <= MaxBytes => n > 0
  BY <1>4, EvictFacts DEF n
<1>8. n \in 1 .. Len(s)
  <2>1. Len(o) \in Nat
    BY <1>3
  <2>2. Len(s) > 0 /\ SizeOf(s[1]) <= MaxBytes
    BY <1>2, <1>4, <2>1
  <2> QED
    BY <1>7, <2>2
<1>9. bytes' = Total(order')
  BY <1>6, <1>7 DEF Total, SizeOf
<1>10. s \in Seq(Entry) /\ KeyedOnce(s) /\ \E m \in 1 .. Len(s) :
         /\ order' = SubSeq(s, 1, m) /\ bytes' = Total(order') /\ Total(SubSeq(s, 1, m)) <= MaxBytes
         /\ m = Len(s) \/ Total(SubSeq(s, 1, m + 1)) > MaxBytes
  BY <1>4, <1>6, <1>7, <1>8, <1>9
<1> QED
  BY <1>10 DEF s

(* The invariant holds at the start.                                       *)
LEMMA InitOK == Init => IInv
<1>1. ASSUME Init PROVE order \in Seq(Entry) /\ KeyedOnce(order) /\ bytes = Total(order)
  <2>1. order = << >> /\ bytes = 0
    BY <1>1 DEF Init
  <2> QED
    BY <2>1, TotalFacts DEF KeyedOnce
<1> QED
  BY <1>1, IInvIs

(* Get moves one entry to the front.                                       *)
LEMMA GetFacts ==
  ASSUME IInv, NEW k \in Key, Get(k)
  PROVE  /\ order' \in Seq(Entry) /\ KeyedOnce(order') /\ Total(order') = Total(order)
         /\ \A m \in DOMAIN order : \E j \in DOMAIN order' : order'[j] = order[m]
         /\ \A j \in DOMAIN order' : \E m \in DOMAIN order : order'[j] = order[m]
<1> DEFINE o == Others(k)
<1>1. order \in Seq(Entry) /\ KeyedOnce(order)
  BY IInvIs
<1>2. PICK i \in Position(k) : order' = ToFront(i, order[i].value)
  BY DEF Get
<1> DEFINE e == order[i]
<1>3. i \in DOMAIN order /\ e.key = k /\ e \in Entry
  BY <1>1 DEF Position
<1>4. [e EXCEPT !.value = e.value] = e
  BY <1>3 DEF Entry
<1>5. /\ o \in Seq(Entry) /\ KeyedOnce(o)
      /\ \A j \in DOMAIN o : o[j].key # k /\ \E m \in DOMAIN order : o[j] = order[m]
      /\ \A m \in DOMAIN order : order[m].key # k => \E j \in DOMAIN o : o[j] = order[m]
      /\ o = RemoveAt(order, i)
  BY OthersFacts
<1>6. order' = <<e>> \o o
  BY <1>2, <1>4, <1>5 DEF ToFront
<1>7. Total(order) = Total(o) + SizeOf(e)
  BY <1>1, <1>3, <1>5, RemoveTotal
<1> HIDE DEF o
<1>8. \A m \in DOMAIN order : order[m].key = k => m = i
  BY <1>1, <1>3 DEF KeyedOnce
<1> DEFINE t == <<e>> \o o
<1>9. /\ t \in Seq(Entry) /\ Len(t) = Len(o) + 1 /\ t[1] = e
      /\ \A j \in 1 .. Len(o) : t[j + 1] = o[j]
      /\ Total(t) = Total(o) + SizeOf(e) /\ KeyedOnce(t)
  <2> HIDE DEF e
  <2> QED
    BY <1>3, <1>5, FrontKeyed
<1> HIDE DEF t
<1>10. DOMAIN t = 1 .. (Len(o) + 1) /\ DOMAIN o = 1 .. Len(o) /\ Len(o) \in Nat
  BY <1>5, <1>9
<1>11. ASSUME NEW m \in DOMAIN order PROVE \E j \in DOMAIN t : t[j] = order[m]
  <2>1. CASE order[m].key = k
    BY <1>8, <1>9, <1>10, <2>1
  <2>2. CASE order[m].key # k
    <3>1. PICK j \in DOMAIN o : o[j] = order[m]
      BY <1>5, <2>2
    <3>2. j + 1 \in DOMAIN t /\ t[j + 1] = order[m]
      BY <1>9, <1>10, <3>1
    <3> QED
      BY <3>2
  <2> QED
    BY <2>1, <2>2
<1>12. ASSUME NEW j \in DOMAIN t PROVE \E m \in DOMAIN order : t[j] = order[m]
  <2>1. CASE j = 1
    BY <1>3, <1>9, <2>1
  <2>2. CASE j # 1
    <3>1. j - 1 \in 1 .. Len(o) /\ (j - 1) + 1 = j
      BY <1>10, <2>2
    <3>2. t[(j - 1) + 1] = o[j - 1]
      BY <1>9, <3>1
    <3>3. PICK m \in DOMAIN order : o[j - 1] = order[m]
      BY <1>5, <1>10, <3>1
    <3> QED
      BY <3>1, <3>2, <3>3
  <2> QED
    BY <2>1, <2>2
<1>13. order' = t
  BY <1>6 DEF t
<1>14. Total(order') = Total(t)
  BY <1>13 DEF Total, SizeOf
<1> QED
  BY <1>7, <1>9, <1>11, <1>12, <1>13, <1>14

(* Every step keeps the invariant.                                         *)
LEMMA NextOK == IInv /\ [Next]_vars => IInv'
<1> SUFFICES ASSUME IInv, [Next]_vars PROVE IInv'
  OBVIOUS
<1>0. IInv' <=> order' \in Seq(Entry) /\ KeyedOnce(order') /\ bytes' = Total(order')
  <2>1. order' \in Seq(Entry) => Total(order') \in Nat
    <3>1. \A s \in Seq(Entry) : Total(s) \in Nat
      BY TotalFacts
    <3> QED
      BY <3>1
  <2> QED
    BY <2>1 DEF IInv, TypeOK, BytesExact, KeyedOnce, Entry
<1>1. order \in Seq(Entry) /\ KeyedOnce(order) /\ bytes = Total(order)
  BY IInvIs
<1>2. ASSUME NEW k \in Key, Get(k) PROVE IInv'
  <2>1. bytes' = bytes
    BY <1>2 DEF Get
  <2> QED
    BY <1>0, <1>1, <1>2, <2>1, GetFacts
<1>3. ASSUME NEW k \in Key, RemoveKey(k) PROVE IInv'
  <2>1. PICK i \in Position(k) : order' = RemoveAt(order, i) /\ bytes' = bytes - SizeOf(order[i])
    BY <1>3 DEF RemoveKey
  <2>2. i \in DOMAIN order
    BY DEF Position
  <2>3. RemoveAt(order, i) \in Seq(Entry) /\ KeyedOnce(RemoveAt(order, i))
    BY <1>1, <2>2, RemoveKeyed
  <2>4. Total(order) = Total(RemoveAt(order, i)) + SizeOf(order[i]) /\ Total(RemoveAt(order, i)) \in Nat
        /\ SizeOf(order[i]) \in Nat
    BY <1>1, <2>2, RemoveTotal, SizesNat
  <2>5. bytes' = Total(RemoveAt(order, i))
    BY <1>1, <2>1, <2>4
  <2> QED
    BY <1>0, <2>1, <2>3, <2>5
<1>4. ASSUME NEW k \in Key, NEW v \in Value, Add(k, v), Size[v] <= MaxBytes PROVE IInv'
  <2> DEFINE s == Full(k, v)
  <2>1. s \in Seq(Entry) /\ KeyedOnce(s) /\ \E n \in 1 .. Len(s) :
          order' = SubSeq(s, 1, n) /\ bytes' = Total(order')
    BY <1>4, AddFacts
  <2> HIDE DEF s
  <2>2. PICK n \in 1 .. Len(s) : order' = SubSeq(s, 1, n) /\ bytes' = Total(order')
    BY <2>1
  <2>3. n \in 0 .. Len(s)
    BY <2>1
  <2>4. SubSeq(s, 1, n) \in Seq(Entry) /\ KeyedOnce(SubSeq(s, 1, n))
    BY <2>1, <2>3, PrefixKeyed
  <2> QED
    BY <1>0, <2>2, <2>4
<1>5. ASSUME NEW k \in Key, NEW v \in Value, Add(k, v), ~(Size[v] <= MaxBytes)
      PROVE  order' = order /\ bytes' = bytes
  BY <1>5 DEF Add, AddRefused, AddReplaces, AddInserts, vars
<1>6. CASE order' = order /\ bytes' = bytes
  BY <1>0, <1>1, <1>6 DEF IInv
<1>7. CASE Purge
  <2>1. order' = << >> /\ bytes' = 0
    BY <1>7 DEF Purge
  <2> QED
    BY <1>0, <2>1, TotalFacts DEF KeyedOnce
<1> QED
  BY <1>2, <1>3, <1>4, <1>5, <1>6, <1>7 DEF Next, vars

(* The list never holds a key twice, and the counter never drops below 0   *)
(* (lru.go:149).                                                           *)
THEOREM CacheTypeCorrect == Spec => []TypeOK
<1>1. IInv => TypeOK
  BY DEF IInv
<1> QED
  BY <1>1, InitOK, NextOK, PTL DEF Spec

(* The counter that decides eviction equals what the entries weigh, after  *)
(* any sequence of replacements, removals, evictions and purges            *)
(* (lru.go:141).                                                           *)
THEOREM ByteCountIsExact == Spec => []BytesExact
<1>1. IInv => BytesExact
  BY DEF IInv
<1> QED
  BY <1>1, InitOK, NextOK, PTL DEF Spec

(* What EvictsOnlyWhatItMust says of one step.                             *)
EvictStep ==
  \A k \in Key, v \in Value :
       Add(k, v) /\ Size[v] <= MaxBytes =>
         LET full == <<[key |-> k, value |-> v]>> \o Others(k)
         IN /\ order' # << >> /\ IsPrefix(order', full)
            /\ Total(order') <= MaxBytes
            /\ order' = full \/ Total(SubSeq(full, 1, Len(order') + 1)) > MaxBytes

(* Every admitted Add is such a step.                                      *)
LEMMA EvictStepOK == IInv => EvictStep
<1> SUFFICES ASSUME IInv, NEW k \in Key, NEW v \in Value, Add(k, v), Size[v] <= MaxBytes
             PROVE  LET full == Full(k, v)
                    IN /\ order' # << >> /\ IsPrefix(order', full)
                       /\ Total(order') <= MaxBytes
                       /\ order' = full \/ Total(SubSeq(full, 1, Len(order') + 1)) > MaxBytes
  BY DEF EvictStep, Full
<1> DEFINE s == Full(k, v)
<1>1. s \in Seq(Entry) /\ KeyedOnce(s) /\ \E n \in 1 .. Len(s) :
        /\ order' = SubSeq(s, 1, n) /\ Total(SubSeq(s, 1, n)) <= MaxBytes
        /\ n = Len(s) \/ Total(SubSeq(s, 1, n + 1)) > MaxBytes
  BY AddFacts
<1> HIDE DEF s
<1>2. PICK n \in 1 .. Len(s) :
        /\ order' = SubSeq(s, 1, n) /\ Total(SubSeq(s, 1, n)) <= MaxBytes
        /\ n = Len(s) \/ Total(SubSeq(s, 1, n + 1)) > MaxBytes
  BY <1>1
<1> DEFINE p == SubSeq(s, 1, n)
<1>3. p \in Seq(Entry) /\ Len(p) = n
  BY <1>1
<1>4. SubSeq(s, 1, Len(s)) = s /\ SubSeq(p, 1, Len(p)) = p
  BY <1>1, <1>3, SubSeqFull
<1>5. order' = p /\ p # << >>
  BY <1>2, <1>3
<1>6. IsPrefix(p, s)
  <2> HIDE DEF p
  <2>1. SubSeq(p, 1, Len(p)) = SubSeq(s, 1, Len(p))
    BY <1>3, <1>4 DEF p
  <2> QED
    BY <1>3, <2>1 DEF IsPrefix
<1>7. p = s \/ Total(SubSeq(s, 1, Len(p) + 1)) > MaxBytes
  BY <1>2, <1>3, <1>4
<1>8. Total(p) <= MaxBytes
  BY <1>2
<1> HIDE DEF p
<1>9. Total(order') = Total(p)
  BY <1>5 DEF Total, SizeOf
<1>10. /\ order' # << >> /\ IsPrefix(order', s) /\ Total(order') <= MaxBytes
       /\ order' = s \/ Total(SubSeq(s, 1, Len(order') + 1)) > MaxBytes
  BY <1>5, <1>6, <1>7, <1>8, <1>9
<1> QED
  BY <1>10 DEF s

(* An admitted Add leaves the longest prefix that fits, the new entry      *)
(* first: eviction goes from the least recently used end and stops as soon *)
(* as it may (lru.go:140).                                                 *)
THEOREM EvictionIsMinimal == Spec => EvictsOnlyWhatItMust
<1>1. IInv /\ [Next]_vars => [EvictStep]_vars
  BY EvictStepOK
<1>2. Spec => [][EvictStep]_vars
  BY <1>1, InitOK, NextOK, PTL DEF Spec
<1> QED
  BY <1>2 DEF EvictsOnlyWhatItMust, EvictStep

-----------------------------------------------------------------------------
(* The refinement.                                                         *)

(* The map that a list of entries stands for.                              *)
MapOf(s) == [k \in {s[i].key : i \in DOMAIN s} |->
               s[CHOOSE i \in {j \in DOMAIN s : s[j].key = k} : TRUE].value]

(* Held is that map, now and after a step.                                 *)
LEMMA HeldIsMap == Held = MapOf(order) /\ Held' = MapOf(order')
  BY DEF Held, MapOf, Position

(* Its keys and values.                                                    *)
LEMMA MapFacts ==
  ASSUME NEW s \in Seq(Entry), KeyedOnce(s)
  PROVE  /\ DOMAIN MapOf(s) = {s[i].key : i \in DOMAIN s}
         /\ \A i \in DOMAIN s : MapOf(s)[s[i].key] = s[i].value
<1>1. DOMAIN MapOf(s) = {s[i].key : i \in DOMAIN s}
  BY DEF MapOf
<1>2. ASSUME NEW i \in DOMAIN s PROVE MapOf(s)[s[i].key] = s[i].value
  <2> DEFINE T == {j \in DOMAIN s : s[j].key = s[i].key}
  <2>1. T = {i}
    BY DEF KeyedOnce
  <2>2. (CHOOSE j \in T : TRUE) = i
    BY <2>1
  <2>3. MapOf(s)[s[i].key] = s[CHOOSE j \in T : TRUE].value
    BY DEF MapOf
  <2> QED
    BY <2>2, <2>3
<1> QED
  BY <1>1, <1>2

(* The map weighs what the list weighs.                                    *)
LEMMA MapWeight ==
  ASSUME NEW s \in Seq(Entry), KeyedOnce(s)
  PROVE  Map!Weight(MapOf(s)) = Total(s)
<1> DEFINE m == MapOf(s)
           K == DOMAIN m
           v == [k \in K |-> Size[m[k]]]
           D == DOMAIN s
           w == Sizes(s)
           f == [i \in D |-> s[i].key]
           IsFold(g) == g = [t \in SUBSET K |-> IF t = {} THEN 0
                       ELSE Size[m[CHOOSE x \in t : TRUE]] + g[t \ {CHOOSE x \in t : TRUE}]]
<1>1. K = {f[x] : x \in D} /\ \A i \in D : m[s[i].key] = s[i].value
  BY MapFacts
<1>2. IsFiniteSet(D) /\ \A x \in D : w[x] \in Nat
  BY SizesNat
<1>3. \A x, y \in D : f[x] = f[y] => x = y
  BY DEF KeyedOnce
<1>4. \A x \in D : w[x] = v[f[x]]
  BY <1>1 DEF Sizes, SizeOf
<1>5. Map!Weight(m) = (CHOOSE g : IsFold(g))[K]
  BY DEF Map!Weight, Map!MapThenSumSet, Map!MapThenFoldSet
<1>6. ASSUME NEW g PROVE IsFold(g) <=> IsTable(g, K, v)
  <2>1. ASSUME NEW t \in SUBSET K, t # {}
        PROVE  v[CHOOSE x \in t : TRUE] = Size[m[CHOOSE x \in t : TRUE]]
    BY <2>1
  <2> HIDE DEF v, K, m
  <2> QED
    BY <2>1 DEF IsTable
<1>7. IsFiniteSet(K)
  <2>1. f \in [D -> K] /\ \A y \in K : \E x \in D : f[x] = y
    BY <1>1
  <2> HIDE DEF f, D, K
  <2>2. f \in Surjection(D, K)
    BY <2>1 DEF Surjection
  <2> QED
    BY <1>2, <2>2, FS_Surjection
<1>8. \A x \in K : v[x] \in Nat
  <2> HIDE DEF K, v, f, w, D
  <2> QED
    BY <1>1, <1>2, <1>4
<1>9. Total(s) = Sum(D, w)
  BY TotalIsSum
<1> HIDE DEF m, K, v, D, w, f, IsFold
<1>10. Sum(D, w) = Sum(K, v)
  BY <1>1, <1>2, <1>3, <1>4, SumReindex
<1>11. \E g : IsTable(g, K, v)
  BY <1>7, <1>8, TableExists
<1>12. IsTable(CHOOSE g : IsFold(g), K, v)
  BY <1>6, <1>11
<1>13. (CHOOSE g : IsFold(g))[K] = Sum(K, v)
  BY <1>7, <1>8, <1>12, TableIsSum
<1> QED
  BY <1>5, <1>9, <1>10, <1>13 DEF m

(* Lists that hold the same entries stand for the same map.                *)
LEMMA SameMap ==
  ASSUME NEW s \in Seq(Entry), KeyedOnce(s), NEW t \in Seq(Entry), KeyedOnce(t),
         \A i \in DOMAIN s : \E j \in DOMAIN t : t[j] = s[i],
         \A j \in DOMAIN t : \E i \in DOMAIN s : t[j] = s[i]
  PROVE  MapOf(s) = MapOf(t)
<1> DEFINE K == {s[i].key : i \in DOMAIN s}
<1>1. DOMAIN MapOf(s) = K /\ DOMAIN MapOf(t) = {t[i].key : i \in DOMAIN t}
  BY MapFacts
<1>2. {t[i].key : i \in DOMAIN t} = K
  OBVIOUS
<1>3. ASSUME NEW k \in K PROVE MapOf(s)[k] = MapOf(t)[k]
  <2>1. PICK i \in DOMAIN s : s[i].key = k
    OBVIOUS
  <2>2. PICK j \in DOMAIN t : t[j] = s[i]
    OBVIOUS
  <2>3. MapOf(s)[s[i].key] = s[i].value /\ MapOf(t)[t[j].key] = t[j].value
    BY MapFacts
  <2> QED
    BY <2>1, <2>2, <2>3
<1>4. /\ MapOf(s) = [k \in DOMAIN MapOf(s) |-> MapOf(s)[k]]
      /\ MapOf(t) = [k \in DOMAIN MapOf(t) |-> MapOf(t)[k]]
  BY DEF MapOf
<1> QED
  BY <1>1, <1>2, <1>3, <1>4

(* An admitted Add is a Put that forgets what was evicted.                 *)
LEMMA PutRefines ==
  ASSUME IInv, NEW k \in Key, NEW v \in Value, Add(k, v), Size[v] <= MaxBytes
  PROVE  Map!Put(k, v)
<1> DEFINE s == Full(k, v)
           o == Others(k)
           e == [key |-> k, value |-> v]
<1>1. order \in Seq(Entry) /\ KeyedOnce(order)
  BY IInvIs
<1>2. s \in Seq(Entry) /\ KeyedOnce(s) /\ \E n \in 1 .. Len(s) :
        order' = SubSeq(s, 1, n) /\ Total(SubSeq(s, 1, n)) <= MaxBytes
  BY AddFacts
<1>3. /\ o \in Seq(Entry)
      /\ \A j \in DOMAIN o : o[j].key # k /\ \E m \in DOMAIN order : o[j] = order[m]
  BY OthersFacts
<1>4. s = <<e>> \o o /\ e \in Entry /\ e.key = k /\ e.value = v
  BY DEF Full, Entry
<1> HIDE DEF s, o, e
<1>5. Len(s) = Len(o) + 1 /\ s[1] = e /\ \A j \in 1 .. Len(o) : s[j + 1] = o[j]
  BY <1>3, <1>4
<1>6. PICK n \in 1 .. Len(s) : order' = SubSeq(s, 1, n) /\ Total(SubSeq(s, 1, n)) <= MaxBytes
  BY <1>2
<1> DEFINE p == SubSeq(s, 1, n)
<1>7. n \in 0 .. Len(s)
  BY <1>2
<1>8. p \in Seq(Entry) /\ Len(p) = n /\ (\A i \in 1 .. n : p[i] = s[i]) /\ KeyedOnce(p)
  BY <1>2, <1>7, PrefixKeyed
<1>9. order' = p /\ Total(p) <= MaxBytes
  BY <1>6
<1> HIDE DEF p
<1>10. /\ DOMAIN p = 1 .. n /\ n \in Nat /\ n >= 1 /\ n <= Len(s)
       /\ DOMAIN o = 1 .. Len(o) /\ Len(o) \in Nat
  BY <1>2, <1>3, <1>8
<1>11. 1 \in DOMAIN p /\ p[1].key = k /\ p[1].value = v
  BY <1>4, <1>5, <1>8, <1>10
<1>12. ASSUME NEW i \in DOMAIN p, i # 1
       PROVE  p[i].key # k /\ \E m \in DOMAIN order : p[i] = order[m]
  <2>1. i - 1 \in 1 .. Len(o) /\ (i - 1) + 1 = i /\ p[i] = s[i]
    BY <1>5, <1>8, <1>10, <1>12
  <2>2. s[(i - 1) + 1] = o[i - 1]
    BY <1>5, <2>1
  <2>3. i - 1 \in DOMAIN o
    BY <1>10, <2>1
  <2> QED
    BY <1>3, <2>1, <2>2, <2>3
<1> DEFINE c == MapOf(order)
           d == MapOf(p)
           kept == DOMAIN d \ {k}
<1>13. /\ DOMAIN c = {order[i].key : i \in DOMAIN order}
       /\ \A i \in DOMAIN order : c[order[i].key] = order[i].value
       /\ DOMAIN d = {p[i].key : i \in DOMAIN p}
       /\ \A i \in DOMAIN p : d[p[i].key] = p[i].value
  BY <1>1, <1>8, MapFacts
<1>14. d = [j \in DOMAIN d |-> d[j]]
  BY DEF MapOf
<1>15. Map!Weight(d) <= MaxBytes
  BY <1>8, <1>9, MapWeight
<1> HIDE DEF c, d
<1>16. ASSUME NEW j \in kept PROVE j \in DOMAIN c /\ d[j] = c[j]
  <2>1. PICK i \in DOMAIN p : p[i].key = j /\ j # k
    BY <1>13
  <2>2. i # 1
    BY <1>11, <2>1
  <2>3. PICK m \in DOMAIN order : p[i] = order[m]
    BY <1>12, <2>2
  <2>4. d[j] = p[i].value /\ c[order[m].key] = order[m].value /\ order[m].key \in DOMAIN c
    BY <1>13, <2>1
  <2> QED
    BY <2>1, <2>3, <2>4
<1>17. k \in DOMAIN d /\ d[k] = v
  BY <1>11, <1>13
<1>18. kept \in SUBSET (DOMAIN c \ {k}) /\ DOMAIN d = kept \cup {k}
  BY <1>16, <1>17
<1>19. d = [j \in kept \cup {k} |-> IF j = k THEN v ELSE c[j]]
  BY <1>14, <1>16, <1>17, <1>18
<1>20. Held = c /\ Held' = d
  BY <1>9, HeldIsMap DEF c, d
<1>21. Map!Weight(Held') <= MaxBytes
  BY <1>15, <1>20
<1> HIDE DEF kept
<1> QED
  BY <1>18, <1>19, <1>20, <1>21 DEF Map!Put

(* RemoveKey is a Drop.                                                    *)
LEMMA DropRefines ==
  ASSUME IInv, NEW k \in Key, RemoveKey(k)
  PROVE  Map!Drop(k)
<1> DEFINE o == Others(k)
           c == MapOf(order)
           d == MapOf(o)
<1>1. order \in Seq(Entry) /\ KeyedOnce(order)
  BY IInvIs
<1>2. order' = o
  BY OthersFacts DEF RemoveKey
<1>3. /\ o \in Seq(Entry) /\ KeyedOnce(o)
      /\ \A j \in DOMAIN o : o[j].key # k /\ \E m \in DOMAIN order : o[j] = order[m]
      /\ \A m \in DOMAIN order : order[m].key # k => \E j \in DOMAIN o : o[j] = order[m]
  BY OthersFacts
<1> HIDE DEF o
<1>4. /\ DOMAIN c = {order[i].key : i \in DOMAIN order}
      /\ \A i \in DOMAIN order : c[order[i].key] = order[i].value
      /\ DOMAIN d = {o[i].key : i \in DOMAIN o}
      /\ \A i \in DOMAIN o : d[o[i].key] = o[i].value
  BY <1>1, <1>3, MapFacts
<1>5. d = [j \in DOMAIN d |-> d[j]]
  BY DEF MapOf
<1>6. Held = c /\ Held' = d
  BY <1>2, HeldIsMap
<1> HIDE DEF c, d
<1>7. ASSUME NEW j \in DOMAIN d PROVE j \in DOMAIN c \ {k} /\ d[j] = c[j]
  <2>1. PICK i \in DOMAIN o : o[i].key = j
    BY <1>4
  <2>2. PICK m \in DOMAIN order : o[i] = order[m]
    BY <1>3
  <2>3. d[j] = o[i].value /\ j # k
    BY <1>3, <1>4, <2>1
  <2>4. j \in DOMAIN c /\ c[j] = order[m].value
    BY <1>4, <2>1, <2>2
  <2> QED
    BY <2>2, <2>3, <2>4
<1>8. ASSUME NEW j \in DOMAIN c, j # k PROVE j \in DOMAIN d
  <2>1. PICK m \in DOMAIN order : order[m].key = j
    BY <1>4
  <2>2. PICK i \in DOMAIN o : o[i] = order[m]
    BY <1>3, <1>8, <2>1
  <2> QED
    BY <1>4, <2>1, <2>2
<1>9. DOMAIN d = DOMAIN c \ {k}
  BY <1>7, <1>8
<1>10. d = [j \in DOMAIN c \ {k} |-> c[j]]
  BY <1>5, <1>7, <1>9
<1> QED
  BY <1>6, <1>10 DEF Map!Drop, Map!Restrict

(* The list, the index and the counter together implement BoundedMap: to   *)
(* the store the cache forgets but never invents or overfills.             *)
THEOREM CacheIsABoundedMap == Spec => ImplementsBoundedMap
<1>1. Init => Map!Init
  <2>1. MapOf(<< >>) = << >>
    BY DEF MapOf
  <2> QED
    BY <2>1, HeldIsMap DEF Init, Map!Init
<1>2. IInv /\ [Next]_vars => [Map!Next]_Held
  <2> SUFFICES ASSUME IInv, [Next]_vars PROVE [Map!Next]_Held
    OBVIOUS
  <2>1. order \in Seq(Entry) /\ KeyedOnce(order)
    BY IInvIs
  <2>2. ASSUME NEW k \in Key, Get(k) PROVE Held' = Held
    <3>1. MapOf(order) = MapOf(order')
      BY <2>1, <2>2, GetFacts, SameMap
    <3> QED
      BY <3>1, HeldIsMap
  <2>3. ASSUME NEW k \in Key, RemoveKey(k) PROVE Map!Next
    BY <2>3, DropRefines DEF Map!Next
  <2>4. ASSUME NEW k \in Key, NEW v \in Value, Add(k, v), Size[v] <= MaxBytes PROVE Map!Next
    BY <2>4, PutRefines DEF Map!Next
  <2>5. ASSUME NEW k \in Key, NEW v \in Value, Add(k, v), ~(Size[v] <= MaxBytes) PROVE order' = order
    BY <2>5 DEF Add, AddRefused, AddReplaces, AddInserts, vars
  <2>6. CASE order' = order
    BY <2>6, HeldIsMap
  <2>7. CASE Purge
    <3>1. MapOf(<< >>) = << >>
      BY DEF MapOf
    <3> QED
      BY <2>7, <3>1, HeldIsMap DEF Purge, Map!Next, Map!Clear
  <2> QED
    BY <2>2, <2>3, <2>4, <2>5, <2>6, <2>7 DEF Next, vars
<1> QED
  BY <1>1, <1>2, InitOK, NextOK, PTL DEF Spec, ImplementsBoundedMap, Map!Spec

-----------------------------------------------------------------------------
(* Sequences of events.                                                    *)

(* No event twice.                                                         *)
Distinct(s) == \A i, j \in DOMAIN s : s[i] = s[j] => i = j

(* In ascending order.                                                     *)
Ascends(s) == \A i, j \in DOMAIN s : i < j => s[i] < s[j]

(* A finite set of naturals can be put in order.                           *)
LEMMA OrderExists ==
  ASSUME NEW D \in SUBSET Nat, IsFiniteSet(D)
  PROVE  \E s \in [1 .. Cardinality(D) -> D] : Ascends(s)
<1> DEFINE Q == {t \in SUBSET D : ~ \E s \in [1 .. Cardinality(t) -> t] : Ascends(s)}
<1> SUFFICES ASSUME Q # {} PROVE FALSE
  OBVIOUS
<1>1. PICK t \in Q : \A a \in t : t \ {a} \notin Q
  <2>1. Q \in SUBSET (SUBSET D)
    OBVIOUS
  <2> HIDE DEF Q
  <2> QED
    BY <2>1, MinimalSubset
<1>2. t \in SUBSET D /\ IsFiniteSet(t)
  BY FS_Subset
<1>3. t # {}
  <2> SUFFICES ASSUME t = {} PROVE FALSE
    OBVIOUS
  <2>1. Cardinality(t) = 0
    BY FS_EmptySet
  <2>2. << >> \in [1 .. Cardinality(t) -> t] /\ Ascends(<< >>)
    BY <2>1 DEF Ascends
  <2> QED
    BY <2>2
<1>4. PICK m \in t : \A x \in t : x <= m
  BY <1>2, <1>3, GreatestNatural
<1> DEFINE u == t \ {m}
           n == Cardinality(u)
<1>5. n \in Nat /\ Cardinality(t) = n + 1
  <2>1. IsFiniteSet(u) /\ n = Cardinality(t) - 1
    BY <1>2, FS_RemoveElement
  <2>2. n \in Nat /\ Cardinality(t) \in Nat
    BY <1>2, <2>1, FS_CardinalityType
  <2> QED
    BY <2>1, <2>2
<1>6. PICK s \in [1 .. n -> u] : Ascends(s)
  BY <1>1, <1>2, <1>4
<1> DEFINE r == [i \in 1 .. n + 1 |-> IF i = n + 1 THEN m ELSE s[i]]
<1> HIDE DEF n
<1>7. r \in [1 .. Cardinality(t) -> t]
  <2>1. \A i \in 1 .. n + 1 : r[i] \in t
    BY <1>5, <1>6
  <2> QED
    BY <1>5, <2>1
<1>8. ASSUME NEW i \in 1 .. n + 1, NEW j \in 1 .. n + 1, i < j PROVE r[i] < r[j]
  <2>1. i \in 1 .. n /\ r[i] = s[i] /\ s[i] \in u
    BY <1>5, <1>6, <1>8
  <2>2. CASE j = n + 1
    <3>1. r[j] = m /\ s[i] # m /\ s[i] <= m /\ s[i] \in Nat /\ m \in Nat
      BY <1>2, <1>4, <1>5, <2>1, <2>2
    <3> HIDE DEF r
    <3> QED
      BY <2>1, <3>1
  <2>3. CASE j # n + 1
    <3>1. j \in 1 .. n /\ r[j] = s[j]
      BY <1>5, <2>3
    <3> HIDE DEF r
    <3> QED
      BY <1>6, <1>8, <2>1, <3>1 DEF Ascends
  <2> QED
    BY <2>2, <2>3
<1>9. Ascends(r)
  <2>1. DOMAIN r = 1 .. n + 1
    OBVIOUS
  <2> HIDE DEF r
  <2> QED
    BY <1>8, <2>1 DEF Ascends
<1> QED
  BY <1>7, <1>9

(* What InOrder returns.                                                   *)
LEMMA InOrderFacts ==
  ASSUME NEW D \in SUBSET Nat, IsFiniteSet(D)
  PROVE  /\ InOrder(D) \in Seq(D) /\ Len(InOrder(D)) = Cardinality(D)
         /\ ToSet(InOrder(D)) = D /\ Distinct(InOrder(D))
<1> DEFINE n == Cardinality(D)
           s == InOrder(D)
<1>1. n \in Nat
  BY FS_CardinalityType
<1>2. \E r \in [1 .. n -> D] : Ascends(r)
  BY OrderExists
<1>3. s \in [1 .. n -> D] /\ Ascends(s)
  BY <1>2 DEF InOrder, Ascends
<1> HIDE DEF s
<1>4. DOMAIN s = 1 .. n /\ s \in Seq(D) /\ Len(s) = n
  BY <1>1, <1>3
<1>5. \A i, j \in 1 .. n : s[i] = s[j] => i = j
  <2> SUFFICES ASSUME NEW i \in 1 .. n, NEW j \in 1 .. n, s[i] = s[j], i # j PROVE FALSE
    OBVIOUS
  <2>1. s[i] \in Nat /\ s[j] \in Nat
    BY <1>3
  <2>2. i < j \/ j < i
    BY <1>1
  <2> QED
    BY <1>3, <1>4, <2>1, <2>2 DEF Ascends
<1>6. s \in Injection(1 .. n, D)
  BY <1>3, <1>4, <1>5 DEF Injection, IsInjective
<1>7. Cardinality(1 .. n) = n
  BY <1>1, FS_Interval
<1>8. s \in Surjection(1 .. n, D)
  BY <1>6, <1>7, FS_Injection
<1>9. ToSet(s) = D
  BY <1>3, <1>4, <1>8 DEF Surjection, ToSet
<1>10. Distinct(s)
  BY <1>4, <1>5 DEF Distinct
<1> QED
  BY <1>4, <1>9, <1>10 DEF s

(* The first n of a set, by id: no more than n, and all if they are no     *)
(* more.                                                                   *)
LEMMA FirstFacts ==
  ASSUME NEW D \in SUBSET Nat, IsFiniteSet(D), NEW n \in Nat, NEW F,
         F = {p \in D : Cardinality({q \in D : q < p}) < n}
  PROVE  Cardinality(F) <= n /\ (Cardinality(D) <= n => F = D)
<1>1. F \in SUBSET D /\ IsFiniteSet(F) /\ Cardinality(F) \in Nat
  <2>1. F \in SUBSET D
    OBVIOUS
  <2>2. IsFiniteSet(F)
    BY <2>1, FS_Subset
  <2> QED
    BY <2>1, <2>2, FS_CardinalityType
<1>2. Cardinality(F) <= n
  <2>1. CASE F = {}
    <3>1. Cardinality(F) = 0
      BY <2>1, FS_EmptySet
    <3> QED
      BY <3>1
  <2>2. CASE F # {}
    <3>1. F \in SUBSET Nat
      BY <1>1
    <3>2. PICK m \in F : \A x \in F : x <= m
      BY <1>1, <2>2, <3>1, GreatestNatural
    <3> DEFINE B == {q \in D : q < m}
    <3>3. B \in SUBSET D /\ Cardinality(B) < n
      BY <1>1
    <3>4. F \ {m} \in SUBSET B
      <4> SUFFICES ASSUME NEW x \in F, x # m PROVE x \in B
        OBVIOUS
      <4>1. x <= m /\ x \in Nat /\ m \in Nat /\ x \in D
        BY <1>1, <3>2
      <4> QED
        BY <4>1
    <3> HIDE DEF B
    <3>5. IsFiniteSet(B) /\ Cardinality(B) \in Nat
      <4>1. IsFiniteSet(B)
        BY <3>3, FS_Subset
      <4> QED
        BY <4>1, FS_CardinalityType
    <3>6. Cardinality(F \ {m}) <= Cardinality(B)
      BY <3>4, <3>5, FS_Subset
    <3>7. Cardinality(F \ {m}) = Cardinality(F) - 1
      BY <1>1, <3>2, FS_RemoveElement
    <3> QED
      BY <1>1, <3>3, <3>5, <3>6, <3>7
  <2> QED
    BY <2>1, <2>2
<1>3. ASSUME Cardinality(D) <= n, NEW p \in D PROVE p \in F
  <2> DEFINE B == {q \in D : q < p}
  <2>1. B \in SUBSET D /\ p \notin B
    OBVIOUS
  <2>2. (p \in F) <=> Cardinality(B) < n
    OBVIOUS
  <2> HIDE DEF B
  <2>3. IsFiniteSet(B) /\ Cardinality(B) <= Cardinality(D) /\ Cardinality(B) # Cardinality(D)
    BY <2>1, FS_Subset
  <2>4. Cardinality(B) \in Nat /\ Cardinality(D) \in Nat
    BY <2>3, FS_CardinalityType
  <2> QED
    BY <1>3, <2>2, <2>3, <2>4
<1> QED
  BY <1>1, <1>2, <1>3

(* Ancestors are the least closed set that holds the parents.              *)
LEMMA AncestorFacts ==
  ASSUME NEW E, NEW g \in [E -> SUBSET E], NEW S \in SUBSET E
  PROVE  /\ Ancestors(g, S) \in SUBSET E
         /\ \A e \in S \cup Ancestors(g, S) : g[e] \subseteq Ancestors(g, S)
         /\ \A c \in SUBSET E :
              (\A e \in S \cup c : g[e] \subseteq c) => Ancestors(g, S) \subseteq c
<1>0. DOMAIN g = E
  OBVIOUS
<1>1. Parents(g, S) \in SUBSET E
  BY DEF Parents
<1>2. ASSUME NEW c \in SUBSET E, \A e \in S \cup c : g[e] \subseteq c PROVE Ancestors(g, S) \subseteq c
  <2>1. Parents(g, S) \subseteq c /\ Closed(g, c)
    BY <1>2 DEF Parents, Closed
  <2> QED
    BY <1>0, <2>1 DEF Ancestors
<1>3. ASSUME NEW e \in S PROVE g[e] \subseteq Ancestors(g, S)
  <2>1. g[e] \subseteq Parents(g, S)
    BY DEF Parents
  <2> QED
    BY <1>0, <1>1, <2>1 DEF Ancestors
<1>4. ASSUME NEW e \in Ancestors(g, S), NEW a \in g[e] PROVE a \in Ancestors(g, S)
  <2>1. e \in E /\ a \in E
    BY <1>0 DEF Ancestors
  <2>2. ASSUME NEW c \in SUBSET E, Parents(g, S) \subseteq c, Closed(g, c) PROVE a \in c
    <3>1. e \in c
      BY <1>0, <2>2 DEF Ancestors
    <3> QED
      BY <2>2, <3>1 DEF Closed, Parents
  <2> QED
    BY <1>0, <2>1, <2>2 DEF Ancestors
<1>5. Ancestors(g, S) \in SUBSET E
  BY <1>0 DEF Ancestors
<1> QED
  BY <1>2, <1>3, <1>4, <1>5

(* Appending what is new, and reversing.                                   *)
LEMMA AppendFacts ==
  ASSUME NEW s \in Seq(Event), NEW t \in Seq(Event), Distinct(s), Distinct(t),
         ToSet(s) \cap ToSet(t) = {}
  PROVE  /\ s \o t \in Seq(Event) /\ Len(s \o t) = Len(s) + Len(t)
         /\ Distinct(s \o t) /\ ToSet(s \o t) = ToSet(s) \cup ToSet(t)
<1> DEFINE u == s \o t
<1>1. u \in Seq(Event) /\ Len(u) = Len(s) + Len(t)
  OBVIOUS
<1>2. \A i \in 1 .. Len(s) : u[i] = s[i]
  OBVIOUS
<1>3. \A i \in 1 .. Len(t) : u[i + Len(s)] = t[i]
  OBVIOUS
<1> HIDE DEF u
<1>4. DOMAIN u = 1 .. (Len(s) + Len(t)) /\ DOMAIN s = 1 .. Len(s) /\ DOMAIN t = 1 .. Len(t)
      /\ Len(s) \in Nat /\ Len(t) \in Nat
  BY <1>1
<1>5. ASSUME NEW i \in DOMAIN u
      PROVE  (i \in DOMAIN s /\ u[i] = s[i]) \/ (i - Len(s) \in DOMAIN t /\ u[i] = t[i - Len(s)])
  <2>1. CASE i <= Len(s)
    BY <1>2, <1>4, <2>1
  <2>2. CASE i > Len(s)
    <3>1. i - Len(s) \in 1 .. Len(t) /\ (i - Len(s)) + Len(s) = i
      BY <1>4, <2>2
    <3>2. u[(i - Len(s)) + Len(s)] = t[i - Len(s)]
      BY <1>3, <3>1
    <3> QED
      BY <1>4, <3>1, <3>2
  <2> QED
    BY <1>4, <2>1, <2>2
<1>6. ToSet(u) = ToSet(s) \cup ToSet(t)
  <2>1. ToSet(u) \subseteq ToSet(s) \cup ToSet(t)
    BY <1>5 DEF ToSet
  <2>2. ASSUME NEW i \in DOMAIN s PROVE s[i] \in ToSet(u)
    <3>1. i \in DOMAIN u /\ u[i] = s[i]
      BY <1>2, <1>4
    <3> QED
      BY <3>1 DEF ToSet
  <2>3. ASSUME NEW i \in DOMAIN t PROVE t[i] \in ToSet(u)
    <3>1. i + Len(s) \in DOMAIN u /\ u[i + Len(s)] = t[i]
      BY <1>3, <1>4
    <3> QED
      BY <3>1 DEF ToSet
  <2> QED
    BY <2>1, <2>2, <2>3 DEF ToSet
<1>7. Distinct(u)
  <2> SUFFICES ASSUME NEW i \in DOMAIN u, NEW j \in DOMAIN u, u[i] = u[j] PROVE i = j
    BY DEF Distinct
  <2>1. i \in Nat /\ j \in Nat
    BY <1>4
  <2>2. CASE i \in DOMAIN s /\ u[i] = s[i]
    <3>1. u[i] \in ToSet(s)
      BY <2>2 DEF ToSet
    <3>2. u[j] \notin ToSet(t)
      BY <3>1
    <3>3. j \in DOMAIN s /\ u[j] = s[j]
      BY <1>5, <3>2 DEF ToSet
    <3> QED
      BY <2>2, <3>3 DEF Distinct
  <2>3. CASE i - Len(s) \in DOMAIN t /\ u[i] = t[i - Len(s)]
    <3>1. u[i] \in ToSet(t)
      BY <2>3 DEF ToSet
    <3>2. u[j] \notin ToSet(s)
      BY <3>1
    <3>3. j - Len(s) \in DOMAIN t /\ u[j] = t[j - Len(s)]
      BY <1>5, <3>2 DEF ToSet
    <3>4. i - Len(s) = j - Len(s)
      BY <2>3, <3>3 DEF Distinct
    <3> QED
      BY <1>4, <2>1, <3>4
  <2> QED
    BY <1>5, <2>2, <2>3
<1> QED
  BY <1>1, <1>6, <1>7 DEF u

(* Reversing loses nothing.                                                *)
LEMMA ReverseFacts ==
  ASSUME NEW s \in Seq(Event), Distinct(s)
  PROVE  /\ Reverse(s) \in Seq(Event) /\ Len(Reverse(s)) = Len(s)
         /\ Distinct(Reverse(s)) /\ ToSet(Reverse(s)) = ToSet(s)
<1> DEFINE n == Len(s)
           r == Reverse(s)
<1>1. n \in Nat /\ DOMAIN s = 1 .. n
  OBVIOUS
<1>2. r = [i \in 1 .. n |-> s[(n - i) + 1]]
  BY DEF Reverse
<1> HIDE DEF r
<1>3. r \in Seq(Event) /\ Len(r) = n /\ DOMAIN r = 1 .. n /\ \A i \in 1 .. n : r[i] = s[(n - i) + 1]
  <2>1. \A i \in 1 .. n : (n - i) + 1 \in 1 .. n /\ s[(n - i) + 1] \in Event
    BY <1>1
  <2>2. r \in [1 .. n -> Event]
    BY <1>2, <2>1
  <2> QED
    BY <1>1, <1>2, <2>2
<1> HIDE DEF n
<1>4. Distinct(r)
  <2> SUFFICES ASSUME NEW i \in 1 .. n, NEW j \in 1 .. n, r[i] = r[j] PROVE i = j
    BY <1>3 DEF Distinct
  <2>1. (n - i) + 1 \in DOMAIN s /\ (n - j) + 1 \in DOMAIN s /\ s[(n - i) + 1] = s[(n - j) + 1]
    BY <1>1, <1>3
  <2>2. (n - i) + 1 = (n - j) + 1
    BY <2>1 DEF Distinct
  <2> QED
    BY <1>1, <2>2
<1>5. ToSet(r) = ToSet(s)
  <2>1. ASSUME NEW i \in DOMAIN r PROVE r[i] \in ToSet(s)
    <3>1. (n - i) + 1 \in DOMAIN s /\ r[i] = s[(n - i) + 1]
      BY <1>1, <1>3
    <3> QED
      BY <3>1 DEF ToSet
  <2>2. ASSUME NEW i \in DOMAIN s PROVE s[i] \in ToSet(r)
    <3>1. (n - i) + 1 \in DOMAIN r /\ (n - ((n - i) + 1)) + 1 = i
      BY <1>1, <1>3
    <3>2. r[(n - i) + 1] = s[(n - ((n - i) + 1)) + 1]
      BY <1>3, <3>1
    <3> QED
      BY <3>1, <3>2 DEF ToSet
  <2> QED
    BY <2>1, <2>2 DEF ToSet
<1> QED
  BY <1>3, <1>4, <1>5 DEF n, r

(* A sequence without repetition has as many elements as it is long.       *)
LEMMA DistinctCount ==
  ASSUME NEW s \in Seq(Event), Distinct(s)
  PROVE  Cardinality(ToSet(s)) = Len(s)
<1> DEFINE n == Len(s)
<1>1. n \in Nat /\ DOMAIN s = 1 .. n
  OBVIOUS
<1>2. s \in Bijection(1 .. n, ToSet(s))
  <2>1. s \in [1 .. n -> ToSet(s)]
    BY <1>1 DEF ToSet
  <2>2. s \in Injection(1 .. n, ToSet(s))
    BY <1>1, <2>1 DEF Injection, IsInjective, Distinct
  <2>3. s \in Surjection(1 .. n, ToSet(s))
    BY <1>1, <2>1 DEF Surjection, ToSet
  <2> QED
    BY <2>2, <2>3 DEF Bijection
<1>3. ExistsBijection(1 .. n, ToSet(s))
  BY <1>2 DEF ExistsBijection
<1> HIDE DEF n
<1>4. Cardinality(ToSet(s)) = n
  BY <1>1, <1>3, FS_CountingElements
<1> QED
  BY <1>4 DEF n

-----------------------------------------------------------------------------
(* The walk of /get_missing_events.                                        *)

(* Where the walk starts.                                                  *)
Origins == (latest \ earliest) \cap held

(* The request does not change.                                            *)
Request ==
  /\ prev \in [Event -> SUBSET Event] /\ held \subseteq Event
  /\ earliest \subseteq Event /\ latest \subseteq Event /\ limit \in Int

(* While walking: what has been seen is what the caller has and what has   *)
(* been found; and as long as no query can have been cut short, every      *)
(* event found is still to be visited or has had its prev-events found.    *)
Walking ==
  /\ limit > 0
  /\ seen = earliest \cup ToSet(results)
  /\ ToSet(results) \subseteq Wanted \ earliest
  /\ front \cup next \subseteq Origins \cup ToSet(results)
  /\ Len(results) + MostPrevs <= limit =>
       \A e \in Origins \cup ToSet(results) :
         e \in front \cup next \/ Beyond[e] \subseteq ToSet(results)

(* The inductive invariant.                                                *)
WalkIInv ==
  /\ Request /\ WalkTypeOK
  /\ Distinct(results) /\ Len(results) <= Max({limit, 0}) /\ ToSet(results) \subseteq Wanted
  /\ phase = "ask" => results = << >> /\ front = {} /\ next = {}
  /\ phase = "walk" => Walking
  /\ phase # "done" => ~truncated
  /\ CompleteWithRoom

(* What the walk is after, as a closure.                                   *)
LEMMA WantedFacts ==
  ASSUME Request
  PROVE  /\ Beyond \in [Event -> SUBSET Event] /\ Origins \in SUBSET Event /\ Wanted \in SUBSET Event
         /\ \A e \in Origins \cup Wanted : Beyond[e] \subseteq Wanted
         /\ \A c \in SUBSET Event :
              (\A e \in Origins \cup c : Beyond[e] \subseteq c) => Wanted \subseteq c
<1>1. Beyond \in [Event -> SUBSET Event]
  BY DEF Beyond, Request
<1>2. Origins \in SUBSET Event
  BY DEF Origins, Request
<1>3. Wanted = Ancestors(Beyond, Origins)
  BY DEF Wanted, Origins
<1> QED
  BY <1>1, <1>2, <1>3, AncestorFacts

(* MostPrevs bounds the prev-events of every event.                        *)
LEMMA MostPrevsFacts ==
  ASSUME Request, Event # {}
  PROVE  /\ MostPrevs \in Nat
         /\ \A e \in Event : /\ IsFiniteSet(prev[e]) /\ Cardinality(prev[e]) \in Nat
                             /\ Cardinality(prev[e]) <= MostPrevs
<1>1. ASSUME NEW e \in Event
      PROVE  /\ IsFiniteSet(prev[e]) /\ Cardinality(prev[e]) \in Nat
             /\ Cardinality(prev[e]) <= Cardinality(Event)
  <2>1. prev[e] \in SUBSET Event /\ IsFiniteSet(Event)
    BY EventAssumption DEF Request
  <2>2. IsFiniteSet(prev[e]) /\ Cardinality(prev[e]) <= Cardinality(Event)
    BY <2>1, FS_Subset
  <2> QED
    BY <2>2, FS_CardinalityType
<1>2. Cardinality(Event) \in Nat
  BY EventAssumption, FS_CardinalityType
<1> DEFINE T == {Cardinality(prev[e]) : e \in Event}
<1>3. T \in SUBSET Nat /\ T # {} /\ \A y \in T : y <= Cardinality(Event)
  BY <1>1
<1>4. Max(T) \in T /\ \A y \in T : y <= Max(T)
  <2> HIDE DEF T
  <2> QED
    BY <1>2, <1>3, MaxFacts
<1>5. MostPrevs = Max(T)
  BY DEF MostPrevs
<1>6. \A e \in Event : Cardinality(prev[e]) \in T
  OBVIOUS
<1> HIDE DEF T
<1> QED
  BY <1>1, <1>3, <1>4, <1>5, <1>6

(* Where nothing has prev-events, or nothing is asked for, nothing is      *)
(* wanted.                                                                 *)
LEMMA NothingWanted ==
  ASSUME Request, Origins = {} \/ \A e \in Event : prev[e] = {}
  PROVE  Wanted = {}
<1>1. \A e \in Origins : Beyond[e] = {}
  <2>1. \A e \in Origins : e \in Event
    BY DEF Origins, Request
  <2> QED
    BY <2>1 DEF Beyond
<1>2. {} \in SUBSET Event /\ \A e \in Origins \cup {} : Beyond[e] \subseteq {}
  BY <1>1
<1> QED
  BY <1>2, WantedFacts

(* The limit, when it is not negative.                                     *)
LEMMA MaxWithZero ==
  ASSUME NEW n \in Int
  PROVE  Max({n, 0}) = IF n > 0 THEN n ELSE 0
<1> DEFINE m == IF n > 0 THEN n ELSE 0
<1>1. m \in {n, 0} /\ \A y \in {n, 0} : m >= y
  OBVIOUS
<1>2. \A x \in {n, 0} : (\A y \in {n, 0} : x >= y) => x = m
  OBVIOUS
<1> HIDE DEF m
<1>3. (CHOOSE x \in {n, 0} : \A y \in {n, 0} : x >= y) = m
  BY <1>1, <1>2
<1> QED
  BY <1>3 DEF Max, m

(* The limit after capping.                                                *)
LEMMA MinIsInt ==
  ASSUME NEW n \in Int
  PROVE  Min({n, MaxMissingEvents}) \in Int
<1> DEFINE m == IF n < MaxMissingEvents THEN n ELSE MaxMissingEvents
           T == {n, MaxMissingEvents}
<1>0. MaxMissingEvents \in Int
  BY DEF MaxMissingEvents
<1>1. m \in T /\ \A y \in T : m <= y
  BY <1>0
<1>2. \E x \in T : \A y \in T : x <= y
  BY <1>1
<1>3. Min(T) \in T
  <2> HIDE DEF T
  <2> QED
    BY <1>2 DEF Min
<1> QED
  BY <1>0, <1>3

(* The invariant holds at the start.                                       *)
LEMMA WalkInitOK == WalkInit => WalkIInv
<1> SUFFICES ASSUME WalkInit PROVE WalkIInv
  OBVIOUS
<1>1. Request
  <2>1. PICK n \in AskedLimit : limit = Min({n, MaxMissingEvents})
    BY DEF WalkInit
  <2>2. n \in Int
    BY EventAssumption
  <2>3. limit \in Int
    BY <2>1, <2>2, MinIsInt
  <2> QED
    BY <2>3, EventAssumption DEF WalkInit, Request
<1>2. /\ results = << >> /\ Len(results) = 0 /\ ToSet(results) = {}
      /\ Distinct(results) /\ results \in Seq(Event)
  BY DEF WalkInit, ToSet, Distinct
<1>3. Len(results) <= Max({limit, 0})
  <2>1. limit \in Int
    BY <1>1 DEF Request
  <2> QED
    BY <1>2, <2>1, MaxWithZero
<1>4. phase = "ask" /\ front = {} /\ next = {} /\ seen = {} /\ truncated = FALSE
  BY DEF WalkInit
<1> QED
  BY <1>1, <1>2, <1>3, <1>4 DEF WalkIInv, WalkTypeOK, CompleteWithRoom

(* The request stays, and with it what is wanted.                          *)
LEMMA RequestStays ==
  ASSUME Request, UNCHANGED request
  PROVE  /\ Request' /\ limit' = limit /\ earliest' = earliest /\ latest' = latest /\ held' = held
         /\ prev' = prev /\ Wanted' = Wanted /\ Origins' = Origins
         /\ Beyond' = Beyond /\ MostPrevs' = MostPrevs
<1>1. limit' = limit /\ earliest' = earliest /\ latest' = latest /\ held' = held /\ prev' = prev
  BY DEF request
<1>2. Origins' = Origins /\ Beyond' = Beyond /\ MostPrevs' = MostPrevs
  BY <1>1 DEF Origins, Beyond, MostPrevs
<1>3. Wanted' = Wanted
  BY <1>1, <1>2 DEF Wanted
<1> QED
  BY <1>1, <1>2, <1>3 DEF Request

(* Nothing to answer: with room for all, nothing was wanted.               *)
LEMMA NothingOK ==
  ASSUME WalkIInv, Nothing PROVE WalkIInv'
<1>1. Request /\ UNCHANGED request
  BY DEF WalkIInv, Nothing
<1>2. /\ Request' /\ limit' = limit /\ earliest' = earliest /\ latest' = latest /\ held' = held
      /\ prev' = prev /\ Wanted' = Wanted /\ Origins' = Origins
      /\ Beyond' = Beyond /\ MostPrevs' = MostPrevs
  BY <1>1, RequestStays
<1>3. /\ phase' = "done" /\ seen' = seen /\ front' = front /\ next' = next
      /\ results' = results /\ truncated' = truncated
      /\ phase = "ask" /\ (limit <= 0 \/ latest \subseteq earliest)
  BY DEF Nothing
<1>4. /\ WalkTypeOK /\ Distinct(results) /\ Len(results) <= Max({limit, 0})
      /\ ToSet(results) \subseteq Wanted
      /\ results = << >> /\ ~truncated
  BY <1>3 DEF WalkIInv
<1>5. ASSUME Len(results) + MostPrevs <= limit PROVE Wanted = {}
  <2>0. Len(results) = 0 /\ limit \in Int
    BY <1>1, <1>4 DEF Request
  <2>1. CASE Origins = {}
    BY <1>1, <2>1, NothingWanted
  <2>2. CASE Origins # {}
    <3>1. limit <= 0 /\ Event # {}
      BY <1>1, <1>3, <2>2 DEF Origins, Request
    <3>2. MostPrevs \in Nat /\ \A e \in Event :
            IsFiniteSet(prev[e]) /\ Cardinality(prev[e]) \in Nat /\ Cardinality(prev[e]) <= MostPrevs
      BY <1>1, <3>1, MostPrevsFacts
    <3>3. MostPrevs = 0
      BY <1>5, <2>0, <3>1, <3>2
    <3>4. \A e \in Event : IsFiniteSet(prev[e]) /\ Cardinality(prev[e]) = 0
      BY <3>2, <3>3
    <3>5. \A e \in Event : prev[e] = {}
      BY <3>4, FS_EmptySet
    <3> QED
      BY <1>1, <3>5, NothingWanted
  <2> QED
    BY <2>1, <2>2
<1>6. ToSet(results) = {}
  BY <1>4 DEF ToSet
<1>7. CompleteWithRoom'
  BY <1>2, <1>3, <1>4, <1>5, <1>6 DEF CompleteWithRoom
<1>8. WalkTypeOK'
  BY <1>2, <1>3, <1>4 DEF WalkTypeOK
<1>9. Distinct(results)' /\ ToSet(results)' \subseteq Wanted' /\ Len(results') <= Max({limit', 0})
  BY <1>2, <1>3, <1>4 DEF Distinct
<1> QED
  BY <1>2, <1>3, <1>7, <1>8, <1>9 DEF WalkIInv

(* The walk starts with its origins to visit.                              *)
LEMMA StartOK ==
  ASSUME WalkIInv, Start PROVE WalkIInv'
<1>1. Request /\ UNCHANGED request
  BY DEF WalkIInv, Start
<1>2. /\ Request' /\ limit' = limit /\ earliest' = earliest /\ latest' = latest /\ held' = held
      /\ prev' = prev /\ Wanted' = Wanted /\ Origins' = Origins
      /\ Beyond' = Beyond /\ MostPrevs' = MostPrevs
  BY <1>1, RequestStays
<1>3. /\ phase' = "walk" /\ seen' = earliest /\ front' = Origins /\ next' = next
      /\ results' = results /\ truncated' = truncated /\ phase = "ask" /\ limit > 0
  BY DEF Start, Origins
<1>4. /\ WalkTypeOK /\ Distinct(results) /\ Len(results) <= Max({limit, 0})
      /\ ToSet(results) \subseteq Wanted
      /\ results = << >> /\ ~truncated /\ next = {}
  BY <1>3 DEF WalkIInv
<1>5. ToSet(results) = {}
  BY <1>4 DEF ToSet
<1>6. Walking'
  BY <1>2, <1>3, <1>4, <1>5 DEF Walking
<1>7. WalkTypeOK'
  <2>1. Origins \subseteq Event \ earliest /\ earliest \subseteq Event
    BY <1>1 DEF Origins, Request
  <2> QED
    BY <1>2, <1>3, <1>4, <2>1 DEF WalkTypeOK
<1>8. Distinct(results)' /\ ToSet(results)' \subseteq Wanted' /\ Len(results') <= Max({limit', 0})
  BY <1>2, <1>3, <1>4 DEF Distinct
<1> QED
  BY <1>2, <1>3, <1>4, <1>6, <1>7, <1>8 DEF WalkIInv, CompleteWithRoom

(* The next generation takes the place of this one.                        *)
LEMMA NextGenerationOK ==
  ASSUME WalkIInv, NextGeneration PROVE WalkIInv'
<1>1. Request /\ UNCHANGED request
  BY DEF WalkIInv, NextGeneration
<1>2. /\ Request' /\ limit' = limit /\ earliest' = earliest /\ latest' = latest /\ held' = held
      /\ prev' = prev /\ Wanted' = Wanted /\ Origins' = Origins
      /\ Beyond' = Beyond /\ MostPrevs' = MostPrevs
  BY <1>1, RequestStays
<1>3. /\ phase' = "walk" /\ seen' = seen /\ front' = next /\ next' = {} /\ front = {}
      /\ results' = results /\ truncated' = truncated /\ phase = "walk"
  BY DEF NextGeneration
<1>4. /\ WalkTypeOK /\ Distinct(results) /\ Len(results) <= Max({limit, 0})
      /\ ToSet(results) \subseteq Wanted
      /\ ~truncated /\ Walking
  BY <1>3 DEF WalkIInv
<1>5. ToSet(results') = ToSet(results)
  BY <1>3
<1>6. Walking'
  BY <1>2, <1>3, <1>4, <1>5 DEF Walking
<1>7. WalkTypeOK'
  BY <1>2, <1>3, <1>4 DEF WalkTypeOK
<1>8. Distinct(results)' /\ ToSet(results)' \subseteq Wanted' /\ Len(results') <= Max({limit', 0})
  BY <1>2, <1>3, <1>4 DEF Distinct
<1> QED
  BY <1>2, <1>3, <1>4, <1>6, <1>7, <1>8 DEF WalkIInv, CompleteWithRoom

(* A visit finds what is wanted, fits, and with room leaves nothing out.   *)
LEMMA VisitOK ==
  ASSUME WalkIInv, NEW e \in Event, Visit(e) PROVE WalkIInv'
<1> DEFINE fresh == PrevEvents(e) \ seen
           add == InOrder(fresh)
           room == limit - Len(results)
<1>1. Request /\ UNCHANGED request
  BY DEF WalkIInv, Visit
<1>2. /\ Request' /\ limit' = limit /\ earliest' = earliest /\ latest' = latest /\ held' = held
      /\ prev' = prev /\ Wanted' = Wanted /\ Origins' = Origins
      /\ Beyond' = Beyond /\ MostPrevs' = MostPrevs
  BY <1>1, RequestStays
<1>3. /\ phase' = "walk" /\ phase = "walk" /\ Len(results) < limit /\ e \in front
      /\ front' = front \ {e} /\ seen' = seen \cup fresh /\ next' = next \cup fresh
      /\ results' = results \o add /\ truncated' = truncated
  BY DEF Visit
<1>4. /\ WalkTypeOK /\ Distinct(results) /\ Len(results) <= Max({limit, 0})
      /\ ToSet(results) \subseteq Wanted
      /\ ~truncated /\ Walking
  BY <1>3 DEF WalkIInv
<1>5. /\ results \in Seq(Event) /\ Len(results) \in Nat /\ limit \in Int /\ room \in Nat /\ room > 0
      /\ seen = earliest \cup ToSet(results)
  BY <1>1, <1>3, <1>4 DEF WalkTypeOK, Request, Walking
<1>6. prev[e] \in SUBSET Event /\ prev[e] \in SUBSET Nat /\ IsFiniteSet(prev[e])
  <2>1. prev[e] \in SUBSET Event
    BY <1>1 DEF Request
  <2> QED
    BY <2>1, EventAssumption, FS_Subset
<1>7. /\ PrevEvents(e) \in SUBSET prev[e] /\ Cardinality(PrevEvents(e)) <= room
      /\ Cardinality(prev[e]) <= room => PrevEvents(e) = prev[e]
  <2>1. PrevEvents(e) = {p \in prev[e] : Cardinality({q \in prev[e] : q < p}) < room}
    BY DEF PrevEvents
  <2> HIDE DEF room
  <2> QED
    BY <1>5, <1>6, <2>1, FirstFacts
<1>8. /\ fresh \in SUBSET Event /\ fresh \in SUBSET Nat /\ IsFiniteSet(fresh)
      /\ Cardinality(fresh) \in Nat /\ Cardinality(fresh) <= room
  <2>1. fresh \in SUBSET prev[e] /\ fresh \in SUBSET PrevEvents(e)
    BY <1>7
  <2>2. IsFiniteSet(PrevEvents(e))
    BY <1>6, <1>7, FS_Subset
  <2> HIDE DEF fresh, room
  <2>3. IsFiniteSet(fresh) /\ Cardinality(fresh) <= Cardinality(PrevEvents(e))
    BY <2>1, <2>2, FS_Subset
  <2>4. Cardinality(fresh) \in Nat /\ Cardinality(PrevEvents(e)) \in Nat
    BY <2>2, <2>3, FS_CardinalityType
  <2> QED
    BY <1>5, <1>6, <1>7, <2>1, <2>3, <2>4
<1>9. add \in Seq(Event) /\ Len(add) = Cardinality(fresh) /\ ToSet(add) = fresh /\ Distinct(add)
  <2> HIDE DEF fresh
  <2>1. add \in Seq(fresh) /\ Len(add) = Cardinality(fresh) /\ ToSet(add) = fresh /\ Distinct(add)
    BY <1>8, InOrderFacts
  <2>2. add \in Seq(Event)
    BY <1>8, <2>1, SeqMonotonic
  <2> QED
    BY <2>1, <2>2
<1>10. ToSet(results) \cap ToSet(add) = {}
  BY <1>5, <1>9
<1> HIDE DEF add
<1>11. /\ results' \in Seq(Event) /\ Len(results') = Len(results) + Cardinality(fresh)
       /\ Distinct(results \o add) /\ ToSet(results') = ToSet(results) \cup fresh
  <2> HIDE DEF fresh
  <2>1. /\ results \o add \in Seq(Event) /\ Len(results \o add) = Len(results) + Len(add)
        /\ Distinct(results \o add) /\ ToSet(results \o add) = ToSet(results) \cup ToSet(add)
    BY <1>4, <1>5, <1>9, <1>10, AppendFacts
  <2> QED
    BY <1>3, <1>9, <2>1
<1>12. Distinct(results)'
  BY <1>3, <1>11 DEF Distinct
<1>13. Len(results') <= limit /\ Len(results') \in Nat
  <2> HIDE DEF fresh
  <2> QED
    BY <1>5, <1>8, <1>11
<1>14. Len(results') <= Max({limit', 0})
  BY <1>2, <1>3, <1>5, <1>13, MaxWithZero
<1>15. e \in Origins \cup ToSet(results) /\ e \notin earliest
  BY <1>3, <1>4 DEF Walking, WalkTypeOK
<1>16. Beyond[e] = prev[e] \ earliest
  BY <1>15 DEF Beyond
<1>17. fresh \subseteq Wanted \ earliest
  <2>1. fresh \subseteq Beyond[e]
    BY <1>5, <1>7, <1>16
  <2>2. e \in Origins \cup Wanted
    BY <1>4, <1>15
  <2>3. Beyond[e] \subseteq Wanted
    BY <1>1, <2>2, WantedFacts
  <2> QED
    BY <1>16, <2>1, <2>3
<1>18. ASSUME Len(results') + MostPrevs <= limit, NEW d \in Origins \cup ToSet(results')
       PROVE  d \in (front \ {e}) \cup (next \cup fresh) \/ Beyond[d] \subseteq ToSet(results')
  <2>1. MostPrevs \in Nat /\ Cardinality(prev[e]) \in Nat /\ Cardinality(prev[e]) <= MostPrevs
    BY <1>1, MostPrevsFacts
  <2>2. Len(results) + MostPrevs <= limit /\ Cardinality(prev[e]) <= room
    <3> HIDE DEF fresh
    <3> QED
      BY <1>5, <1>8, <1>11, <1>18, <2>1
  <2>3. CASE d \in fresh
    BY <2>3
  <2>4. CASE d = e
    <3>1. PrevEvents(e) = prev[e]
      BY <1>7, <2>2
    <3>2. Beyond[e] \subseteq ToSet(results) \cup fresh
      BY <1>5, <1>16, <3>1
    <3> QED
      BY <1>11, <2>4, <3>2
  <2>5. CASE d # e /\ d \notin fresh
    <3>1. d \in Origins \cup ToSet(results)
      BY <1>11, <2>5
    <3>2. d \in front \cup next \/ Beyond[d] \subseteq ToSet(results)
      BY <1>4, <2>2, <3>1 DEF Walking
    <3> QED
      BY <1>11, <2>5, <3>2
  <2> QED
    BY <2>3, <2>4, <2>5
<1> HIDE DEF fresh, room
<1>19. Walking'
  <2>1. limit' > 0 /\ seen' = earliest' \cup ToSet(results')
    BY <1>2, <1>3, <1>4, <1>5, <1>11 DEF Walking
  <2>2. ToSet(results') \subseteq Wanted' \ earliest'
    BY <1>2, <1>4, <1>11, <1>17 DEF Walking
  <2>3. front' \cup next' \subseteq Origins' \cup ToSet(results')
    BY <1>2, <1>3, <1>4, <1>11 DEF Walking
  <2>4. Len(results') + MostPrevs' <= limit' =>
          \A d \in Origins' \cup ToSet(results') :
            d \in front' \cup next' \/ Beyond'[d] \subseteq ToSet(results')
    BY <1>2, <1>3, <1>18
  <2> QED
    BY <2>1, <2>2, <2>3, <2>4 DEF Walking
<1>20. WalkTypeOK'
  <2>1. fresh \cap earliest = {}
    BY <1>17
  <2> QED
    BY <1>2, <1>3, <1>4, <1>8, <1>11, <2>1 DEF WalkTypeOK
<1>21. ToSet(results') \subseteq Wanted'
  BY <1>2, <1>4, <1>11, <1>17
<1> QED
  BY <1>2, <1>3, <1>4, <1>12, <1>14, <1>19, <1>20, <1>21 DEF WalkIInv, CompleteWithRoom

(* At the end, with room for all, what was found is closed.                *)
LEMMA FinishOK ==
  ASSUME WalkIInv, Finish PROVE WalkIInv'
<1>1. Request /\ UNCHANGED request
  BY DEF WalkIInv, Finish
<1>2. /\ Request' /\ limit' = limit /\ earliest' = earliest /\ latest' = latest /\ held' = held
      /\ prev' = prev /\ Wanted' = Wanted /\ Origins' = Origins
      /\ Beyond' = Beyond /\ MostPrevs' = MostPrevs
  BY <1>1, RequestStays
<1>3. /\ phase' = "done" /\ phase = "walk" /\ seen' = seen /\ front' = front /\ next' = next
      /\ results' = Reverse(results) /\ truncated' = (Len(results) >= limit)
      /\ Len(results) >= limit \/ (front = {} /\ next = {})
  BY DEF Finish
<1>4. /\ WalkTypeOK /\ Distinct(results) /\ Len(results) <= Max({limit, 0})
      /\ ToSet(results) \subseteq Wanted
      /\ Walking
  BY <1>3 DEF WalkIInv
<1>5. results \in Seq(Event) /\ Len(results) \in Nat /\ limit \in Int /\ limit > 0
  BY <1>1, <1>4 DEF WalkTypeOK, Request, Walking
<1>6. /\ results' \in Seq(Event) /\ Len(results') = Len(results)
      /\ Distinct(Reverse(results)) /\ ToSet(results') = ToSet(results)
  BY <1>3, <1>4, <1>5, ReverseFacts
<1>7. Distinct(results)'
  BY <1>3, <1>6 DEF Distinct
<1>8. WalkTypeOK'
  BY <1>2, <1>3, <1>4, <1>6 DEF WalkTypeOK
<1>9. ToSet(results') \subseteq Wanted' /\ Len(results') <= Max({limit', 0})
  BY <1>2, <1>4, <1>6
<1>10. ASSUME Len(results) + MostPrevs <= limit
       PROVE  ToSet(results) = Wanted /\ (MostPrevs > 0 => Len(results) < limit)
  <2>1. CASE Event = {}
    <3>1. Wanted = {} /\ ToSet(results) = {}
      BY <1>1, <1>4, <2>1, WantedFacts
    <3>2. results = << >>
      BY <1>5, <2>1
    <3> QED
      BY <1>5, <3>1, <3>2
  <2>2. CASE Event # {}
    <3>1. MostPrevs \in Nat /\ \A e \in Event :
            IsFiniteSet(prev[e]) /\ Cardinality(prev[e]) \in Nat /\ Cardinality(prev[e]) <= MostPrevs
      BY <1>1, <2>2, MostPrevsFacts
    <3>2. CASE MostPrevs = 0
      <4>1. \A e \in Event : IsFiniteSet(prev[e]) /\ Cardinality(prev[e]) = 0
        BY <3>1, <3>2
      <4>2. \A e \in Event : prev[e] = {}
        BY <4>1, FS_EmptySet
      <4>3. Wanted = {}
        BY <1>1, <4>2, NothingWanted
      <4> QED
        BY <1>4, <3>2, <4>3
    <3>3. CASE MostPrevs > 0
      <4>1. Len(results) < limit /\ front = {} /\ next = {}
        BY <1>3, <1>5, <1>10, <3>1, <3>3
      <4>2. \A e \in Origins \cup ToSet(results) : Beyond[e] \subseteq ToSet(results)
        BY <1>4, <1>10, <4>1 DEF Walking
      <4>3. ToSet(results) \in SUBSET Event
        BY <1>1, <1>4, WantedFacts
      <4>4. Wanted \subseteq ToSet(results)
        BY <1>1, <4>2, <4>3, WantedFacts
      <4> QED
        BY <1>4, <4>1, <4>4
    <3> QED
      BY <3>1, <3>2, <3>3
  <2> QED
    BY <2>1, <2>2
<1>11. CompleteWithRoom'
  <2> SUFFICES ASSUME Len(results') + MostPrevs' <= limit'
               PROVE  ToSet(results') = Wanted' /\ (MostPrevs' > 0 => ~truncated')
    BY DEF CompleteWithRoom
  <2>1. ToSet(results) = Wanted /\ (MostPrevs > 0 => Len(results) < limit)
    BY <1>2, <1>6, <1>10
  <2>2. Len(results) < limit => ~(Len(results) >= limit)
    BY <1>5
  <2> QED
    BY <1>2, <1>3, <1>6, <2>1, <2>2
<1> QED
  BY <1>2, <1>3, <1>7, <1>8, <1>9, <1>11 DEF WalkIInv

(* A failed walk returns nothing.                                          *)
LEMMA QueryFailsOK ==
  ASSUME WalkIInv, QueryFails PROVE WalkIInv'
<1>1. Request /\ UNCHANGED request /\ ToSet(results) \subseteq Wanted
  BY DEF WalkIInv, QueryFails
<1>2. Request' /\ limit' = limit /\ Wanted' = Wanted
  BY <1>1, RequestStays
<1>3. /\ phase' = "failed" /\ seen' = {} /\ front' = {} /\ next' = {}
      /\ results' = << >> /\ ~truncated' /\ truncated' = FALSE
  BY DEF QueryFails
<1>4. WalkTypeOK' /\ CompleteWithRoom'
  <2>1. << >> \in Seq(Event)
    OBVIOUS
  <2>2. truncated' \in BOOLEAN
    BY <1>3
  <2>3. phase' # "done" /\ results' \in Seq(Event)
    BY <1>3, <2>1
  <2> QED
    BY <1>3, <2>2, <2>3 DEF WalkTypeOK, CompleteWithRoom
<1>5. Distinct(results)' /\ ToSet(results)' \subseteq Wanted'
  BY <1>3 DEF Distinct, ToSet
<1>6. Len(results') <= Max({limit', 0})
  <2>1. limit \in Int
    BY <1>1 DEF Request
  <2> QED
    BY <1>2, <1>3, <2>1, MaxWithZero
<1> QED
  BY <1>2, <1>3, <1>4, <1>5, <1>6 DEF WalkIInv

(* Every step keeps the invariant.                                         *)
LEMMA WalkNextOK == WalkIInv /\ [WalkNext]_walkVars => WalkIInv'
<1>1. ASSUME WalkIInv, WalkNext PROVE WalkIInv'
  BY <1>1, NothingOK, StartOK, VisitOK, NextGenerationOK, FinishOK, QueryFailsOK DEF WalkNext
<1>2. ASSUME WalkIInv, UNCHANGED walkVars PROVE WalkIInv'
  <2>1. Request /\ UNCHANGED request
    BY <1>2 DEF WalkIInv, walkVars
  <2>2. /\ Request' /\ limit' = limit /\ earliest' = earliest /\ latest' = latest /\ held' = held
        /\ prev' = prev /\ Wanted' = Wanted /\ Origins' = Origins
        /\ Beyond' = Beyond /\ MostPrevs' = MostPrevs
    BY <2>1, RequestStays
  <2>3. /\ phase' = phase /\ seen' = seen /\ front' = front /\ next' = next
        /\ results' = results /\ truncated' = truncated
    BY <1>2 DEF walkVars
  <2>4. WalkTypeOK' /\ (Walking => Walking') /\ CompleteWithRoom' /\ Distinct(results)'
    BY <1>2, <2>2, <2>3 DEF WalkIInv, WalkTypeOK, Walking, CompleteWithRoom, Distinct
  <2> QED
    BY <1>2, <2>2, <2>3, <2>4 DEF WalkIInv
<1> QED
  BY <1>1, <1>2

(* What is left to visit is never among the events the caller has          *)
(* (missingevents.go:103).                                                 *)
THEOREM WalkTypeCorrect == WalkSpec => []WalkTypeOK
<1>1. WalkIInv => WalkTypeOK
  BY DEF WalkIInv
<1> QED
  BY <1>1, WalkInitOK, WalkNextOK, PTL DEF WalkSpec

(* Only wanted events, none twice, and no more than the limit, whatever    *)
(* the graph (missingevents.go:95).                                        *)
THEOREM WalkReturnsOnlyWanted == WalkSpec => []OnlyWanted
<1>1. WalkIInv => OnlyWanted
  BY DistinctCount DEF WalkIInv, WalkTypeOK, OnlyWanted
<1> QED
  BY <1>1, WalkInitOK, WalkNextOK, PTL DEF WalkSpec

(* With room to spare for the prev-events of any one event, the walk finds *)
(* everything and says so (missingevents.go:120).                          *)
THEOREM WalkIsComplete == WalkSpec => []CompleteWithRoom
<1>1. WalkIInv => CompleteWithRoom
  BY DEF WalkIInv
<1> QED
  BY <1>1, WalkInitOK, WalkNextOK, PTL DEF WalkSpec
=============================================================================
