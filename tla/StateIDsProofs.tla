--------------------------- MODULE StateIDsProofs ---------------------------
(***************************************************************************)
(* What a /state_ids answer rests on, for any number of callers, keys and  *)
(* events: the chain cover index and the recursive walk both compute       *)
(* exactly the auth chain, over any graph and any valid cover; and sharing *)
(* a computation harms nobody and lets nobody in.  Proofs checked by       *)
(* TLAPS.                                                                  *)
(***************************************************************************)
EXTENDS AuthChain, StateIDsFlight, FiniteSetTheorems, WellFoundedInduction, TLAPS

-----------------------------------------------------------------------------
(* Numbers.                                                                *)

(* A set of naturals has a least element.                                  *)
LEMMA LeastNatural ==
  ASSUME NEW T \in SUBSET Nat, T # {}
  PROVE  \E x \in T : \A y \in T : x <= y
<1>1. PICK x \in T : \A y \in T : ~ (<<y, x>> \in OpToRel(<, Nat))
  BY NatLessThanWellFounded, WFMin
<1>2. \A y \in T : ~(y < x)
  BY <1>1 DEF OpToRel
<1> QED
  BY <1>2

(* And a greatest, if it is bounded: what Max chooses.                     *)
LEMMA MaxFacts ==
  ASSUME NEW T \in SUBSET Nat, T # {}, NEW b \in Nat, \A y \in T : y <= b
  PROVE  Max(T) \in T /\ \A y \in T : y <= Max(T)
<1> DEFINE U == {n \in Nat : \A y \in T : y <= n}
<1>1. PICK m \in U : \A n \in U : m <= n
  <2>1. U \in SUBSET Nat /\ b \in U
    OBVIOUS
  <2> HIDE DEF U
  <2> QED
    BY <2>1, LeastNatural
<1>2. m \in T
  <2> SUFFICES ASSUME m \notin T PROVE FALSE
    OBVIOUS
  <2>1. PICK t \in T : TRUE
    OBVIOUS
  <2>2. \A y \in T : y < m
    BY <1>1
  <2>3. m - 1 \in U
    BY <2>1, <2>2
  <2> QED
    BY <1>1, <2>3
<1>3. \E x \in T : \A y \in T : x >= y
  BY <1>1, <1>2
<1> QED
  BY <1>3 DEF Max

-----------------------------------------------------------------------------
(* Graphs.                                                                 *)

(* The graph and the chain cover over it, as the database holds them.      *)
Cover ==
  /\ auth \in [Event -> SUBSET Event]
  /\ covered \in SUBSET Event /\ Closed(auth, covered)
  /\ chain \in [Event -> Event] /\ ValidChains
  /\ seq = [e \in Event |-> SequenceNumber(e)]
  /\ links = Crossing \/ links = {l \in Crossing : ~Implied(l)}
  /\ start \in SUBSET Event

(* Ancestors are the least closed set of events that holds the parents.    *)
LEMMA AncestorFacts ==
  ASSUME auth \in [Event -> SUBSET Event], NEW S \in SUBSET Event
  PROVE  /\ Ancestors(auth, S) \in SUBSET Event
         /\ Parents(auth, S) \subseteq Ancestors(auth, S)
         /\ Closed(auth, Ancestors(auth, S))
         /\ \A c \in SUBSET Event :
              Parents(auth, S) \subseteq c /\ Closed(auth, c) => Ancestors(auth, S) \subseteq c
<1>0. DOMAIN auth = Event
  OBVIOUS
<1>1. Parents(auth, S) \in SUBSET Event
  BY DEF Parents
<1>2. \A c \in SUBSET Event :
        Parents(auth, S) \subseteq c /\ Closed(auth, c) => Ancestors(auth, S) \subseteq c
  BY <1>0 DEF Ancestors
<1>3. Parents(auth, S) \subseteq Ancestors(auth, S)
  BY <1>0, <1>1 DEF Ancestors
<1>4. ASSUME NEW e \in Ancestors(auth, S), NEW a \in auth[e] PROVE a \in Ancestors(auth, S)
  <2>1. e \in Event /\ a \in Event
    BY <1>0 DEF Ancestors
  <2>2. ASSUME NEW c \in SUBSET Event, Parents(auth, S) \subseteq c, Closed(auth, c) PROVE a \in c
    <3>1. e \in c
      BY <1>0, <2>2 DEF Ancestors
    <3> QED
      BY <2>2, <3>1 DEF Closed, Parents
  <2> QED
    BY <1>0, <2>1, <2>2 DEF Ancestors
<1>5. Closed(auth, Ancestors(auth, S))
  BY <1>4 DEF Closed, Parents
<1> QED
  BY <1>0, <1>2, <1>3, <1>5 DEF Ancestors

(* Reaching is transitive, and a reference is enough.                      *)
LEMMA ReachFacts ==
  ASSUME auth \in [Event -> SUBSET Event]
  PROVE  /\ \A e \in Event : \A a \in auth[e] : Reaches(e, a)
         /\ \A e, b, a \in Event : Reaches(e, b) /\ a \in auth[b] => Reaches(e, a)
         /\ \A e, b, a \in Event : Reaches(e, b) /\ Reaches(b, a) => Reaches(e, a)
<1>1. \A e \in Event : Parents(auth, {e}) = auth[e]
  BY DEF Parents
<1>2. \A e \in Event : \A a \in auth[e] : Reaches(e, a)
  BY <1>1, AncestorFacts DEF Reaches
<1>3. \A e, b, a \in Event : Reaches(e, b) /\ a \in auth[b] => Reaches(e, a)
  BY AncestorFacts DEF Reaches, Closed, Parents
<1>4. ASSUME NEW e \in Event, NEW b \in Event, NEW a \in Event, Reaches(e, b), Reaches(b, a)
      PROVE  Reaches(e, a)
  <2>1. Parents(auth, {b}) \subseteq Ancestors(auth, {e})
    BY <1>1, <1>3, <1>4 DEF Reaches
  <2>2. Ancestors(auth, {b}) \subseteq Ancestors(auth, {e})
    BY <2>1, AncestorFacts
  <2> QED
    BY <1>4, <2>2 DEF Reaches
<1> QED
  BY <1>2, <1>3, <1>4

(* What a set reaches is what its members reach.                           *)
LEMMA AncestorsByMember ==
  ASSUME auth \in [Event -> SUBSET Event], NEW S \in SUBSET Event
  PROVE  \A a \in Event : a \in Ancestors(auth, S) <=> \E e \in S : Reaches(e, a)
<1> DEFINE R == {a \in Event : \E e \in S : Reaches(e, a)}
<1>1. Parents(auth, S) \subseteq R
  BY ReachFacts DEF Parents
<1>2. Closed(auth, R)
  BY ReachFacts DEF Closed, Parents
<1>3. Ancestors(auth, S) \subseteq R
  BY <1>1, <1>2, AncestorFacts
<1>4. ASSUME NEW e \in S, NEW a \in Event, Reaches(e, a) PROVE a \in Ancestors(auth, S)
  <2>1. Parents(auth, {e}) \subseteq Ancestors(auth, S)
    <3>1. Parents(auth, {e}) \subseteq Parents(auth, S)
      BY DEF Parents
    <3> QED
      BY <3>1, AncestorFacts
  <2>2. Ancestors(auth, {e}) \subseteq Ancestors(auth, S)
    BY <2>1, AncestorFacts
  <2> QED
    BY <1>4, <2>2 DEF Reaches
<1> QED
  BY <1>3, <1>4

(* The last step of a way from e to a.                                     *)
LEMMA LastStep ==
  ASSUME auth \in [Event -> SUBSET Event], NEW e \in Event, NEW a \in Event, Reaches(e, a)
  PROVE  a \in auth[e] \/ \E b \in Event : Reaches(e, b) /\ a \in auth[b]
<1> DEFINE R == auth[e] \cup {x \in Event : \E b \in Event : Reaches(e, b) /\ x \in auth[b]}
<1>1. R \in SUBSET Event
  OBVIOUS
<1>2. Parents(auth, {e}) \subseteq R
  BY DEF Parents
<1>3. \A x \in R : Reaches(e, x)
  BY ReachFacts
<1>4. Closed(auth, R)
  BY <1>3 DEF Closed, Parents
<1>5. Ancestors(auth, {e}) \subseteq R
  BY <1>1, <1>2, <1>4, AncestorFacts
<1> QED
  BY <1>5 DEF Reaches

-----------------------------------------------------------------------------
(* The cover.                                                              *)

(* No event of the cover reaches itself, so one that reaches another       *)
(* reaches strictly more.                                                  *)
LEMMA ReachesMore ==
  ASSUME Cover, NEW e \in covered, NEW a \in covered, Reaches(e, a)
  PROVE  /\ Ancestors(auth, {a}) \subseteq Ancestors(auth, {e})
         /\ Ancestors(auth, {a}) # Ancestors(auth, {e})
<1>0. auth \in [Event -> SUBSET Event] /\ e \in Event /\ a \in Event
  BY DEF Cover
<1>1. ASSUME NEW x \in Ancestors(auth, {a}) PROVE x \in Ancestors(auth, {e})
  BY <1>0, <1>1, ReachFacts, AncestorFacts DEF Reaches
<1>2. a \in Ancestors(auth, {e}) /\ a \notin Ancestors(auth, {a})
  BY DEF Cover, ValidChains, Reaches
<1> QED
  BY <1>1, <1>2

(* Of any events of the cover, one reaches no other, and one is reached by *)
(* no other.                                                               *)
LEMMA Lowest ==
  ASSUME Cover, NEW X \in SUBSET covered, X # {}
  PROVE  \E x \in X : \A y \in X : ~Reaches(x, y)
<1>0. auth \in [Event -> SUBSET Event] /\ covered \in SUBSET Event /\ IsFiniteSet(Event)
  BY GraphAssumption DEF Cover
<1> DEFINE T == {Ancestors(auth, {x}) : x \in X}
<1>1. T \subseteq FiniteSubsetsOf(Event) /\ T # {}
  <2>1. \A x \in X : Ancestors(auth, {x}) \in SUBSET Event
    BY <1>0, AncestorFacts
  <2>2. T \subseteq SUBSET Event /\ T # {}
    BY <2>1
  <2>3. FiniteSubsetsOf(Event) = SUBSET Event
    BY <1>0, FS_FiniteSubsetsOfFinite
  <2> QED
    BY <2>2, <2>3
<1>2. PICK A \in T : \A B \in T : ~ (<<B, A>> \in StrictSubsetOrdering(Event))
  <2> HIDE DEF T
  <2> QED
    BY <1>1, FS_StrictSubsetOrderingWellFounded, WFMin
<1>3. PICK x \in X : A = Ancestors(auth, {x})
  BY <1>2
<1>4. ASSUME NEW y \in X, Reaches(x, y) PROVE FALSE
  <2>1. Ancestors(auth, {y}) \subseteq A /\ Ancestors(auth, {y}) # A
    BY <1>3, <1>4, ReachesMore
  <2>2. Ancestors(auth, {y}) \in SUBSET Event /\ A \in SUBSET Event
    BY <1>0, <1>3, AncestorFacts
  <2>3. <<Ancestors(auth, {y}), A>> \in StrictSubsetOrdering(Event)
    BY <2>1, <2>2 DEF StrictSubsetOrdering
  <2> QED
    BY <1>2, <2>3
<1> QED
  BY <1>4

(* And one of them that no other reaches.                                  *)
LEMMA Highest ==
  ASSUME Cover, NEW X \in SUBSET covered, X # {}
  PROVE  \E x \in X : \A y \in X : ~Reaches(y, x)
<1>0. auth \in [Event -> SUBSET Event] /\ covered \in SUBSET Event /\ IsFiniteSet(Event)
  BY GraphAssumption DEF Cover
<1> DEFINE T == {Event \ Ancestors(auth, {x}) : x \in X}
<1>1. T \subseteq FiniteSubsetsOf(Event) /\ T # {}
  <2>1. T \subseteq SUBSET Event /\ T # {}
    OBVIOUS
  <2>2. FiniteSubsetsOf(Event) = SUBSET Event
    BY <1>0, FS_FiniteSubsetsOfFinite
  <2> QED
    BY <2>1, <2>2
<1>2. PICK A \in T : \A B \in T : ~ (<<B, A>> \in StrictSubsetOrdering(Event))
  <2> HIDE DEF T
  <2> QED
    BY <1>1, FS_StrictSubsetOrderingWellFounded, WFMin
<1>3. PICK x \in X : A = Event \ Ancestors(auth, {x})
  BY <1>2
<1>4. ASSUME NEW y \in X, Reaches(y, x) PROVE FALSE
  <2>1. Ancestors(auth, {x}) \subseteq Ancestors(auth, {y}) /\ Ancestors(auth, {x}) # Ancestors(auth, {y})
    BY <1>4, ReachesMore
  <2>2. Ancestors(auth, {y}) \in SUBSET Event /\ Ancestors(auth, {x}) \in SUBSET Event
    BY <1>0, AncestorFacts
  <2> DEFINE B == Event \ Ancestors(auth, {y})
  <2>3. B \subseteq A /\ B # A /\ B \in SUBSET Event /\ A \in SUBSET Event
    BY <1>3, <2>1, <2>2
  <2>4. <<B, A>> \in StrictSubsetOrdering(Event)
    BY <2>3 DEF StrictSubsetOrdering
  <2> QED
    BY <1>2, <2>4
<1> QED
  BY <1>4

(* No chain is longer than the events are many.                            *)
Longest == Cardinality(Event)

(* In a chain, a smaller sequence number is what is reached.               *)
LEMMA SequenceFacts ==
  ASSUME Cover
  PROVE  /\ Longest \in Nat
         /\ \A e \in covered : seq[e] \in Nat /\ seq[e] >= 1 /\ seq[e] <= Longest
         /\ \A e, a \in covered : chain[e] = chain[a] /\ Reaches(e, a) => seq[a] < seq[e]
         /\ \A e, a \in covered : chain[e] = chain[a] /\ seq[a] <= seq[e] => a = e \/ Reaches(e, a)
<1>0. /\ auth \in [Event -> SUBSET Event] /\ covered \in SUBSET Event /\ IsFiniteSet(Event) /\ ValidChains
      /\ seq = [e \in Event |-> SequenceNumber(e)]
  BY GraphAssumption DEF Cover
<1> DEFINE Below(e) == {a \in InChain(chain[e]) : Reaches(e, a)}
<1>1. ASSUME NEW e \in covered
      PROVE  /\ Below(e) \in SUBSET Event /\ IsFiniteSet(Below(e)) /\ Cardinality(Below(e)) \in Nat
             /\ Cardinality(Below(e)) < Cardinality(Event) /\ seq[e] = 1 + Cardinality(Below(e))
  <2>1. Below(e) \in SUBSET Event /\ e \in Event /\ e \notin Below(e)
    BY <1>0 DEF InChain, ValidChains
  <2>2. seq[e] = 1 + Cardinality(Below(e))
    BY <1>0 DEF SequenceNumber
  <2> HIDE DEF Below
  <2>3. /\ IsFiniteSet(Below(e)) /\ Cardinality(Below(e)) <= Cardinality(Event)
        /\ Cardinality(Below(e)) # Cardinality(Event)
    BY <1>0, <2>1, FS_Subset
  <2>4. Cardinality(Below(e)) \in Nat /\ Cardinality(Event) \in Nat
    BY <1>0, <2>3, FS_CardinalityType
  <2> QED
    BY <2>1, <2>2, <2>3, <2>4
<1>2. Cardinality(Event) \in Nat
  BY <1>0, FS_CardinalityType
<1>3. ASSUME NEW e \in covered, NEW a \in covered, chain[e] = chain[a], Reaches(e, a)
      PROVE  seq[a] < seq[e]
  <2>1. Below(a) \subseteq Below(e)
    BY <1>0, <1>3, ReachFacts DEF InChain
  <2>2. a \in Below(e) /\ a \notin Below(a)
    BY <1>0, <1>3 DEF InChain, ValidChains
  <2>3. /\ IsFiniteSet(Below(e)) /\ Cardinality(Below(e)) \in Nat /\ Cardinality(Below(a)) \in Nat
        /\ seq[e] = 1 + Cardinality(Below(e)) /\ seq[a] = 1 + Cardinality(Below(a))
    BY <1>1
  <2> HIDE DEF Below
  <2>4. Cardinality(Below(a)) <= Cardinality(Below(e)) /\ Cardinality(Below(a)) # Cardinality(Below(e))
    BY <2>1, <2>2, <2>3, FS_Subset
  <2> QED
    BY <2>3, <2>4
<1>4. ASSUME NEW e \in covered, NEW a \in covered, chain[e] = chain[a], seq[a] <= seq[e]
      PROVE  a = e \/ Reaches(e, a)
  <2> SUFFICES ASSUME a # e, ~Reaches(e, a) PROVE FALSE
    OBVIOUS
  <2>1. Reaches(a, e)
    BY <1>0, <1>4 DEF ValidChains
  <2>2. seq[e] < seq[a]
    BY <1>3, <1>4, <2>1
  <2> HIDE DEF Below
  <2>3. seq[e] \in Int /\ seq[a] \in Int
    BY <1>1
  <2> QED
    BY <1>4, <2>2, <2>3
<1> HIDE DEF Below
<1>5. \A e \in covered : seq[e] \in Nat /\ seq[e] >= 1 /\ seq[e] <= Longest
  BY <1>1, <1>2 DEF Longest
<1> QED
  BY <1>2, <1>3, <1>4, <1>5 DEF Longest

(* EventChains: the furthest of the events asked for.                      *)
LEMMA EventChainsFacts ==
  ASSUME Cover
  PROVE  \A c \in Event :
           /\ EventChains[c] \in Nat /\ EventChains[c] <= Longest
           /\ EventChains[c] > 0 => \E e \in start \cap InChain(c) : seq[e] = EventChains[c]
           /\ \A e \in start \cap InChain(c) : seq[e] <= EventChains[c]
<1> SUFFICES ASSUME NEW c \in Event
             PROVE  /\ EventChains[c] \in Nat /\ EventChains[c] <= Longest
                    /\ EventChains[c] > 0 => \E e \in start \cap InChain(c) : seq[e] = EventChains[c]
                    /\ \A e \in start \cap InChain(c) : seq[e] <= EventChains[c]
  OBVIOUS
<1> DEFINE T == {0} \cup {seq[e] : e \in start \cap InChain(c)}
<1>1. \A e \in start \cap InChain(c) : seq[e] \in Nat /\ seq[e] <= Longest
  BY SequenceFacts DEF InChain
<1>2. T \in SUBSET Nat /\ T # {} /\ Longest \in Nat /\ \A y \in T : y <= Longest
  BY <1>1, SequenceFacts
<1>3. Max(T) \in T /\ \A y \in T : y <= Max(T)
  <2> HIDE DEF T
  <2> QED
    BY <1>2, MaxFacts
<1>4. EventChains[c] = Max(T)
  BY DEF EventChains
<1>5. EventChains[c] \in T /\ \A y \in T : y <= EventChains[c]
  BY <1>3, <1>4
<1>6. EventChains[c] = 0 \/ \E e \in start \cap InChain(c) : seq[e] = EventChains[c]
  BY <1>5
<1>7. \A e \in start \cap InChain(c) : seq[e] <= EventChains[c]
  BY <1>5
<1>8. EventChains[c] \in Nat /\ EventChains[c] <= Longest
  BY <1>2, <1>5
<1> QED
  BY <1>6, <1>7, <1>8

(* The greater of two numbers.                                             *)
LEMMA MaxOfTwo ==
  ASSUME NEW m \in Int, NEW n \in Int, NEW k \in Int
  PROVE  k <= Max({m, n}) <=> k <= m \/ k <= n
<1>1. \E x \in {m, n} : \A y \in {m, n} : x >= y
  <2>1. CASE m >= n
    BY <2>1
  <2>2. CASE n >= m
    BY <2>2
  <2> QED
    BY <2>1, <2>2
<1>2. Max({m, n}) \in {m, n} /\ \A y \in {m, n} : Max({m, n}) >= y
  BY <1>1 DEF Max
<1>3. Max({m, n}) \in Int /\ Max({m, n}) >= m /\ Max({m, n}) >= n /\ (Max({m, n}) = m \/ Max({m, n}) = n)
  BY <1>2
<1> HIDE DEF Max
<1> QED
  BY <1>3

-----------------------------------------------------------------------------
(* The inductive invariant.                                                *)

Asked == start \cup Ancestors(auth, start)

(* While nothing has been asked, nothing has been found.                   *)
Fresh ==
  phase = "ask" =>
    /\ \A c \in Event : frontier[c] = 0 /\ reachable[c] = 0
    /\ front = {} /\ results = {}

(* Following links: what is reached is really an ancestor, what may be     *)
(* left from is asked for or one, and a link that leaves what is reached   *)
(* or asked for has been followed or is about to be.                       *)
Followed ==
  /\ \A c \in Event : reachable[c] > 0 =>
       \E e \in InChain(c) : seq[e] = reachable[c] /\ e \in Ancestors(auth, start)
  /\ \A c \in Event : frontier[c] > 0 =>
       \E e \in InChain(c) : seq[e] = frontier[c] /\ e \in Asked
  /\ \A l \in links :
       seq[l[1]] <= reachable[chain[l[1]]] \/ seq[l[1]] <= EventChains[chain[l[1]]] =>
         seq[l[2]] <= reachable[chain[l[2]]] \/ seq[l[1]] <= frontier[chain[l[1]]]

Linking == phase = "links" => start \subseteq covered /\ Followed

(* Walking: what is found is an ancestor, and all that was asked for or    *)
(* found has had its parents asked for or is about to.                     *)
Walking ==
  phase = "walk" =>
    /\ results \subseteq Ancestors(auth, start)
    /\ front \subseteq Asked
    /\ \A e \in start \cup results : e \in front \/ auth[e] \subseteq results

IInv == Cover /\ TypeOK /\ Fresh /\ Linking /\ Walking /\ Exact

(* The database does not change while it is asked.                         *)
LEMMA CoverKept ==
  ASSUME Cover, UNCHANGED database
  PROVE  Cover' /\ EventChains' = EventChains
<1>1. /\ auth' = auth /\ chain' = chain /\ seq' = seq /\ covered' = covered /\ links' = links
      /\ start' = start
  BY DEF database
<1>2. \A e, a : Reaches(e, a)' <=> Reaches(e, a)
  BY <1>1 DEF Reaches
<1>3. \A c : InChain(c)' = InChain(c)
  BY <1>1 DEF InChain
<1>4. ValidChains' <=> ValidChains
  BY <1>1, <1>2, <1>3 DEF ValidChains
<1>5. \A e : SequenceNumber(e)' = SequenceNumber(e)
  BY <1>1, <1>2, <1>3 DEF SequenceNumber
<1>6. Crossing' = Crossing /\ {l \in Crossing : ~Implied(l)}' = {l \in Crossing : ~Implied(l)}
  BY <1>1, <1>2 DEF Crossing, Implied
<1>7. EventChains' = EventChains
  BY <1>1, <1>3 DEF EventChains
<1> QED
  BY <1>1, <1>4, <1>5, <1>6, <1>7 DEF Cover

(* What a link joins.                                                      *)
LEMMA LinkFacts ==
  ASSUME Cover, NEW l \in links
  PROVE  /\ l \in Crossing /\ l[1] \in covered /\ l[2] \in covered /\ l[2] \in auth[l[1]]
         /\ chain[l[1]] \in Event /\ chain[l[2]] \in Event
         /\ l[1] \in InChain(chain[l[1]]) /\ l[2] \in InChain(chain[l[2]])
         /\ seq[l[1]] \in Nat /\ seq[l[1]] >= 1 /\ seq[l[2]] \in Nat /\ seq[l[2]] >= 1
<1>1. l \in Crossing
  BY DEF Cover
<1>2. l[1] \in covered /\ l[2] \in covered /\ l[2] \in auth[l[1]]
  BY <1>1 DEF Crossing
<1>3. l[1] \in InChain(chain[l[1]]) /\ l[2] \in InChain(chain[l[2]])
  BY <1>2 DEF InChain
<1>4. chain[l[1]] \in Event /\ chain[l[2]] \in Event
  BY <1>2 DEF Cover
<1> QED
  BY <1>1, <1>2, <1>3, <1>4, SequenceFacts

(* In a chain, all up to what is asked for or reached is too.              *)
LEMMA AskedDown ==
  ASSUME Cover, NEW b \in covered, NEW a \in covered, b \in Asked,
         chain[b] = chain[a], seq[a] <= seq[b]
  PROVE  a = b \/ a \in Ancestors(auth, start)
<1>1. a = b \/ Reaches(b, a)
  BY SequenceFacts
<1>2. auth \in [Event -> SUBSET Event] /\ start \in SUBSET Event /\ a \in Event /\ b \in Event
  BY DEF Cover
<1>3. CASE b \in start
  BY <1>1, <1>2, <1>3, AncestorsByMember
<1>4. CASE b \in Ancestors(auth, start)
  <2>1. PICK e \in start : Reaches(e, b)
    BY <1>2, <1>4, AncestorsByMember
  <2>2. Reaches(b, a) => Reaches(e, a)
    BY <1>2, <2>1, ReachFacts
  <2> QED
    BY <1>1, <1>2, <2>2, AncestorsByMember
<1> QED
  BY <1>3, <1>4 DEF Asked

(* Parents of what is asked for or found are ancestors.                    *)
LEMMA AskedParents ==
  ASSUME Cover, NEW b \in Asked, NEW a \in auth[b]
  PROVE  b \in Event /\ a \in Event /\ a \in Ancestors(auth, start)
<1>1. auth \in [Event -> SUBSET Event] /\ start \in SUBSET Event
  BY DEF Cover
<1>2. b \in Event /\ a \in Event
  BY <1>1, AncestorFacts DEF Asked
<1>3. CASE b \in start
  <2>1. a \in Parents(auth, start)
    BY <1>3 DEF Parents
  <2> QED
    BY <1>1, <1>2, <2>1, AncestorFacts
<1>4. CASE b \in Ancestors(auth, start)
  BY <1>1, <1>2, <1>4, AncestorFacts DEF Closed, Parents
<1> QED
  BY <1>2, <1>3, <1>4 DEF Asked

-----------------------------------------------------------------------------
(* Following a generation of links.                                        *)

Entered(c) == {reachable[c]} \cup {seq[l[2]] : l \in {l \in Usable : chain[l[2]] = c}}

(* How far a chain is reached after a generation.                          *)
LEMMA ReachedFacts ==
  ASSUME Cover, TypeOK, NEW c \in Event
  PROVE  /\ Max(Entered(c)) \in 0 .. Longest
         /\ reachable[c] <= Max(Entered(c))
         /\ \A l \in Usable : chain[l[2]] = c => seq[l[2]] <= Max(Entered(c))
         /\ \/ Max(Entered(c)) = reachable[c]
            \/ \E l \in Usable : chain[l[2]] = c /\ Max(Entered(c)) = seq[l[2]]
<1>1. Longest \in Nat /\ reachable[c] \in Nat /\ reachable[c] <= Longest
  BY SequenceFacts DEF TypeOK, Longest
<1>2. \A l \in Usable : seq[l[2]] \in Nat /\ seq[l[2]] <= Longest
  BY LinkFacts, SequenceFacts DEF Usable
<1>3. Entered(c) \in SUBSET Nat /\ Entered(c) # {} /\ \A y \in Entered(c) : y <= Longest
  BY <1>1, <1>2 DEF Entered
<1>4. Max(Entered(c)) \in Entered(c) /\ \A y \in Entered(c) : y <= Max(Entered(c))
  BY <1>1, <1>3, MaxFacts
<1>5. Max(Entered(c)) \in 0 .. Longest
  BY <1>1, <1>3, <1>4
<1>6. \/ Max(Entered(c)) = reachable[c]
      \/ \E l \in Usable : chain[l[2]] = c /\ Max(Entered(c)) = seq[l[2]]
  BY <1>4 DEF Entered
<1>7. reachable[c] \in Entered(c) /\ \A l \in Usable : chain[l[2]] = c => seq[l[2]] \in Entered(c)
  BY DEF Entered
<1> QED
  BY <1>4, <1>5, <1>6, <1>7

(* A generation keeps the invariant: nothing is reached but ancestors, and *)
(* a link is let go of only once it has been followed.                     *)
LEMMA FollowLinksKeeps ==
  ASSUME IInv, FollowLinks
  PROVE  TypeOK' /\ Followed'
<1> DEFINE R(c) == Max(Entered(c))
<1>0. /\ Cover /\ TypeOK /\ Followed /\ UNCHANGED <<phase, front, results>>
      /\ reachable' = [c \in Event |-> R(c)]
      /\ frontier' = [c \in Event |-> IF R(c) > reachable[c] THEN R(c) ELSE 0]
      /\ UNCHANGED database /\ EventChains' = EventChains
  <2>1. UNCHANGED database
    BY DEF FollowLinks
  <2> QED
    BY <2>1, CoverKept DEF FollowLinks, IInv, Linking, Entered
<1>1. /\ auth' = auth /\ chain' = chain /\ seq' = seq /\ covered' = covered /\ links' = links
      /\ start' = start /\ Asked' = Asked /\ \A c : InChain(c)' = InChain(c)
  BY <1>0 DEF database, Asked, InChain
<1>2. \A c \in Event : /\ R(c) \in 0 .. Longest /\ reachable[c] <= R(c)
                       /\ reachable'[c] = R(c) /\ reachable[c] \in Nat /\ frontier[c] \in Nat
                       /\ frontier'[c] = IF R(c) > reachable[c] THEN R(c) ELSE 0
  BY <1>0, ReachedFacts DEF TypeOK
<1>3. TypeOK'
  <2> HIDE DEF R
  <2>1. reachable' \in [Event -> 0 .. Cardinality(Event)] /\ frontier' \in [Event -> 0 .. Cardinality(Event)]
    BY <1>0, <1>2, SequenceFacts DEF Longest
  <2> QED
    BY <1>0, <2>1 DEF TypeOK
<1>4. ASSUME NEW c \in Event, R(c) > 0
      PROVE  \E e \in InChain(c) : seq[e] = R(c) /\ e \in Ancestors(auth, start)
  <2>1. CASE R(c) = reachable[c]
    BY <1>0, <1>4, <2>1 DEF Followed
  <2>2. CASE \E l \in Usable : chain[l[2]] = c /\ R(c) = seq[l[2]]
    <3>1. PICK l \in Usable : chain[l[2]] = c /\ R(c) = seq[l[2]]
      BY <2>2
    <3>2. l \in links /\ seq[l[1]] <= frontier[chain[l[1]]]
      BY <3>1 DEF Usable
    <3>3. /\ l[1] \in covered /\ l[2] \in covered /\ l[2] \in auth[l[1]] /\ chain[l[1]] \in Event
          /\ l[2] \in InChain(chain[l[2]]) /\ seq[l[1]] \in Nat /\ seq[l[1]] >= 1
      BY <1>0, <3>2, LinkFacts
    <3>4. frontier[chain[l[1]]] > 0
      BY <1>2, <3>2, <3>3
    <3>5. PICK e \in InChain(chain[l[1]]) : seq[e] = frontier[chain[l[1]]] /\ e \in Asked
      BY <1>0, <3>3, <3>4 DEF Followed
    <3>6. l[1] \in Asked
      BY <1>0, <3>2, <3>3, <3>5, AskedDown DEF InChain, Asked
    <3>7. l[2] \in Ancestors(auth, start)
      BY <1>0, <3>3, <3>6, AskedParents
    <3> QED
      BY <3>1, <3>3, <3>7
  <2> QED
    BY <1>0, <2>1, <2>2, ReachedFacts
<1>5. ASSUME NEW l \in links,
             seq[l[1]] <= R(chain[l[1]]) \/ seq[l[1]] <= EventChains[chain[l[1]]],
             ~(seq[l[1]] <= frontier'[chain[l[1]]])
      PROVE  seq[l[2]] <= R(chain[l[2]])
  <2> DEFINE c == chain[l[1]]  d == chain[l[2]]
  <2>1. c \in Event /\ d \in Event /\ seq[l[1]] \in Nat /\ seq[l[2]] \in Nat
    BY <1>0, LinkFacts
  <2>2. seq[l[1]] <= reachable[c] \/ seq[l[1]] <= EventChains[c]
    <3> HIDE DEF R
    <3> QED
      BY <1>2, <1>5, <2>1
  <2>3. CASE seq[l[2]] <= reachable[d]
    <3> HIDE DEF R
    <3> QED
      BY <1>2, <2>1, <2>3
  <2>4. CASE seq[l[1]] <= frontier[c]
    BY <1>0, <2>1, <2>4, ReachedFacts DEF Usable
  <2> QED
    BY <1>0, <2>2, <2>3, <2>4 DEF Followed
<1>6. Followed'
  <2> HIDE DEF R
  <2>1. \A c \in Event : reachable'[c] > 0 =>
          \E e \in InChain(c) : seq[e] = reachable'[c] /\ e \in Ancestors(auth, start)
    BY <1>2, <1>4
  <2>2. \A c \in Event : frontier'[c] > 0 =>
          \E e \in InChain(c) : seq[e] = frontier'[c] /\ e \in Asked
    BY <1>2, <1>4 DEF Asked
  <2>3. \A l \in links :
          seq[l[1]] <= reachable'[chain[l[1]]] \/ seq[l[1]] <= EventChains[chain[l[1]]] =>
            seq[l[2]] <= reachable'[chain[l[2]]] \/ seq[l[1]] <= frontier'[chain[l[1]]]
    BY <1>0, <1>2, <1>5, LinkFacts
  <2> QED
    BY <1>0, <1>1, <2>1, <2>2, <2>3 DEF Followed
<1> QED
  BY <1>3, <1>6

-----------------------------------------------------------------------------
(* Reading the answer off the chains.                                      *)

Collected == {e \in covered : seq[e] <= reachable[chain[e]] \/ seq[e] < EventChains[chain[e]]}

(* Nothing is collected but ancestors.                                     *)
LEMMA CollectedSound ==
  ASSUME Cover, TypeOK, Followed
  PROVE  Collected \subseteq Ancestors(auth, start)
<1> SUFFICES ASSUME NEW e \in covered,
                    seq[e] <= reachable[chain[e]] \/ seq[e] < EventChains[chain[e]]
             PROVE  e \in Ancestors(auth, start)
  BY DEF Collected
<1> DEFINE c == chain[e]
<1>0. /\ c \in Event /\ seq[e] \in Nat /\ seq[e] >= 1 /\ reachable[c] \in Nat
      /\ EventChains[c] \in Nat
  <2>1. c \in Event
    BY DEF Cover
  <2>2. reachable[c] \in Nat
    BY <2>1 DEF TypeOK
  <2> QED
    BY <2>1, <2>2, SequenceFacts, EventChainsFacts
<1>1. CASE seq[e] <= reachable[c]
  <2>1. reachable[c] > 0
    BY <1>0, <1>1
  <2>2. PICK b \in InChain(c) : seq[b] = reachable[c] /\ b \in Ancestors(auth, start)
    BY <1>0, <2>1 DEF Followed
  <2>3. b \in covered /\ chain[b] = chain[e] /\ b \in Asked /\ seq[e] <= seq[b]
    BY <1>1, <2>2 DEF InChain, Asked
  <2> QED
    BY <2>2, <2>3, AskedDown
<1>2. CASE seq[e] < EventChains[c]
  <2>1. EventChains[c] > 0
    BY <1>0, <1>2
  <2>2. PICK b \in start \cap InChain(c) : seq[b] = EventChains[c]
    BY <1>0, <2>1, EventChainsFacts
  <2>3. b \in covered /\ chain[b] = chain[e] /\ b \in Asked /\ seq[e] <= seq[b] /\ e # b
    BY <1>0, <1>2, <2>2 DEF InChain, Asked
  <2> QED
    BY <2>3, AskedDown
<1> QED
  BY <1>1, <1>2

(* All ancestors are collected.  Were some not, take one that no other of  *)
(* them reaches; of the events asked for or found that refer to it, take   *)
(* one that reaches none of the others.  That reference lies within a      *)
(* chain, or is a link that has been followed, or was left out because     *)
(* another leads there: by an event that the one taken does reach.         *)
LEMMA CollectedComplete ==
  ASSUME Cover, TypeOK, Followed, start \subseteq covered,
         \A c \in Event : frontier[c] = 0
  PROVE  Ancestors(auth, start) \subseteq Collected
<1>0. /\ auth \in [Event -> SUBSET Event] /\ start \in SUBSET Event /\ covered \in SUBSET Event
      /\ Closed(auth, covered)
  BY DEF Cover
<1>1. Ancestors(auth, start) \subseteq covered
  <2>1. Parents(auth, start) \subseteq covered
    BY <1>0 DEF Closed, Parents
  <2> QED
    BY <1>0, <2>1, AncestorFacts
<1> DEFINE X == Ancestors(auth, start) \ Collected
<1> SUFFICES ASSUME X # {} PROVE FALSE
  OBVIOUS
<1>2. PICK x \in X : \A y \in X : ~Reaches(y, x)
  <2>1. X \in SUBSET covered
    BY <1>1
  <2> HIDE DEF X
  <2> QED
    BY <2>1, Highest
<1>3. x \in covered /\ x \in Event /\ x \in Ancestors(auth, start) /\ x \notin Collected
  BY <1>0, <1>1, <1>2
<1> DEFINE D == {y \in Asked : x \in auth[y]}
<1>4. D \in SUBSET covered
  BY <1>1 DEF Asked
<1>5. D # {}
  <2>1. PICK e \in start : Reaches(e, x)
    BY <1>0, <1>3, AncestorsByMember
  <2>2. CASE x \in auth[e]
    BY <2>2 DEF Asked
  <2>3. CASE \E b \in Event : Reaches(e, b) /\ x \in auth[b]
    <3>1. PICK b \in Event : Reaches(e, b) /\ x \in auth[b]
      BY <2>3
    <3>2. b \in Asked
      BY <1>0, <3>1, AncestorsByMember DEF Asked
    <3> QED
      BY <3>1, <3>2
  <2> QED
    BY <1>0, <1>3, <2>1, <2>2, <2>3, LastStep
<1>6. PICK y \in D : \A z \in D : ~Reaches(y, z)
  <2> HIDE DEF D
  <2> QED
    BY <1>4, <1>5, Lowest
<1>7. y \in covered /\ y \in Event /\ y \in Asked /\ x \in auth[y] /\ Reaches(y, x)
  BY <1>0, <1>4, <1>6, ReachFacts
<1>8. y \in start \/ y \in Collected
  BY <1>2, <1>7 DEF Asked
<1>9. /\ chain[y] \in Event /\ chain[x] \in Event /\ seq[y] \in Nat /\ seq[x] \in Nat
      /\ reachable[chain[y]] \in Nat /\ EventChains[chain[y]] \in Nat
      /\ frontier[chain[y]] = 0 /\ seq[y] >= 1
  BY <1>3, <1>7, SequenceFacts, EventChainsFacts DEF Cover, TypeOK
<1>10. seq[y] <= reachable[chain[y]] \/ seq[y] <= EventChains[chain[y]]
  <2>1. CASE y \in start
    BY <1>7, <1>9, <2>1, EventChainsFacts DEF InChain
  <2>2. CASE y \in Collected
    BY <1>9, <2>2 DEF Collected
  <2> QED
    BY <1>8, <2>1, <2>2
<1>11. CASE chain[y] = chain[x]
  <2>1. seq[x] < seq[y]
    BY <1>3, <1>7, <1>11, SequenceFacts
  <2>2. seq[x] <= reachable[chain[x]] \/ seq[x] < EventChains[chain[x]]
    BY <1>9, <1>10, <1>11, <2>1
  <2> QED
    BY <1>3, <2>2 DEF Collected
<1>12. CASE <<y, x>> \in links
  <2>1. seq[x] <= reachable[chain[x]] \/ seq[y] <= frontier[chain[y]]
    BY <1>10, <1>12 DEF Followed
  <2> QED
    BY <1>3, <1>9, <2>1 DEF Collected
<1>13. CASE Implied(<<y, x>>)
  <2>1. PICK b \in auth[y] : Reaches(b, x)
    BY <1>13 DEF Implied
  <2>2. b \in Event /\ b \in Asked /\ Reaches(y, b)
    BY <1>0, <1>7, AskedParents, ReachFacts DEF Asked
  <2>3. CASE x \in auth[b]
    BY <1>6, <2>2, <2>3
  <2>4. CASE \E a \in Event : Reaches(b, a) /\ x \in auth[a]
    <3>1. PICK a \in Event : Reaches(b, a) /\ x \in auth[a]
      BY <2>4
    <3>2. Reaches(y, a)
      BY <1>0, <1>7, <2>2, <3>1, ReachFacts
    <3>3. a \in Asked
      <4>1. b \in Ancestors(auth, start)
        BY <1>7, <2>1, AskedParents
      <4>2. PICK e \in start : Reaches(e, b)
        BY <1>0, <2>2, <4>1, AncestorsByMember
      <4>3. Reaches(e, a)
        BY <1>0, <2>2, <3>1, <4>2, ReachFacts
      <4> QED
        BY <1>0, <3>1, <4>3, AncestorsByMember DEF Asked
    <3> QED
      BY <1>6, <3>1, <3>2, <3>3
  <2> QED
    BY <1>0, <1>3, <2>1, <2>2, <2>3, <2>4, LastStep
<1>14. chain[y] # chain[x] => <<y, x>> \in Crossing
  BY <1>3, <1>7 DEF Crossing
<1>15. <<y, x>> \in Crossing => <<y, x>> \in links \/ Implied(<<y, x>>)
  BY DEF Cover
<1> QED
  BY <1>11, <1>12, <1>13, <1>14, <1>15

-----------------------------------------------------------------------------
(* The specification.                                                      *)

(* The invariant holds at the start.                                       *)
LEMMA InitOK == Init => IInv
<1> SUFFICES ASSUME Init PROVE IInv
  OBVIOUS
<1>1. Cover
  <2>1. auth \in [Event -> SUBSET Event]
    BY GraphAssumption DEF Init
  <2>2. covered \in SUBSET Event /\ Closed(auth, covered)
    BY DEF Init
  <2>3. links = Crossing \/ links = {l \in Crossing : ~Implied(l)}
    BY DEF Init
  <2> QED
    BY <2>1, <2>2, <2>3 DEF Init, Cover
<1>2. TypeOK
  <2>1. Cardinality(Event) \in Nat
    BY GraphAssumption, FS_CardinalityType
  <2> QED
    BY <2>1 DEF Init, TypeOK
<1>3. Fresh /\ Linking /\ Walking /\ Exact
  BY DEF Init, Fresh, Linking, Walking, Exact
<1> QED
  BY <1>1, <1>2, <1>3 DEF IInv

(* Nothing is asked: nothing is the answer.                                *)
LEMMA NothingKeeps ==
  ASSUME IInv, Nothing
  PROVE  TypeOK' /\ Exact'
<1>1. auth \in [Event -> SUBSET Event] /\ start = {} /\ results = {}
  BY DEF IInv, Cover, Nothing, Fresh
<1>2. Ancestors(auth, start) = {}
  <2>1. Parents(auth, start) = {} /\ Closed(auth, {})
    BY <1>1 DEF Parents, Closed
  <2> QED
    BY <1>1, <2>1, AncestorFacts
<1> QED
  BY <1>1, <1>2 DEF IInv, TypeOK, Exact, Nothing, database

(* The chains asked for are the first to leave by their links.             *)
LEMMA AskIndexKeeps ==
  ASSUME IInv, AskIndex
  PROVE  TypeOK' /\ start' \subseteq covered' /\ Followed'
<1>0. /\ Cover /\ TypeOK /\ UNCHANGED database /\ frontier' = EventChains /\ reachable' = reachable
      /\ EventChains' = EventChains /\ start \subseteq covered /\ start \in SUBSET Event
      /\ \A c \in Event : reachable[c] = 0
  <2>1. UNCHANGED database /\ Cover
    BY DEF AskIndex, IInv
  <2> QED
    BY <2>1, CoverKept DEF AskIndex, IInv, Cover, Fresh
<1>1. /\ auth' = auth /\ chain' = chain /\ seq' = seq /\ covered' = covered /\ links' = links
      /\ start' = start /\ Asked' = Asked /\ \A c : InChain(c)' = InChain(c)
  BY <1>0 DEF database, Asked, InChain
<1>2. TypeOK'
  <2>1. \A c \in Event : EventChains[c] \in 0 .. Cardinality(Event)
    BY <1>0, EventChainsFacts, SequenceFacts DEF Longest
  <2>2. EventChains \in [Event -> 0 .. Cardinality(Event)]
    BY <2>1 DEF EventChains
  <2> QED
    BY <1>0, <2>2 DEF TypeOK, AskIndex
<1>3. \A c \in Event : EventChains[c] > 0 =>
        \E e \in InChain(c) : seq[e] = EventChains[c] /\ e \in Asked
  BY <1>0, EventChainsFacts DEF Asked
<1>4. \A l \in links : ~(seq[l[1]] <= reachable[chain[l[1]]])
  BY <1>0, LinkFacts
<1> QED
  BY <1>0, <1>1, <1>2, <1>3, <1>4 DEF Followed

(* The index's answer is exact when the links are used up.                 *)
LEMMA CollectKeeps ==
  ASSUME IInv, Collect
  PROVE  TypeOK' /\ Exact'
<1>0. /\ Cover /\ TypeOK /\ Followed /\ start \subseteq covered /\ UNCHANGED database
      /\ covered \in SUBSET Event /\ \A c \in Event : frontier[c] = 0
  BY DEF IInv, Linking, Collect, Cover
<1> DEFINE N == [c \in Event |-> Max({reachable[c], EventChains[c] - 1})]
<1>1. results' = {e \in covered : seq[e] <= N[chain[e]]}
  BY DEF Collect
<1>2. ASSUME NEW e \in covered
      PROVE  seq[e] <= N[chain[e]] <=> seq[e] <= reachable[chain[e]] \/ seq[e] < EventChains[chain[e]]
  <2> DEFINE c == chain[e]
  <2>1. c \in Event
    BY <1>0 DEF Cover
  <2>2. reachable[c] \in Int
    BY <1>0, <2>1 DEF TypeOK
  <2>3. EventChains[c] \in Int /\ EventChains[c] - 1 \in Int /\ seq[e] \in Int
    BY <1>0, <2>1, EventChainsFacts, SequenceFacts
  <2>4. N[c] = Max({reachable[c], EventChains[c] - 1})
    BY <2>1
  <2> HIDE DEF N, c
  <2>5. seq[e] <= N[c] <=> seq[e] <= reachable[c] \/ seq[e] <= EventChains[c] - 1
    BY <2>2, <2>3, <2>4, MaxOfTwo
  <2>6. seq[e] <= EventChains[c] - 1 <=> seq[e] < EventChains[c]
    BY <2>3
  <2> QED
    BY <2>5, <2>6 DEF c
<1>3. results' = Collected
  <2> HIDE DEF N
  <2> QED
    BY <1>1, <1>2 DEF Collected
<1>4. Collected = Ancestors(auth, start)
  BY <1>0, CollectedSound, CollectedComplete
<1>5. Collected \subseteq Event
  BY <1>0 DEF Collected
<1> QED
  BY <1>0, <1>3, <1>4, <1>5 DEF TypeOK, Exact, Collect, database

(* A generation of the walk: parents are found, and the new ones are next. *)
LEMMA WalkKeeps ==
  ASSUME IInv, Walk
  PROVE  TypeOK' /\ Walking'
<1>0. /\ Cover /\ TypeOK /\ phase = "walk" /\ UNCHANGED database
      /\ auth \in [Event -> SUBSET Event] /\ start \in SUBSET Event
      /\ results \subseteq Ancestors(auth, start) /\ front \subseteq Asked
      /\ \A e \in start \cup results : e \in front \/ auth[e] \subseteq results
      /\ front' = Parents(auth, front) \ results /\ results' = results \cup Parents(auth, front)
  BY DEF IInv, Cover, Walk, Walking
<1>1. auth' = auth /\ start' = start /\ Asked' = Asked
  BY <1>0 DEF database, Asked
<1>2. Parents(auth, front) \subseteq Ancestors(auth, start)
  BY <1>0, AskedParents DEF Parents
<1>3. Ancestors(auth, start) \subseteq Event
  BY <1>0, AncestorFacts
<1>4. TypeOK'
  BY <1>0, <1>2, <1>3 DEF TypeOK, Walk
<1>5. \A e \in front : auth[e] \subseteq results'
  BY <1>0 DEF Parents
<1>6. \A e \in start \cup results' : e \in front' \/ auth[e] \subseteq results'
  <2> SUFFICES ASSUME NEW e \in start \cup results', e \notin front' PROVE auth[e] \subseteq results'
    OBVIOUS
  <2>1. e \in start \cup results
    BY <1>0
  <2> QED
    BY <1>0, <1>5, <2>1
<1> QED
  BY <1>0, <1>1, <1>2, <1>4, <1>6 DEF Walking, Asked

(* The walk ends with nothing left to ask: what it found is closed.        *)
LEMMA WalkedKeeps ==
  ASSUME IInv, Walked
  PROVE  TypeOK' /\ Exact'
<1>0. /\ TypeOK /\ auth \in [Event -> SUBSET Event] /\ start \in SUBSET Event /\ results \in SUBSET Event
      /\ results \subseteq Ancestors(auth, start) /\ UNCHANGED <<database, results>>
      /\ \A e \in start \cup results : auth[e] \subseteq results
  BY DEF IInv, Cover, TypeOK, Walked, Walking
<1>1. Parents(auth, start) \subseteq results /\ Closed(auth, results)
  BY <1>0 DEF Parents, Closed
<1>2. Ancestors(auth, start) \subseteq results
  BY <1>0, <1>1, AncestorFacts
<1> QED
  BY <1>0, <1>2 DEF TypeOK, Exact, Walked, database

(* Every step keeps the invariant.                                         *)
LEMMA NextOK == IInv /\ [Next]_vars => IInv'
<1> SUFFICES ASSUME IInv, [Next]_vars PROVE IInv'
  OBVIOUS
<1>1. UNCHANGED database
  BY DEF vars, Next, Nothing, AskIndex, FallBack, FollowLinks, Collect, Walk, Walked, QueryFails
<1>2. Cover' /\ EventChains' = EventChains
  BY <1>1, CoverKept DEF IInv
<1>3. CASE Nothing
  BY <1>2, <1>3, NothingKeeps DEF IInv, Nothing, Fresh, Linking, Walking
<1>4. CASE AskIndex
  BY <1>2, <1>4, AskIndexKeeps DEF IInv, AskIndex, Fresh, Linking, Walking, Exact
<1>5. CASE FallBack
  <2>1. /\ TypeOK /\ start \in SUBSET Event /\ results = {} /\ results' = {} /\ front' = start
        /\ phase' = "walk" /\ UNCHANGED <<database, frontier, reachable>>
    BY <1>5 DEF IInv, Cover, FallBack, Fresh
  <2>2. TypeOK'
    BY <2>1 DEF TypeOK
  <2>3. Walking'
    BY <2>1 DEF Walking, Asked, database
  <2> QED
    BY <1>2, <2>1, <2>2, <2>3 DEF IInv, Fresh, Linking, Exact
<1>6. CASE FollowLinks
  <2>1. phase' = "links" /\ start' \subseteq covered'
    BY <1>1, <1>6 DEF FollowLinks, IInv, Linking, database
  <2> QED
    BY <1>2, <1>6, <2>1, FollowLinksKeeps DEF IInv, Fresh, Linking, Walking, Exact
<1>7. CASE Collect
  BY <1>2, <1>7, CollectKeeps DEF IInv, Collect, Fresh, Linking, Walking
<1>8. CASE Walk
  BY <1>2, <1>8, WalkKeeps DEF IInv, Walk, Fresh, Linking, Exact
<1>9. CASE Walked
  BY <1>2, <1>9, WalkedKeeps DEF IInv, Walked, Fresh, Linking, Walking
<1>10. CASE UNCHANGED vars
  <2>1. UNCHANGED <<phase, frontier, reachable, front, results>>
    BY <1>10 DEF vars
  <2>2. /\ auth' = auth /\ chain' = chain /\ seq' = seq /\ links' = links /\ covered' = covered
        /\ start' = start /\ Asked' = Asked /\ \A c : InChain(c)' = InChain(c)
    BY <1>1 DEF database, Asked, InChain
  <2>3. TypeOK' /\ Fresh' /\ Walking' /\ Exact'
    BY <2>1, <2>2 DEF IInv, TypeOK, Fresh, Walking, Exact
  <2>4. Linking'
    BY <1>2, <2>1, <2>2 DEF IInv, Linking, Followed
  <2> QED
    BY <1>2, <2>3, <2>4 DEF IInv
<1>11. CASE QueryFails
  <2>1. phase' = "failed" /\ results' = {} /\ UNCHANGED <<frontier, reachable, front>>
    BY <1>11 DEF QueryFails
  <2>2. TypeOK'
    BY <2>1 DEF IInv, TypeOK
  <2> QED
    BY <1>2, <2>1, <2>2 DEF IInv, Fresh, Linking, Walking, Exact
<1> QED
  BY <1>3, <1>4, <1>5, <1>6, <1>7, <1>8, <1>9, <1>10, <1>11 DEF Next

(* GetAuthChainIDs: whether it follows the chain cover index or falls back *)
(* to the recursive walk, it answers with the whole auth chain of the      *)
(* events asked for and nothing else: for any number of events, any graph, *)
(* cyclic ones included, any part of it in the index, any valid cover of   *)
(* that part, and with the implied links kept or left out.                 *)
THEOREM ChainIsExact == Spec => []Exact
<1>1. IInv => Exact
  BY DEF IInv
<1> QED
  BY <1>1, InitOK, NextOK, PTL DEF Spec

(* The frontier and reachable maps stay within the chains: materialise-    *)
(* Chains never asks for a place that no chain can have.                   *)
THEOREM TypeCorrect == Spec => []TypeOK
<1>1. IInv => TypeOK
  BY DEF IInv
<1> QED
  BY <1>1, InitOK, NextOK, PTL DEF Spec

-----------------------------------------------------------------------------
(* Shared computations.                                                    *)

(* Who is past the access check was let in by it.                          *)
Entitled == \A c \in Caller : at[c] \in {"admitted", "waiting"} => passed[c]

(* Whoever waits has its channel in a call that runs and will deliver: the *)
(* safety half of every caller returning.                                  *)
NobodyStranded ==
  \A c \in Caller : at[c] = "waiting" => running[key[c]] /\ c \in member[key[c]]

(* The inductive invariant.  An answer goes to callers that wait, whoever  *)
(* started it, so that it is deserved rests on Entitled.                   *)
FlightIInv == FlightTypeOK /\ HangUpIsPrivate /\ NoFreeRide /\ Entitled /\ NobodyStranded

-----------------------------------------------------------------------------
(* The invariant holds at the start.                                       *)
LEMMA FlightInitOK == FlightInit => FlightIInv
BY DEF FlightInit, FlightIInv, FlightTypeOK, HangUpIsPrivate, NoFreeRide, Entitled, NobodyStranded, None

(* The steps of one caller, and of the world around it.                    *)
LEMMA CallerOK ==
  ASSUME FlightIInv, NEW c \in Caller,
         Ask(c) \/ Step(c) \/ HangUp(c) \/ Ban(c) \/ Retire(c)
  PROVE  FlightIInv'
<1> USE DEF FlightIInv, Move, Return, flight
<1>1. CASE Ask(c)
  BY <1>1 DEF Ask, FlightTypeOK, HangUpIsPrivate, NoFreeRide, Entitled, NobodyStranded
<1>2. CASE Admit(c)
  BY <1>2 DEF Admit, FlightTypeOK, HangUpIsPrivate, NoFreeRide, Entitled, NobodyStranded
<1>3. CASE Refuse(c)
  BY <1>3 DEF Refuse, FlightTypeOK, HangUpIsPrivate, NoFreeRide, Entitled, NobodyStranded
<1>4. CASE CheckFails(c)
  BY <1>4 DEF CheckFails, FlightTypeOK, HangUpIsPrivate, NoFreeRide, Entitled, NobodyStranded
<1>5. CASE Join(c)
  <2>1. FlightTypeOK'
    BY <1>5 DEF Join, FlightTypeOK
  <2>2. HangUpIsPrivate' /\ NoFreeRide' /\ Entitled'
    BY <1>5 DEF Join, FlightTypeOK, HangUpIsPrivate, NoFreeRide, Entitled
  <2>3. NobodyStranded'
    BY <1>5 DEF Join, FlightTypeOK, NobodyStranded
  <2> QED
    BY <2>1, <2>2, <2>3
<1>6. CASE Abandon(c)
  BY <1>6 DEF Abandon, FlightTypeOK, HangUpIsPrivate, NoFreeRide, Entitled, NobodyStranded
<1>7. CASE HangUp(c)
  BY <1>7 DEF HangUp, FlightTypeOK, HangUpIsPrivate, NoFreeRide, Entitled, NobodyStranded
<1>8. CASE Ban(c)
  BY <1>8 DEF Ban, FlightTypeOK, HangUpIsPrivate, NoFreeRide, Entitled, NobodyStranded
<1>9. CASE Retire(c)
  BY <1>9 DEF Retire, FlightTypeOK, HangUpIsPrivate, NoFreeRide, Entitled, NobodyStranded
<1> QED
  BY <1>1, <1>2, <1>3, <1>4, <1>5, <1>6, <1>7, <1>8, <1>9 DEF Step

(* The end of a computation.  Its failures cancel nobody, which is what    *)
(* HangUpIsPrivate needs of it.                                            *)
LEMMA DeliverOK ==
  ASSUME FlightIInv, NEW k \in Key, NEW what \in {"answer", "failure"}, Deliver(k, what)
  PROVE  FlightIInv'
<1> USE DEF FlightIInv, Deliver
<1>1. FlightTypeOK'
  BY DEF FlightTypeOK
<1>2. HangUpIsPrivate'
  BY DEF FlightTypeOK, HangUpIsPrivate
<1>3. NoFreeRide'
  BY DEF FlightTypeOK, NoFreeRide, Entitled
<1>4. Entitled'
  BY DEF FlightTypeOK, Entitled
<1>5. NobodyStranded'
  BY DEF FlightTypeOK, NobodyStranded
<1> QED
  BY <1>1, <1>2, <1>3, <1>4, <1>5

(* Every step keeps the invariant.                                         *)
LEMMA FlightNextOK == FlightIInv /\ [FlightNext]_flightVars => FlightIInv'
<1> SUFFICES ASSUME FlightIInv, [FlightNext]_flightVars PROVE FlightIInv'
  OBVIOUS
<1>1. CASE UNCHANGED flightVars
  BY <1>1 DEF FlightIInv, flightVars, FlightTypeOK, HangUpIsPrivate, NoFreeRide, Entitled, NobodyStranded
<1>2. ASSUME NEW c \in Caller, Ask(c) \/ Step(c) \/ HangUp(c) \/ Ban(c) \/ Retire(c)
      PROVE  FlightIInv'
  BY <1>2, CallerOK
<1>3. ASSUME NEW k \in Key, Computation(k)
      PROVE  FlightIInv'
  BY <1>3, DeliverOK DEF Computation, Computes, ComputeFails, ComputePanics
<1> QED
  BY <1>1, <1>2, <1>3 DEF FlightNext

(* What the proof carries along holds in every reachable state.            *)
LEMMA FlightInvariance == FlightSpec => []FlightIInv
BY FlightInitOK, FlightNextOK, PTL DEF FlightSpec

(* A caller is cancelled only by its own context, never because the caller *)
(* that started the shared computation hung up (coalesce.go:59).           *)
THEOREM CancelledByItsOwn == FlightSpec => []HangUpIsPrivate
<1>1. FlightIInv => HangUpIsPrivate
  BY DEF FlightIInv
<1> QED
  BY <1>1, FlightInvariance, PTL

(* Who gets a shared answer passed an access check of its own              *)
(* (stateids.go:54).                                                       *)
THEOREM CheckedByItsOwn == FlightSpec => []NoFreeRide
<1>1. FlightIInv => NoFreeRide
  BY DEF FlightIInv
<1> QED
  BY <1>1, FlightInvariance, PTL

(* No interleaving of joining, hanging up and delivering leaves a caller   *)
(* waiting for a call that has ended (coalesce.go:53).                     *)
THEOREM WaitersAreListed == FlightSpec => []NobodyStranded
<1>1. FlightIInv => NobodyStranded
  BY DEF FlightIInv
<1> QED
  BY <1>1, FlightInvariance, PTL
=============================================================================
