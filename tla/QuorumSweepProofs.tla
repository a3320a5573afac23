-------------------------- MODULE QuorumSweepProofs --------------------------
(***************************************************************************)
(* Proofs about the quorum sweep for every set of witnesses, tolerance and *)
(* set of instants.  The sweep's invariant ties the running support to the *)
(* set of claims that have been entered and not left.                      *)
(***************************************************************************)
EXTENDS QuorumSweep, FiniteSetTheorems, TLAPS

Visited == EventPoints(iv) \ pending

\* The claims the sweep is inside of.
Active == {w \in Witness : iv[w].lower \notin pending /\ iv[w].upper + 1 \in pending}

InOrder == \A v \in Visited : \A r \in pending : v < r

Counted == support = Cardinality(Active)

OpenIffQuorum == (openStart # None) <=> support >= QuorumSize

Behind ==
    /\ openStart # None => openStart \in Visited
    /\ \A k \in DOMAIN out : out[k].upper + 1 \in Visited

Exact == \A t \in Int : Passed(t) => (InOutput(t) <=> Accepted(iv, t))

Concluded ==
    verdict # Undecided => pending = {} /\ verdict.regions = Emitted

IInv ==
    /\ TypeOK
    /\ InOrder
    /\ Counted
    /\ OpenIffQuorum
    /\ Behind
    /\ RegionsSeparated
    /\ Exact
    /\ Concluded

-------------------------------------------------------------------------------
\* A finite set splits: adding elements that are new and dropping elements that
\* are there changes the cardinality by the difference.
LEMMA ExchangeCardinality ==
    ASSUME NEW A, NEW E, NEW L, IsFiniteSet(A), IsFiniteSet(E),
           A \cap E = {}, L \subseteq A
    PROVE  /\ IsFiniteSet((A \cup E) \ L)
           /\ Cardinality((A \cup E) \ L) =
                Cardinality(A) + Cardinality(E) - Cardinality(L)
<1>1. IsFiniteSet(L) /\ IsFiniteSet(A \cup E)
  BY FS_Subset, FS_Union
<1>2. Cardinality(A \cup E) = Cardinality(A) + Cardinality(E)
  <2>1. Cardinality(A \cup E) =
          Cardinality(A) + Cardinality(E) - Cardinality(A \cap E)
    BY FS_Union
  <2>2. Cardinality(A \cap E) = 0
    BY FS_EmptySet
  <2>3. Cardinality(A) \in Nat /\ Cardinality(E) \in Nat
    BY FS_CardinalityType
  <2>4. QED BY <2>1, <2>2, <2>3
<1>3. Cardinality((A \cup E) \ L) =
        Cardinality(A \cup E) - Cardinality((A \cup E) \cap L)
  BY <1>1, FS_Difference
<1>4. (A \cup E) \cap L = L
  OBVIOUS
<1>5. IsFiniteSet((A \cup E) \ L)
  BY <1>1, FS_Difference
<1>6. Cardinality((A \cup E) \ L) = Cardinality(A \cup E) - Cardinality(L)
  BY <1>3, <1>4, Zenon
<1>7. /\ Cardinality(A) \in Nat /\ Cardinality(E) \in Nat
      /\ Cardinality(L) \in Nat /\ Cardinality(A \cup E) \in Nat
  BY <1>1, FS_CardinalityType
<1>8. Cardinality((A \cup E) \ L) =
        Cardinality(A) + Cardinality(E) - Cardinality(L)
  BY <1>2, <1>6, <1>7
<1>9. QED BY <1>5, <1>8

\* Appending one element to a sequence.
LEMMA AppendFacts ==
    ASSUME NEW S, NEW s \in Seq(S), NEW e \in S
    PROVE  /\ Append(s, e) \in Seq(S)
           /\ DOMAIN Append(s, e) = DOMAIN s \cup {Len(s) + 1}
           /\ \A k \in DOMAIN s : Append(s, e)[k] = s[k]
           /\ Append(s, e)[Len(s) + 1] = e
OBVIOUS

\* Claims are records of two integers in order.
LEMMA ClaimType ==
    ASSUME NEW w \in Witness, iv \in [Witness -> Interval]
    PROVE  /\ iv[w].lower \in Int
           /\ iv[w].upper \in Int
           /\ iv[w].lower <= iv[w].upper
<1>1. iv[w] \in Interval
  OBVIOUS
<1>2. QED BY <1>1, InstantAssumption DEF Interval

\* Sets of witnesses are finite.
LEMMA WitnessesFinite ==
    ASSUME NEW S \in SUBSET Witness
    PROVE  IsFiniteSet(S) /\ Cardinality(S) \in Nat
BY WitnessAssumption, FS_Subset, FS_CardinalityType

\* The initial state satisfies the invariant: nothing is entered.
LEMMA InitInvariant == Init => IInv
<1> SUFFICES ASSUME Init PROVE IInv
  OBVIOUS
<1> USE DEF Init
<1>1. TypeOK
  <2>1. 0 \in Int /\ << >> \in Seq({r \in [lower : Int, upper : Int] : r.lower <= r.upper})
    OBVIOUS
  <2>2. QED BY <2>1 DEF TypeOK
<1>2. Visited = {}
  BY DEF Visited
<1>3. Active = {}
  BY DEF Active, EventPoints
<1>4. Counted
  BY <1>3, FS_EmptySet DEF Counted
<1>5. OpenIffQuorum
  BY ToleranceAssumption DEF OpenIffQuorum, QuorumSize
<1>6. InOrder /\ Behind
  BY <1>2 DEF InOrder, Behind
<1>7. Exact
  <2>1. SUFFICES ASSUME NEW t \in Int, Passed(t)
                 PROVE  InOutput(t) <=> Accepted(iv, t)
    BY DEF Exact
  <2>2. ~InOutput(t)
    BY DEF InOutput
  <2>3. Supporters(iv, t) = {}
    <3>1. SUFFICES ASSUME NEW w \in Witness PROVE ~Contains(iv[w], t)
      BY DEF Supporters
    <3>2. t < iv[w].lower
      BY <2>1 DEF Passed, EventPoints
    <3>3. QED BY <3>2, <1>1, ClaimType DEF Contains, TypeOK
  <2>4. ~Accepted(iv, t)
    BY <2>3, FS_EmptySet, ToleranceAssumption DEF Accepted, Support, QuorumSize
  <2>5. QED BY <2>2, <2>4
<1>8. RegionsSeparated /\ Concluded
  BY DEF RegionsSeparated, Concluded
<1>9. QED BY <1>1, <1>4, <1>5, <1>6, <1>7, <1>8 DEF IInv

-------------------------------------------------------------------------------
\* Visiting the least pending point p enters the claims that start there and
\* leaves those that end just before it; the sweep is in all of the latter.
LEMMA VisitActive ==
    ASSUME IInv, NEW p \in pending, \A r \in pending : p <= r, Visit(p)
    PROVE  /\ Active' = (Active \cup Entering(p)) \ Leaving(p)
           /\ Active \cap Entering(p) = {}
           /\ Leaving(p) \subseteq Active
<1> DEFINE Lo(w) == iv[w].lower
           End(w) == iv[w].upper + 1
<1>1. iv' = iv /\ pending' = pending \ {p}
  BY DEF Visit
<1>2. \A w \in Witness : Lo(w) \in Int /\ End(w) \in Int /\ Lo(w) < End(w)
  BY ClaimType DEF IInv, TypeOK
<1>3. Active \cap Entering(p) = {}
  BY DEF Active, Entering
<1>4. Leaving(p) \subseteq Active
  <2>1. SUFFICES ASSUME NEW w \in Witness, End(w) = p
                 PROVE  Lo(w) \notin pending
    BY DEF Leaving, Active
  <2>2. QED BY <2>1, <1>2
<1>5. \A w \in Witness : End(w) \notin pending => Lo(w) \notin pending
  <2>1. SUFFICES ASSUME NEW w \in Witness, Lo(w) \in pending, End(w) \notin pending
                 PROVE  FALSE
    OBVIOUS
  <2>2. End(w) \in Visited
    BY <2>1 DEF Visited, EventPoints
  <2>3. QED BY <2>1, <2>2, <1>2 DEF IInv, InOrder
<1>6. Active' = {w \in Witness : Lo(w) \notin pending \ {p} /\ End(w) \in pending \ {p}}
  BY <1>1 DEF Active
<1>7. \A w \in Witness : Lo(w) = p => End(w) \in pending \ {p}
  BY <1>2, <1>5
<1>8. Active' = (Active \cup Entering(p)) \ Leaving(p)
  BY <1>6, <1>7 DEF Active, Entering, Leaving
<1>9. QED BY <1>3, <1>4, <1>8

\* The running support after a visit counts the claims the sweep is then in.
LEMMA VisitCounted ==
    ASSUME IInv, NEW p \in pending, \A r \in pending : p <= r, Visit(p)
    PROVE  support' = Cardinality(Active')
<1>1. /\ IsFiniteSet(Active)
      /\ IsFiniteSet(Entering(p))
  BY WitnessesFinite DEF Active, Entering
<1>2. Cardinality((Active \cup Entering(p)) \ Leaving(p)) =
        Cardinality(Active) + Cardinality(Entering(p)) - Cardinality(Leaving(p))
  BY <1>1, VisitActive, ExchangeCardinality
<1>3. support' = support + (Cardinality(Entering(p)) - Cardinality(Leaving(p)))
  BY DEF Visit, Delta
<1>4. support = Cardinality(Active)
  BY DEF IInv, Counted
<1>5. /\ Cardinality(Active) \in Nat
      /\ Cardinality(Entering(p)) \in Nat
      /\ Cardinality(Leaving(p)) \in Nat
  BY WitnessesFinite DEF Active, Entering, Leaving
<1>6. support' = Cardinality(Active) + Cardinality(Entering(p)) - Cardinality(Leaving(p))
  BY <1>3, <1>4, <1>5
<1>7. QED BY <1>2, <1>6, VisitActive, Zenon

\* Past the last visited point and before the next, the claims that cover an
\* instant are the ones the sweep is in.
LEMMA ActiveSupports ==
    ASSUME NEW claims \in [Witness -> Interval],
           NEW pend \in SUBSET EventPoints(claims),
           NEW t \in Int,
           \A r \in pend : t < r,
           \A v \in EventPoints(claims) \ pend : v <= t
    PROVE  Supporters(claims, t) =
             {w \in Witness : claims[w].lower \notin pend /\ claims[w].upper + 1 \in pend}
<1>1. SUFFICES ASSUME NEW w \in Witness
               PROVE  Contains(claims[w], t) <=>
                        claims[w].lower \notin pend /\ claims[w].upper + 1 \in pend
  BY DEF Supporters
<1>2. claims[w] \in Interval
  OBVIOUS
<1>3. claims[w].lower \in Int /\ claims[w].upper \in Int
  BY <1>2, InstantAssumption DEF Interval
<1>4. claims[w].lower \in EventPoints(claims) /\ claims[w].upper + 1 \in EventPoints(claims)
  BY DEF EventPoints
<1>5. claims[w].lower <= t <=> claims[w].lower \notin pend
  BY <1>3, <1>4
<1>6. t <= claims[w].upper <=> claims[w].upper + 1 \in pend
  BY <1>3, <1>4
<1>7. QED BY <1>5, <1>6 DEF Contains

-------------------------------------------------------------------------------
\* A visit preserves the invariant.
LEMMA VisitInvariant ==
    ASSUME IInv, NEW p \in pending, \A r \in pending : p <= r, Visit(p)
    PROVE  IInv'
<1> DEFINE opened == IF support' >= QuorumSize /\ openStart = None THEN p ELSE openStart
           closes == opened # None /\ (support' < QuorumSize \/ pending = {p})
           Region == {r \in [lower : Int, upper : Int] : r.lower <= r.upper}
<1> USE DEF IInv
<1>1. /\ iv' = iv
      /\ pending' = pending \ {p}
      /\ \/ /\ closes
            /\ out' = Append(out, [lower |-> opened, upper |-> p - 1])
            /\ openStart' = None
         \/ /\ ~closes
            /\ openStart' = opened
            /\ out' = out
  BY DEF Visit
<1>2. support' = Cardinality(Active')
  BY VisitCounted
<1>3. Active' \subseteq Witness /\ support' \in Int
  <2>1. Active' \subseteq Witness
    BY <1>1 DEF Active
  <2>2. QED BY <2>1, <1>2, WitnessesFinite
<1>4. p \in Int /\ p \in EventPoints(iv) /\ p # None
  <2>1. p \in EventPoints(iv)
    BY DEF TypeOK
  <2>2. p \in Int
    BY <2>1, ClaimType DEF TypeOK, EventPoints
  <2>3. QED BY <2>1, <2>2, NoneAssumption
<1>5. Visited' = Visited \cup {p}
  BY <1>1, <1>4 DEF Visited
<1>6. \A v \in Visited : v \in Int /\ v < p
  <2>1. \A v \in Visited : v \in Int
    BY SMTT(30), ClaimType DEF Visited, TypeOK, EventPoints
  <2>2. QED BY <2>1 DEF InOrder
<1>7. \A r \in pending' : r \in Int /\ p < r
  <2>1. SUFFICES ASSUME NEW r \in pending, r # p PROVE r \in Int /\ p < r
    BY <1>1
  <2>2. r \in Int
    BY ClaimType DEF TypeOK, EventPoints
  <2>3. QED BY <2>1, <2>2, <1>4
<1>8. pending = {p} => support' = 0
  <2>1. SUFFICES ASSUME pending = {p} PROVE support' = 0
    OBVIOUS
  <2>2. pending' = {}
    BY <2>1, <1>1
  <2>3. Active' = {}
    BY <2>2 DEF Active
  <2>4. QED BY <2>3, <1>2, FS_EmptySet
<1>9. QuorumSize \in Int /\ QuorumSize > 0
  BY ToleranceAssumption DEF QuorumSize
<1>10. closes <=> openStart # None /\ support' < QuorumSize
  BY <1>8, <1>9, <1>3, <1>4
<1>11. closes => opened = openStart /\ openStart \in Int /\ openStart < p
  BY <1>10, <1>9, <1>3, <1>6 DEF Behind
<1>12. TypeOK'
  <2>1. openStart' \in Int \cup {None}
    BY <1>1, <1>4 DEF TypeOK
  <2>2. out' \in Seq(Region)
    <3>1. CASE closes
      <4>1. [lower |-> opened, upper |-> p - 1] \in Region
        BY <3>1, <1>11, <1>4
      <4>2. out \in Seq(Region)
        BY DEF TypeOK
      <4>3. out' = Append(out, [lower |-> opened, upper |-> p - 1])
        BY <3>1, <1>1
      <4> HIDE DEF Region, opened, closes
      <4>4. QED BY <4>1, <4>2, <4>3, AppendFacts
    <3>2. CASE ~closes
      BY <3>2, <1>1 DEF TypeOK
    <3>3. QED BY <3>1, <3>2
  <2>3. pending' \subseteq EventPoints(iv')
    BY <1>1 DEF TypeOK, EventPoints
  <2>4. QED BY <2>1, <2>2, <2>3, <1>1, <1>3 DEF TypeOK
<1>13. InOrder'
  BY <1>5, <1>6, <1>7, <1>4 DEF InOrder
<1>14. Counted'
  BY <1>2 DEF Counted
<1>15. OpenIffQuorum'
  <2>1. QuorumSize' = QuorumSize
    BY DEF QuorumSize
  <2>2. (openStart' # None) <=> support' >= QuorumSize
    BY <1>1, <1>3, <1>4, <1>9, <1>10
  <2>3. QED BY <2>1, <2>2 DEF OpenIffQuorum
<1>16. Behind'
  <2>1. openStart' # None => openStart' \in Visited'
    BY <1>1, <1>5 DEF Behind
  <2>2. \A k \in DOMAIN out' : out'[k].upper + 1 \in Visited'
    <3>1. CASE ~closes
      BY <3>1, <1>1, <1>5 DEF Behind
    <3>2. CASE closes
      <4>1. out' = Append(out, [lower |-> opened, upper |-> p - 1])
        BY <3>2, <1>1
      <4>2. (p - 1) + 1 \in Visited'
        BY <1>4, <1>5
      <4>3. out \in Seq(Region)
        BY DEF TypeOK
      <4>4. \A k \in DOMAIN out : out[k].upper + 1 \in Visited'
        BY <1>5 DEF Behind
      <4>5. QED BY <4>1, <4>2, <4>3, <4>4
    <3>3. QED BY <3>1, <3>2
  <2>3. QED BY <2>1, <2>2 DEF Behind
<1>17. Exact'
  <2>1. SUFFICES ASSUME NEW t \in Int, Passed(t)'
                 PROVE  InOutput(t)' <=> Accepted(iv, t)
    BY <1>1 DEF Exact, Accepted, Support, Supporters, QuorumSize
  <2>2. CASE t < p
    <3>1. Passed(t)
      BY <2>2, <2>1, <1>1 DEF Passed
    <3>2. InOutput(t) <=> Accepted(iv, t)
      BY <3>1 DEF Exact
    <3>3. CASE closes
      <4>1. out' = Append(out, [lower |-> openStart, upper |-> p - 1]) /\ openStart' = None
        BY <3>3, <1>1, <1>11
      <4>2. out \in Seq(Region)
        BY DEF TypeOK
      <4>3. openStart \in Int /\ openStart # None
        BY <3>3, <1>10, <1>11
      <4>4. Contains([lower |-> openStart, upper |-> p - 1], t) <=> openStart <= t
        BY <2>2, <1>4, <4>3 DEF Contains
      <4>5. InOutput(t)' <=>
              \/ \E k \in DOMAIN out : Contains(out[k], t)
              \/ Contains([lower |-> openStart, upper |-> p - 1], t)
        <5>1. [lower |-> openStart, upper |-> p - 1] \in Region
          BY <3>3, <1>4, <1>11
        <5>2. /\ DOMAIN out' = DOMAIN out \cup {Len(out) + 1}
              /\ \A k \in DOMAIN out : out'[k] = out[k]
              /\ out'[Len(out) + 1] = [lower |-> openStart, upper |-> p - 1]
          BY <4>1, <4>2, <5>1, AppendFacts
        <5>3. QED BY <5>2, <4>1 DEF InOutput, Contains
      <4>6. QED BY <3>2, <4>3, <4>4, <4>5 DEF InOutput
    <3>4. CASE ~closes
      <4>1. out' = out /\ openStart' = opened
        BY <3>4, <1>1
      <4>2. (opened # None /\ opened <= t) <=> (openStart # None /\ openStart <= t)
        BY <2>2, <1>4
      <4>3. QED BY <3>2, <4>1, <4>2 DEF InOutput, Contains
    <3>5. QED BY <3>3, <3>4
  <2>3. CASE p <= t
    <3>1. \A v \in Visited' : v <= t
      BY <2>3, <1>4, <1>5, <1>6
    <3>2. Supporters(iv, t) = Active'
      <4>1. \A r \in pending' : t < r
        BY <2>1 DEF Passed
      <4>2. \A v \in EventPoints(iv) \ pending' : v <= t
        BY <3>1, <1>1 DEF Visited
      <4>3. iv \in [Witness -> Interval] /\ pending' \in SUBSET EventPoints(iv)
        BY <1>1 DEF TypeOK
      <4>4. Active' = {w \in Witness : iv[w].lower \notin pending' /\ iv[w].upper + 1 \in pending'}
        BY <1>1 DEF Active
      <4>5. QED BY <4>1, <4>2, <4>3, <4>4, ActiveSupports
    <3>3. Accepted(iv, t) <=> openStart' # None
      BY <3>2, <1>2, <1>15 DEF Accepted, Support, OpenIffQuorum, QuorumSize
    <3>4. openStart' # None => openStart' <= t
      BY <3>1, <1>16 DEF Behind
    <3>5. \A k \in DOMAIN out' : ~Contains(out'[k], t)
      <4>1. SUFFICES ASSUME NEW k \in DOMAIN out' PROVE t > out'[k].upper
        BY <1>12 DEF Contains, TypeOK
      <4>2. out'[k].upper + 1 <= t
        BY <3>1, <1>16 DEF Behind
      <4>3. out'[k].upper \in Int
        BY <1>12 DEF TypeOK
      <4>4. QED BY <4>2, <4>3
    <3>6. QED BY <3>3, <3>4, <3>5 DEF InOutput, Contains
  <2>4. QED BY <2>2, <2>3, <1>4
<1>18. RegionsSeparated'
  <2>1. CASE ~closes
    <3>1. out' = out /\ openStart' = opened
      BY <2>1, <1>1
    <3>2. \A j, k \in DOMAIN out : j < k => out[j].upper + 1 < out[k].lower
      BY DEF RegionsSeparated
    <3>3. ASSUME openStart' # None, NEW k \in DOMAIN out
          PROVE  out[k].upper + 1 < openStart'
      <4>1. CASE openStart # None
        BY <4>1, <3>1, <3>3 DEF RegionsSeparated
      <4>2. CASE openStart = None
        <5>1. openStart' = p
          BY <4>2, <3>1, <3>3
        <5>2. out[k].upper + 1 < p
          BY <1>6 DEF Behind
        <5>3. QED BY <5>1, <5>2
      <4>3. QED BY <4>1, <4>2
    <3>4. QED BY <3>1, <3>2, <3>3 DEF RegionsSeparated
  <2>2. CASE closes
    <3>1. out' = Append(out, [lower |-> openStart, upper |-> p - 1]) /\ openStart' = None
      BY <2>2, <1>1, <1>11
    <3>2. [lower |-> openStart, upper |-> p - 1] \in Region
      BY <2>2, <1>4, <1>11
    <3>3. out \in Seq(Region)
      BY DEF TypeOK
    <3>4. /\ DOMAIN out' = DOMAIN out \cup {Len(out) + 1}
          /\ \A k \in DOMAIN out : out'[k] = out[k]
          /\ out'[Len(out) + 1] = [lower |-> openStart, upper |-> p - 1]
      BY <3>1, <3>2, <3>3, AppendFacts
    <3>5. \A k \in DOMAIN out : k \in Nat /\ k < Len(out) + 1
      BY <3>3
    <3>6. openStart # None
      BY <2>2, <1>10
    <3>7. \A k \in DOMAIN out : out[k].upper + 1 < openStart
      BY <3>6 DEF RegionsSeparated
    <3>8. \A j, k \in DOMAIN out : j < k => out[j].upper + 1 < out[k].lower
      BY DEF RegionsSeparated
    <3>9. Len(out) \in Nat
      BY <3>3
    <3>10. \A j, k \in DOMAIN out' : j < k => out'[j].upper + 1 < out'[k].lower
      <4>1. SUFFICES ASSUME NEW j \in DOMAIN out', NEW k \in DOMAIN out', j < k
                     PROVE  out'[j].upper + 1 < out'[k].lower
        OBVIOUS
      <4>2. j \in DOMAIN out
        BY <4>1, <3>4, <3>5, <3>9
      <4>3. CASE k \in DOMAIN out
        BY <4>1, <4>2, <4>3, <3>4, <3>8
      <4>4. CASE k = Len(out) + 1
        BY <4>2, <4>4, <3>4, <3>7
      <4>5. QED BY <4>3, <4>4, <3>4
    <3>11. QED BY <3>1, <3>10 DEF RegionsSeparated
  <2>3. QED BY <2>1, <2>2
<1>19. Concluded'
  <2>1. verdict' = verdict /\ pending # {}
    BY DEF Visit
  <2>2. QED BY <2>1 DEF Concluded
<1>20. QED BY <1>12, <1>13, <1>14, <1>15, <1>16, <1>17, <1>18, <1>19
\* Concluding leaves the sweep as it is and records what it emitted.
LEMMA ConcludeInvariant == IInv /\ Conclude => IInv'
<1> SUFFICES ASSUME IInv, Conclude PROVE IInv'
  OBVIOUS
<1>1. /\ iv' = iv /\ pending' = pending /\ support' = support
      /\ openStart' = openStart /\ out' = out /\ pending = {}
  BY DEF Conclude
<1>2. verdict'.regions = Emitted
  BY DEF Conclude
<1>3. Visited' = Visited /\ Active' = Active /\ Emitted' = Emitted
  BY <1>1 DEF Visited, Active, Emitted
<1>4. TypeOK' /\ InOrder' /\ Behind' /\ RegionsSeparated'
  BY <1>1, <1>3 DEF IInv, TypeOK, InOrder, Behind, RegionsSeparated
<1>5. Counted' /\ OpenIffQuorum'
  BY <1>1, <1>3 DEF IInv, Counted, OpenIffQuorum, QuorumSize
<1>6. Exact'
  BY <1>1 DEF IInv, Exact, Passed, InOutput, Accepted, Support, Supporters, Contains, QuorumSize
<1>7. Concluded'
  BY <1>1, <1>2, <1>3 DEF Concluded
<1>8. QED BY <1>4, <1>5, <1>6, <1>7 DEF IInv

\* A step that changes nothing preserves the invariant.
LEMMA StutterInvariant == IInv /\ UNCHANGED vars => IInv'
<1> SUFFICES ASSUME IInv, UNCHANGED vars PROVE IInv'
  OBVIOUS
<1>1. /\ iv' = iv /\ pending' = pending /\ support' = support
      /\ openStart' = openStart /\ out' = out /\ verdict' = verdict
  BY DEF vars
<1>2. Visited' = Visited /\ Active' = Active /\ Emitted' = Emitted
  BY <1>1 DEF Visited, Active, Emitted
<1>3. TypeOK' /\ InOrder' /\ Behind' /\ RegionsSeparated'
  BY <1>1, <1>2 DEF IInv, TypeOK, InOrder, Behind, RegionsSeparated
<1>4. Counted' /\ OpenIffQuorum' /\ Concluded'
  BY <1>1, <1>2 DEF IInv, Counted, OpenIffQuorum, QuorumSize, Concluded
<1>5. Exact'
  BY <1>1 DEF IInv, Exact, Passed, InOutput, Accepted, Support, Supporters, Contains, QuorumSize
<1>6. QED BY <1>3, <1>4, <1>5 DEF IInv

\* The invariant holds throughout every sweep.
THEOREM Invariant == Spec => []IInv
<1>1. Init => IInv
  BY InitInvariant
<1>2. IInv /\ [Next]_vars => IInv'
  <2> SUFFICES ASSUME IInv, [Next]_vars PROVE IInv'
    OBVIOUS
  <2>1. CASE Sweep
    BY <2>1, VisitInvariant DEF Sweep
  <2>2. CASE Conclude
    BY <2>2, ConcludeInvariant
  <2>3. CASE UNCHANGED vars
    BY <2>3, StutterInvariant
  <2>4. QED BY <2>1, <2>2, <2>3 DEF Next
<1>3. QED BY <1>1, <1>2, PTL DEF Spec

-------------------------------------------------------------------------------
\* Every variable of the sweep keeps its type; no emitted region is inverted,
\* so the Interval constructor never raises inside quorum_regions().
THEOREM TypeCorrectness == Spec => []TypeOK
<1>1. IInv => TypeOK
  BY DEF IInv
<1>2. QED BY <1>1, Invariant, PTL

\* Among the instants passed, the regions and the open one cover exactly those
\* with quorum support, for any number of witnesses and any claims.
THEOREM Exactness == Spec => []SweepIsExact
<1>1. IInv => SweepIsExact
  BY InstantAssumption DEF IInv, Exact, SweepIsExact
<1>2. QED BY <1>1, Invariant, PTL

\* Regions are emitted in increasing order and never touch.
THEOREM Separation == Spec => []RegionsSeparated
<1>1. IInv => RegionsSeparated
  BY DEF IInv
<1>2. QED BY <1>1, Invariant, PTL

\* When at most F claims miss an instant, the verdict's regions contain it.
THEOREM TrueTime == Spec => []TrueTimeAccepted
<1>1. IInv => TrueTimeAccepted
  <2> SUFFICES ASSUME IInv, verdict # Undecided, NEW t \in Instant,
                        Cardinality(Witness \ Supporters(iv, t)) <= F
                 PROVE  \E r \in verdict.regions : Contains(r, t)
    BY DEF TrueTimeAccepted
  <2>2. pending = {} /\ verdict.regions = Emitted
    BY DEF IInv, Concluded
  <2>3. t \in Int
    BY InstantAssumption
  <2>4. Accepted(iv, t)
    <3>1. Supporters(iv, t) \in SUBSET Witness
      BY DEF Supporters
    <3>2. Witness \cap Supporters(iv, t) = Supporters(iv, t)
      BY <3>1
    <3>3. Cardinality(Witness \ Supporters(iv, t)) =
            Cardinality(Witness) - Cardinality(Supporters(iv, t))
      BY <3>2, WitnessAssumption, FS_Difference
    <3>4. Cardinality(Supporters(iv, t)) \in Nat /\ Cardinality(Witness) \in Nat
      BY <3>1, WitnessesFinite
    <3>5. QED BY <3>3, <3>4, ToleranceAssumption DEF Accepted, Support, QuorumSize
  <2>5. openStart = None
    <3>1. Active = {}
      BY <2>2 DEF Active
    <3>2. support = 0
      BY <3>1, FS_EmptySet DEF IInv, Counted
    <3>3. QED BY <3>2, ToleranceAssumption DEF IInv, OpenIffQuorum, QuorumSize
  <2>6. InOutput(t)
    BY <2>2, <2>3, <2>4 DEF IInv, Exact, Passed
  <2>7. QED BY <2>2, <2>5, <2>6 DEF InOutput, Emitted
<1>2. QED BY <1>1, Invariant, PTL

\* No F witnesses can make a region cover an instant on their own: more than F
\* of the others claim it.
THEOREM Vouched == Spec => []RegionsVouched
<1>1. IInv => RegionsVouched
  <2> SUFFICES ASSUME IInv, NEW bad \in SUBSET Witness, Cardinality(bad) <= F,
                        NEW k \in DOMAIN out, NEW t \in out[k].lower .. out[k].upper
                 PROVE  Cardinality(Supporters(iv, t) \ bad) >= F + 1
    BY DEF RegionsVouched
  <2>2. out[k].lower \in Int /\ out[k].upper \in Int
    BY DEF IInv, TypeOK
  <2>3. t \in Int /\ Contains(out[k], t)
    BY <2>2 DEF Contains
  <2>4. Passed(t)
    <3>1. out[k].upper + 1 \in Visited
      BY DEF IInv, Behind
    <3>2. \A r \in pending : r \in Int
      BY ClaimType DEF IInv, TypeOK, EventPoints
    <3>3. \A r \in pending : out[k].upper + 1 < r
      BY <3>1 DEF IInv, InOrder
    <3>4. QED BY <2>2, <2>3, <3>2, <3>3 DEF Passed, Contains
  <2>5. Accepted(iv, t)
    BY <2>3, <2>4 DEF IInv, Exact, InOutput
  <2>6. Supporters(iv, t) \in SUBSET Witness
    BY DEF Supporters
  <2>7. Cardinality(Supporters(iv, t) \ bad) =
          Cardinality(Supporters(iv, t)) - Cardinality(Supporters(iv, t) \cap bad)
    BY <2>6, WitnessesFinite, FS_Difference
  <2>8. Cardinality(Supporters(iv, t) \cap bad) <= Cardinality(bad)
    BY WitnessesFinite, FS_Subset
  <2>9. /\ Cardinality(Supporters(iv, t)) \in Nat /\ Cardinality(bad) \in Nat
        /\ Cardinality(Supporters(iv, t) \cap bad) \in Nat
    BY <2>6, WitnessesFinite
  <2>10. QED BY <2>5, <2>7, <2>8, <2>9, ToleranceAssumption
              DEF Accepted, Support, QuorumSize
<1>2. QED BY <1>1, Invariant, PTL

-------------------------------------------------------------------------------
\* Where support begins, some claim begins, and where it ends, some claim ends.
LEMMA SupportChanges ==
    ASSUME NEW claims \in [Witness -> Interval], NEW t \in Int, Accepted(claims, t)
    PROVE  /\ ~Accepted(claims, t - 1) => \E w \in Witness : claims[w].lower = t
           /\ ~Accepted(claims, t + 1) => \E w \in Witness : claims[w].upper = t
<1>1. \A w \in Witness :
          claims[w].lower \in Int /\ claims[w].upper \in Int
  BY InstantAssumption DEF Interval
<1>2. \A s \in Int : Supporters(claims, s) \in SUBSET Witness
  BY DEF Supporters
<1>3. ASSUME NEW s \in Int, ~Accepted(claims, s)
      PROVE  \E w \in Witness : Contains(claims[w], t) /\ ~Contains(claims[w], s)
  <2>1. SUFFICES ASSUME Supporters(claims, t) \subseteq Supporters(claims, s) PROVE FALSE
    BY DEF Supporters
  <2>2. Cardinality(Supporters(claims, t)) <= Cardinality(Supporters(claims, s))
    BY <1>2, <2>1, WitnessesFinite, FS_Subset
  <2>3. /\ Cardinality(Supporters(claims, t)) \in Nat
        /\ Cardinality(Supporters(claims, s)) \in Nat
    BY <1>2, WitnessesFinite
  <2>4. QED BY <1>3, <2>2, <2>3, ToleranceAssumption DEF Accepted, Support, QuorumSize
<1>4. ASSUME ~Accepted(claims, t - 1) PROVE \E w \in Witness : claims[w].lower = t
  <2>1. PICK w \in Witness : Contains(claims[w], t) /\ ~Contains(claims[w], t - 1)
    BY <1>3, <1>4
  <2>2. claims[w].lower = t
    BY <1>1, <2>1 DEF Contains
  <2>3. QED BY <2>2
<1>5. ASSUME ~Accepted(claims, t + 1) PROVE \E w \in Witness : claims[w].upper = t
  <2>1. PICK w \in Witness : Contains(claims[w], t) /\ ~Contains(claims[w], t + 1)
    BY <1>3, <1>5
  <2>2. claims[w].upper = t
    BY <1>1, <2>1 DEF Contains
  <2>3. QED BY <2>2
<1>6. QED BY <1>4, <1>5

\* When every point was visited nothing is open, and the output covers exactly the
\* instants a quorum supports, up to and not past the ends of each region.
LEMMA OutputAtTheEnd ==
    ASSUME IInv, pending = {}
    PROVE  /\ \A t \in Int : Accepted(iv, t) <=> \E k \in DOMAIN out : Contains(out[k], t)
           /\ \A k \in DOMAIN out :
                 /\ out[k] \in {r \in [lower : Int, upper : Int] : r.lower <= r.upper}
                 /\ ~Accepted(iv, out[k].lower - 1) /\ ~Accepted(iv, out[k].upper + 1)
<1>1. openStart = None
  <2>1. Active = {}
    BY DEF Active
  <2>2. support = 0
    BY <2>1, FS_EmptySet DEF IInv, Counted
  <2>3. QED BY <2>2, ToleranceAssumption DEF IInv, OpenIffQuorum, QuorumSize
<1>2. \A t \in Int : Accepted(iv, t) <=> \E k \in DOMAIN out : Contains(out[k], t)
  BY <1>1 DEF IInv, Exact, Passed, InOutput
<1>3. \A k \in DOMAIN out :
          k \in Nat /\ out[k] \in {r \in [lower : Int, upper : Int] : r.lower <= r.upper}
  BY DEF IInv, TypeOK
<1>4. \A j, k \in DOMAIN out : j < k => out[j].upper + 1 < out[k].lower
  BY DEF IInv, RegionsSeparated
<1>5. ASSUME NEW k \in DOMAIN out
      PROVE  ~Accepted(iv, out[k].lower - 1) /\ ~Accepted(iv, out[k].upper + 1)
  <2>1. out[k].lower \in Int /\ out[k].upper \in Int /\ out[k].lower <= out[k].upper
    BY <1>3
  <2>2. ASSUME NEW j \in DOMAIN out
        PROVE  ~Contains(out[j], out[k].lower - 1) /\ ~Contains(out[j], out[k].upper + 1)
    <3>1. out[j].lower \in Int /\ out[j].upper \in Int /\ out[j].lower <= out[j].upper
      BY <1>3
    <3>2. CASE j = k
      BY <2>1, <3>2 DEF Contains
    <3>3. CASE j < k
      BY <1>4, <2>1, <3>1, <3>3 DEF Contains
    <3>4. CASE k < j
      BY <1>4, <2>1, <3>1, <3>4 DEF Contains
    <3>5. QED BY <1>3, <3>2, <3>3, <3>4
  <2>3. QED BY <1>2, <2>1, <2>2
<1>6. QED BY <1>2, <1>3, <1>5

\* What the finished loop has emitted are the maximal runs of accepted instants.
LEMMA EmittedAreRegions ==
    ASSUME IInv, pending = {}
    PROVE  Emitted = Regions(iv)
<1>1. iv \in [Witness -> Interval]
  BY DEF IInv, TypeOK
<1>2. \A w \in Witness : iv[w].lower \in Int /\ iv[w].upper \in Int
  BY <1>1, ClaimType
<1>3. ASSUME NEW k \in DOMAIN out PROVE out[k] \in Regions(iv)
  <2>1. /\ out[k] \in [lower : Int, upper : Int] /\ out[k].lower <= out[k].upper
        /\ ~Accepted(iv, out[k].lower - 1) /\ ~Accepted(iv, out[k].upper + 1)
    BY OutputAtTheEnd
  <2>2. \A t \in out[k].lower .. out[k].upper : Accepted(iv, t)
    <3>1. ASSUME NEW t \in out[k].lower .. out[k].upper PROVE Accepted(iv, t)
      <4>1. t \in Int /\ Contains(out[k], t)
        BY <2>1 DEF Contains
      <4>2. QED BY <4>1, OutputAtTheEnd
    <3>2. QED BY <3>1
  <2>3. \E w \in Witness : iv[w].lower = out[k].lower
    BY <1>1, <2>1, <2>2, SupportChanges
  <2>4. \E w \in Witness : iv[w].upper = out[k].upper
    BY <1>1, <2>1, <2>2, SupportChanges
  <2>5. out[k] \in [lower : {iv[w].lower : w \in Witness}, upper : {iv[w].upper : w \in Witness}]
    BY <2>1, <2>3, <2>4
  <2>6. QED BY <2>1, <2>2, <2>5 DEF Regions
<1>4. ASSUME NEW r \in Regions(iv) PROVE \E k \in DOMAIN out : out[k] = r
  <2>1. /\ r \in [lower : Int, upper : Int] /\ r.lower <= r.upper
        /\ \A t \in r.lower .. r.upper : Accepted(iv, t)
        /\ ~Accepted(iv, r.lower - 1) /\ ~Accepted(iv, r.upper + 1)
    BY <1>2 DEF Regions
  <2>2. PICK k \in DOMAIN out : Contains(out[k], r.lower)
    BY <2>1, OutputAtTheEnd
  <2>3. /\ out[k] \in [lower : Int, upper : Int]
        /\ ~Accepted(iv, out[k].upper + 1)
    BY OutputAtTheEnd
  <2>4. \A t \in Int : out[k].lower <= t /\ t <= out[k].upper => Accepted(iv, t)
    BY OutputAtTheEnd DEF Contains
  <2>5. out[k].lower = r.lower
    BY <2>1, <2>2, <2>3, <2>4 DEF Contains
  <2>6. out[k].upper = r.upper
    <3>1. ~(out[k].upper < r.upper)
      BY <2>1, <2>2, <2>3 DEF Contains
    <3>2. ~(r.upper < out[k].upper)
      BY <2>1, <2>3, <2>4, <2>5
    <3>3. QED BY <2>1, <2>3, <3>1, <3>2
  <2>7. QED BY <2>1, <2>3, <2>5, <2>6
<1>5. QED BY <1>3, <1>4 DEF Emitted

\* No two regions are the same, so the length consensus() tests counts them.
LEMMA OneRegion ==
    ASSUME IInv
    PROVE  Cardinality(Emitted) = 1 <=> Len(out) = 1
<1>1. /\ Len(out) \in Nat /\ DOMAIN out = 1 .. Len(out)
      /\ \A k \in DOMAIN out :
            out[k].lower \in Int /\ out[k].upper \in Int /\ out[k].lower <= out[k].upper
  BY DEF IInv, TypeOK
<1>2. ASSUME Len(out) = 1 PROVE Cardinality(Emitted) = 1
  <2>1. Emitted = {out[1]}
    BY <1>1, <1>2 DEF Emitted
  <2>2. QED BY <2>1, FS_Singleton
<1>3. ASSUME Cardinality(Emitted) = 1 PROVE Len(out) = 1
  <2>1. Len(out) # 0
    <3>1. SUFFICES ASSUME Len(out) = 0 PROVE FALSE
      OBVIOUS
    <3>2. Emitted = {}
      BY <1>1, <3>1 DEF Emitted
    <3>3. QED BY <1>3, <3>2, FS_EmptySet
  <2>2. ~(Len(out) > 1)
    <3>1. SUFFICES ASSUME Len(out) > 1 PROVE FALSE
      OBVIOUS
    <3>2. 1 \in DOMAIN out /\ 2 \in DOMAIN out
      BY <1>1, <3>1
    <3>3. out[1].upper + 1 < out[2].lower
      BY <3>2 DEF IInv, RegionsSeparated
    <3>4. out[1] # out[2]
      BY <1>1, <3>2, <3>3
    <3>5. {out[1], out[2]} \subseteq Emitted
      BY <3>2 DEF Emitted
    <3>6. IsFiniteSet(DOMAIN out)
      BY <1>1, FS_Interval
    <3>7. IsFiniteSet(Emitted)
      <4>1. out \in Surjection(DOMAIN out, Emitted)
        BY DEF IInv, TypeOK, Emitted, Surjection
      <4>2. QED BY <3>6, <4>1, FS_Surjection
    <3>8. PICK x : Emitted = {x}
      BY <1>3, <3>7, FS_Singleton
    <3>9. QED BY <3>4, <3>5, <3>8
  <2>3. QED BY <1>1, <2>1, <2>2
<1>4. QED BY <1>2, <1>3

\* The loop of quorum_regions() and the test of consensus() do what QuorumTime
\* promises of a checkpoint: the sweep decides nothing, and when it is over the
\* verdict names the maximal runs of instants that a quorum supports.
THEOREM Implementation == Spec => ImplementsQuorumTime
<1>1. Init => Promise!Init
  BY DEF Init, Promise!Init, Interval, Promise!Interval
<1>2. IInv /\ [Next]_vars => [Promise!Decide]_(Promise!vars)
  <2> SUFFICES ASSUME IInv, [Next]_vars PROVE [Promise!Decide]_(Promise!vars)
    OBVIOUS
  <2>1. CASE Sweep
    BY <2>1 DEF Sweep, Visit, Promise!vars
  <2>2. CASE Conclude
    <3>1. pending = {} /\ verdict = Undecided /\ iv' = iv
      BY <2>2 DEF Conclude
    <3>2. Emitted = Regions(iv) /\ (Cardinality(Regions(iv)) = 1 <=> Len(out) = 1)
      BY <3>1, EmittedAreRegions, OneRegion
    <3>3. verdict' = Verdict(Regions(iv))
      BY <2>2, <3>2 DEF Conclude, Verdict
    <3>4. Verdict(Regions(iv)) = Promise!Verdict(Promise!Regions(iv))
      BY DEF Verdict, Promise!Verdict, Regions, Promise!Regions, Accepted, Promise!Accepted,
             Support, Promise!Support, Supporters, Promise!Supporters, Contains,
             Promise!Contains, QuorumSize, Promise!QuorumSize, Cardinality, Promise!Cardinality
    <3>5. QED BY <3>1, <3>3, <3>4 DEF Promise!Decide
  <2>3. CASE UNCHANGED vars
    BY <2>3 DEF vars, Promise!vars
  <2>4. QED BY <2>1, <2>2, <2>3 DEF Next
<1>3. QED BY <1>1, <1>2, Invariant, PTL DEF Spec, Promise!Spec, ImplementsQuorumTime
===============================================================================
