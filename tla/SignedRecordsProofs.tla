------------------------- MODULE SignedRecordsProofs -------------------------
(***************************************************************************)
(* Proofs about signed records and verify_bundle(), for any witnesses,     *)
(* tolerance, lengths of chains, runs and changes: what a bundle that      *)
(* passes holds, that what was published passes, and what an OpenSSL says  *)
(* that lacks an algorithm.                                                *)
(***************************************************************************)
EXTENDS SignedRecords, FiniteSetTheorems, SequenceTheorems, WellFoundedInduction, TLAPS

\* A set of numbers has a least.
LEMMA LeastNumber ==
    ASSUME NEW nn, nn \subseteq Nat, nn # {}
    PROVE  \E x \in nn : \A y \in nn : x <= y
<1> DEFINE less == {ss \in Nat \X Nat : ss[1] < ss[2]}
<1>1. IsWellFoundedOn(less, Nat)
  BY NatLessThanWellFounded DEF OpToRel
<1>2. PICK x \in nn : \A y \in nn : ~(<<y, x>> \in less)
  <2> HIDE DEF less
  <2>1. QED BY <1>1, WFMin
<1>3. \A y \in nn : <<y, x>> \in less <=> y < x
  OBVIOUS
<1> HIDE DEF less
<1>4. \A y \in nn : x \in Nat /\ y \in Nat /\ ~(y < x)
  BY <1>2, <1>3
<1>5. QED BY <1>4

\* The first to stop decides, and an algorithm more does not move it.
LEMMA UnableSignatures ==
    ASSUME NEW s, DOMAIN s.env \subseteq Nat, NEW avail \in SUBSET Algorithms,
           Signatures(s, avail) # "UNAVAILABLE"
    PROVE  /\ Signatures(s, avail) = Signatures(s, Algorithms)
           /\ Signatures(s, avail) \in {"true", "false"}
<1> DEFINE Stops(v) == {i \in DOMAIN s.env :
                          Again(s.env, i) \/ s.env[i].alg \notin v \/ s.env[i].over # s.content}
           First(v) == CHOOSE i \in Stops(v) : \A j \in Stops(v) : i <= j
<1>1. \A v : Signatures(s, v) =
                IF Stops(v) # {}
                  THEN IF ~Again(s.env, First(v)) /\ s.env[First(v)].alg \notin v
                         THEN "UNAVAILABLE" ELSE "false"
                  ELSE IF Algorithms \subseteq {s.env[i].alg : i \in DOMAIN s.env}
                         THEN "true" ELSE "false"
  BY DEF Signatures
<1>2. Stops(Algorithms) \subseteq Stops(avail)
  OBVIOUS
<1>3. CASE Stops(avail) = {}
  <2>1. Stops(Algorithms) = {}
    BY <1>2, <1>3
  <2>2. QED BY <1>1, <1>3, <2>1
<1>4. CASE Stops(avail) # {}
  <2>1. PICK x \in Stops(avail) : \A j \in Stops(avail) : x <= j
    <3>1. Stops(avail) \subseteq Nat
      OBVIOUS
    <3> HIDE DEF Stops
    <3>2. QED BY <1>4, <3>1, LeastNumber
  <2>2. First(avail) \in Stops(avail) /\ \A j \in Stops(avail) : First(avail) <= j
    BY <2>1
  <2>3. Again(s.env, First(avail)) \/ s.env[First(avail)].alg \in avail
    BY <1>1, <1>4
  <2>4. First(avail) \in Stops(Algorithms)
    BY <2>2, <2>3
  <2>5. \A j \in Stops(Algorithms) : First(avail) <= j
    BY <1>2, <2>2
  <2>6. First(Algorithms) = First(avail)
    <3>1. Stops(avail) \subseteq Nat
      OBVIOUS
    <3> HIDE DEF Stops
    <3>2. \A i \in Stops(Algorithms) : (\A j \in Stops(Algorithms) : i <= j) <=> i = First(avail)
      BY <1>2, <2>2, <2>4, <2>5, <3>1
    <3>3. PICK y : y = First(avail)
      OBVIOUS
    <3>4. y \in Stops(Algorithms)
          /\ \A i \in Stops(Algorithms) : (\A j \in Stops(Algorithms) : i <= j) <=> i = y
      BY <2>4, <3>2, <3>3
    <3>5. (CHOOSE i \in Stops(Algorithms) : \A j \in Stops(Algorithms) : i <= j) = y
      BY <3>4
    <3>6. QED BY <3>3, <3>5
  <2>7. QED BY <1>1, <1>4, <2>3, <2>4, <2>6
<1>5. QED BY <1>3, <1>4

\* The same of a history, whose first record that is not right decides.
LEMMA UnableHistory ==
    ASSUME NEW h, DOMAIN h \subseteq Nat, \A k \in DOMAIN h : DOMAIN h[k].env \subseteq Nat,
           NEW avail \in SUBSET Algorithms, AllSignatures(h, avail) # "UNAVAILABLE"
    PROVE  /\ AllSignatures(h, avail) = AllSignatures(h, Algorithms)
           /\ AllSignatures(h, avail) \in {"true", "false"}
<1> DEFINE Wrong(v) == {k \in DOMAIN h : Signatures(h[k], v) # "true"}
           First(v) == CHOOSE k \in Wrong(v) : \A j \in Wrong(v) : k <= j
<1>1. \A v : AllSignatures(h, v) = IF Wrong(v) = {} THEN "true" ELSE Signatures(h[First(v)], v)
  BY DEF AllSignatures
<1>2. \A k \in DOMAIN h : Signatures(h[k], avail) # "UNAVAILABLE" =>
           /\ Signatures(h[k], avail) = Signatures(h[k], Algorithms)
           /\ Signatures(h[k], avail) \in {"true", "false"}
  BY UnableSignatures
<1>3. Wrong(Algorithms) \subseteq Wrong(avail)
  BY <1>2
<1>4. CASE Wrong(avail) = {}
  <2>1. Wrong(Algorithms) = {}
    BY <1>3, <1>4
  <2>2. QED BY <1>1, <1>4, <2>1
<1>5. CASE Wrong(avail) # {}
  <2>1. PICK x \in Wrong(avail) : \A j \in Wrong(avail) : x <= j
    <3>1. Wrong(avail) \subseteq Nat
      OBVIOUS
    <3> HIDE DEF Wrong
    <3>2. QED BY <1>5, <3>1, LeastNumber
  <2>2. First(avail) \in Wrong(avail) /\ \A j \in Wrong(avail) : First(avail) <= j
    BY <2>1
  <2>3. Signatures(h[First(avail)], avail) # "UNAVAILABLE"
    BY <1>1, <1>5
  <2>4. First(avail) \in Wrong(Algorithms)
    BY <1>2, <2>2, <2>3
  <2>5. First(Algorithms) = First(avail)
    <3>1. Wrong(avail) \subseteq Nat
      OBVIOUS
    <3> HIDE DEF Wrong
    <3>2. \A i \in Wrong(Algorithms) : (\A j \in Wrong(Algorithms) : i <= j) <=> i = First(avail)
      BY <1>3, <2>2, <2>4, <3>1
    <3>3. QED BY <2>4, <3>2
  <2>6. QED BY <1>1, <1>2, <1>5, <2>2, <2>3, <2>4, <2>5
<1>6. QED BY <1>4, <1>5

-------------------------------------------------------------------------------
\* In a finite set in order, every place is taken by one element.
Orders(less, D) ==
    /\ \A j \in D : ~(<<j, j>> \in less)
    /\ \A j, k, l \in D : <<j, k>> \in less /\ <<k, l>> \in less => <<j, l>> \in less
    /\ \A j, k \in D : j # k => <<j, k>> \in less \/ <<k, j>> \in less

Beneath(D, less, k) == {j \in D : <<j, k>> \in less}

Ranks(rank, less, D) == rank \in [D -> Nat] /\ \A k \in D : rank[k] = Cardinality(Beneath(D, less, k))

LEMMA Places ==
    ASSUME NEW D, IsFiniteSet(D), NEW less, Orders(less, D), NEW rank, Ranks(rank, less, D)
    PROVE  /\ Cardinality(D) \in Nat /\ rank \in [D -> 0 .. Cardinality(D) - 1]
           /\ \A j, k \in D : rank[j] = rank[k] => j = k
           /\ \A i \in 0 .. Cardinality(D) - 1 : \E k \in D : rank[k] = i
<1> DEFINE Under(k) == Beneath(D, less, k)
<1> USE DEF Beneath, Orders, Ranks
<1>1. PICK n \in Nat : n = Cardinality(D)
  BY FS_CardinalityType
<1>2. ASSUME NEW k \in D
      PROVE  /\ IsFiniteSet(Under(k)) /\ Cardinality(Under(k)) \in Nat /\ Cardinality(Under(k)) < n
             /\ rank[k] = Cardinality(Under(k))
  <2>1. Under(k) \in SUBSET D /\ Under(k) # D
    OBVIOUS
  <2>2. /\ IsFiniteSet(Under(k)) /\ Cardinality(Under(k)) <= Cardinality(D)
        /\ Cardinality(D) = Cardinality(Under(k)) => D = Under(k)
    <3> HIDE DEF Under
    <3>1. QED BY <2>1, FS_Subset
  <2>3. Cardinality(Under(k)) \in Nat
    BY <2>2, FS_CardinalityType
  <2>4. rank[k] = Cardinality(Under(k))
    OBVIOUS
  <2> HIDE DEF Under
  <2>5. QED BY <1>1, <2>1, <2>2, <2>3, <2>4
<1>3. ASSUME NEW j \in D, NEW k \in D, <<j, k>> \in less PROVE rank[j] < rank[k]
  <2>1. Under(j) \in SUBSET Under(k) /\ j \in Under(k) /\ j \notin Under(j)
    BY <1>3
  <2>2. /\ Cardinality(Under(j)) <= Cardinality(Under(k))
        /\ Cardinality(Under(k)) = Cardinality(Under(j)) => Under(k) = Under(j)
    <3>1. IsFiniteSet(Under(k))
      BY <1>2
    <3> HIDE DEF Under
    <3>2. QED BY <2>1, <3>1, FS_Subset
  <2> HIDE DEF Under
  <2>3. Cardinality(Under(j)) \in Nat /\ Cardinality(Under(k)) \in Nat
        /\ rank[j] = Cardinality(Under(j)) /\ rank[k] = Cardinality(Under(k))
    BY <1>2
  <2>4. QED BY <2>1, <2>2, <2>3
<1>4. \A k \in D : rank[k] \in 0 .. n - 1
  <2> SUFFICES ASSUME NEW k \in D PROVE rank[k] \in 0 .. n - 1
    OBVIOUS
  <2>1. rank[k] \in Nat /\ rank[k] < n
    <3> HIDE DEF Under
    <3>1. QED BY <1>2
  <2>2. QED BY <2>1
<1>5. \A j, k \in D : rank[j] = rank[k] => j = k
  <2>1. \A j, k \in D : <<j, k>> \in less => rank[j] # rank[k]
    <3> SUFFICES ASSUME NEW j \in D, NEW k \in D, <<j, k>> \in less PROVE rank[j] # rank[k]
      OBVIOUS
    <3>1. rank[j] < rank[k] /\ rank[j] \in Nat /\ rank[k] \in Nat
      BY <1>3
    <3>2. QED BY <3>1
  <2>2. QED BY <2>1
<1>6. rank \in [D -> 0 .. n - 1]
  BY <1>4
<1>7. IsFiniteSet(0 .. n - 1) /\ Cardinality(0 .. n - 1) = n
  <2>1. 0 \in Int /\ n - 1 \in Int /\ (IF 0 > n - 1 THEN 0 ELSE n - 1 - 0 + 1) = n
    BY <1>1
  <2>2. QED BY <2>1, FS_Interval, Zenon
<1>8. rank \in Injection(D, 0 .. n - 1)
  BY <1>5, <1>6 DEF Injection, IsInjective
<1>9. rank \in Surjection(D, 0 .. n - 1)
  BY <1>1, <1>7, <1>8, FS_Injection
<1>10. \A i \in 0 .. n - 1 : \E k \in D : rank[k] = i
  BY <1>9 DEF Surjection
<1>11. QED BY <1>1, <1>5, <1>6, <1>10

\* The records of a witness in their order.
Mine(h, w) == {k \in DOMAIN h : h[k].content.witness = w}
Earlier(h, w, k) ==
    {j \in Mine(h, w) : \/ h[j].content.sequence < h[k].content.sequence
                        \/ h[j].content.sequence = h[k].content.sequence /\ j < k}
Place(h, w) == [k \in Mine(h, w) |-> Cardinality(Earlier(h, w, k))]

\* Each of them is once in Own(), at its place.
LEMMA OwnRecords ==
    ASSUME NEW h, NEW n \in Nat, DOMAIN h = 1 .. n, NEW w,
           \A k \in Mine(h, w) : h[k].content.sequence \in Nat
    PROVE  /\ IsFiniteSet(Mine(h, w)) /\ Cardinality(Mine(h, w)) \in Nat
           /\ DOMAIN Own(h, w) = 1 .. Cardinality(Mine(h, w))
           /\ Len(Own(h, w)) = Cardinality(Mine(h, w))
           /\ \A k \in Mine(h, w) : /\ Place(h, w)[k] \in 0 .. Cardinality(Mine(h, w)) - 1
                                    /\ Own(h, w)[Place(h, w)[k] + 1] = h[k]
           /\ \A j, k \in Mine(h, w) : Place(h, w)[j] = Place(h, w)[k] => j = k
           /\ \A i \in DOMAIN Own(h, w) :
                 \E k \in Mine(h, w) : Place(h, w)[k] = i - 1 /\ Own(h, w)[i] = h[k]
<1>1. PICK D : D = Mine(h, w) /\ D \subseteq 1 .. n /\ \A k \in D : h[k].content.sequence \in Nat
  BY DEF Mine
<1>2. IsFiniteSet(D)
  <2>1. IsFiniteSet(1 .. n)
    BY FS_Interval
  <2>2. D \in SUBSET (1 .. n)
    BY <1>1
  <2>3. QED BY <2>1, <2>2, FS_Subset
<1> DEFINE less == {jk \in D \X D : \/ h[jk[1]].content.sequence < h[jk[2]].content.sequence
                                    \/ /\ h[jk[1]].content.sequence = h[jk[2]].content.sequence
                                       /\ jk[1] < jk[2]}
           under == [k \in D |-> Cardinality({j \in D : <<j, k>> \in less})]
<1>3. \A j, k \in D : <<j, k>> \in less <=>
         \/ h[j].content.sequence < h[k].content.sequence
         \/ h[j].content.sequence = h[k].content.sequence /\ j < k
  OBVIOUS
<1>4. under = Place(h, w)
  <2>1. \A k \in D : {j \in D : <<j, k>> \in less} = Earlier(h, w, k)
    <3> HIDE DEF less
    <3>1. QED BY <1>1, <1>3 DEF Earlier
  <2>2. QED BY <1>1, <2>1 DEF Place
<1> HIDE DEF less
<1>5. /\ \A j \in D : ~(<<j, j>> \in less)
      /\ \A j, k, l \in D : <<j, k>> \in less /\ <<k, l>> \in less => <<j, l>> \in less
      /\ \A j, k \in D : j # k => <<j, k>> \in less \/ <<k, j>> \in less
  <2>1. \A j \in D : j \in Nat /\ h[j].content.sequence \in Nat
    BY <1>1
  <2>2. \A j \in D : ~(<<j, j>> \in less)
    BY <1>3, <2>1
  <2>3. \A j, k, l \in D : <<j, k>> \in less /\ <<k, l>> \in less => <<j, l>> \in less
    <3> SUFFICES ASSUME NEW j \in D, NEW k \in D, NEW l \in D,
                        <<j, k>> \in less, <<k, l>> \in less
                 PROVE  <<j, l>> \in less
      OBVIOUS
    <3>1. PICK a \in Nat, b \in Nat, c \in Nat :
            /\ a = h[j].content.sequence /\ b = h[k].content.sequence /\ c = h[l].content.sequence
      BY <2>1
    <3>2. (a < b \/ (a = b /\ j < k)) /\ (b < c \/ (b = c /\ k < l))
      BY <1>3, <3>1
    <3>3. a < c \/ (a = c /\ j < l)
      BY <2>1, <3>2
    <3>4. QED BY <1>3, <3>1, <3>3
  <2>4. \A j, k \in D : j # k => <<j, k>> \in less \/ <<k, j>> \in less
    BY <1>3, <2>1
  <2>5. QED BY <2>2, <2>3, <2>4
<1>6. PICK lt : lt = less
  OBVIOUS
<1>7. PICK rank \in [D -> Nat] : rank = under /\ \A k \in D : rank[k] = Cardinality(Beneath(D, less, k))
  <2>1. \A k \in D : Cardinality(Beneath(D, less, k)) \in Nat
    <3> SUFFICES ASSUME NEW k \in D PROVE Cardinality(Beneath(D, less, k)) \in Nat
      OBVIOUS
    <3>1. PICK T : T = Beneath(D, less, k) /\ T \in SUBSET D
      BY DEF Beneath
    <3>2. IsFiniteSet(T)
      BY <1>2, <3>1, FS_Subset
    <3>3. QED BY <3>1, <3>2, FS_CardinalityType
  <2>2. under \in [D -> Nat] /\ \A k \in D : under[k] = Cardinality(Beneath(D, less, k))
    BY <2>1 DEF Beneath
  <2> HIDE DEF under
  <2>3. QED BY <2>2
<1>8. /\ Cardinality(D) \in Nat /\ rank \in [D -> 0 .. Cardinality(D) - 1]
      /\ \A j, k \in D : rank[j] = rank[k] => j = k
      /\ \A i \in 0 .. Cardinality(D) - 1 : \E k \in D : rank[k] = i
  <2>1. Orders(lt, D)
    BY <1>5, <1>6 DEF Orders
  <2>2. Ranks(rank, lt, D)
    BY <1>7, <1>6 DEF Ranks
  <2> HIDE DEF under
  <2>3. QED BY <1>2, <2>1, <2>2, Places
<1>9. rank = Place(h, w)
  BY <1>4, <1>7
<1> HIDE DEF under
<1>10. PICK m \in Nat : m = Cardinality(D)
  BY <1>8
<1>11. /\ DOMAIN Own(h, w) = 1 .. m
       /\ \A i \in 1 .. m : Own(h, w)[i] = h[CHOOSE k \in D : rank[k] = i - 1]
       /\ Len(Own(h, w)) = m
  <2>1. D = {k \in DOMAIN h : h[k].content.witness = w}
    BY <1>1 DEF Mine
  <2>2. Own(h, w) = [i \in 1 .. Cardinality(D) |->
                        h[CHOOSE k \in D : Cardinality(Earlier(h, w, k)) = i - 1]]
    BY <1>1 DEF Own, Earlier, Mine
  <2>3. \A i \in 1 .. m : (CHOOSE k \in D : Cardinality(Earlier(h, w, k)) = i - 1)
                              = (CHOOSE k \in D : rank[k] = i - 1)
    BY <1>1, <1>9 DEF Place
  <2>4. Len(Own(h, w)) = m
    <3>1. Own(h, w) = [i \in 1 .. m |-> h[CHOOSE k \in D : Cardinality(Earlier(h, w, k)) = i - 1]]
      BY <1>10, <2>2
    <3>2. QED BY <3>1
  <2>5. QED BY <1>10, <2>2, <2>3, <2>4
<1>12. ASSUME NEW k \in D
       PROVE  rank[k] + 1 \in 1 .. m /\ Own(h, w)[rank[k] + 1] = h[k]
  <2>1. rank[k] \in 0 .. m - 1
    BY <1>8, <1>10
  <2>2. rank[k] + 1 \in 1 .. m /\ (rank[k] + 1) - 1 = rank[k]
    BY <2>1
  <2>3. \A j \in D : rank[j] = (rank[k] + 1) - 1 <=> j = k
    BY <1>8, <2>2
  <2>4. (CHOOSE j \in D : rank[j] = (rank[k] + 1) - 1) = k
    BY <2>3
  <2>5. QED BY <1>11, <2>2, <2>4
<1>13. ASSUME NEW i \in 1 .. m PROVE \E k \in D : rank[k] = i - 1 /\ Own(h, w)[i] = h[k]
  <2>1. i - 1 \in 0 .. m - 1 /\ (i - 1) + 1 = i
    OBVIOUS
  <2>2. PICK k \in D : rank[k] = i - 1
    BY <1>8, <1>10, <2>1
  <2>3. QED BY <1>12, <2>1, <2>2
<1>14. QED BY <1>1, <1>2, <1>8, <1>9, <1>10, <1>11, <1>12, <1>13

-------------------------------------------------------------------------------
\* What runs sign and publish, and what can be filed of it.
SignedIn(r, content) ==
    [content |-> content,
     env |-> [i \in DOMAIN InOrder |-> [alg |-> InOrder[i], over |-> content, by |-> r]]]

\* An unsigned observation of a witness.
IsObservation(o) ==
    /\ o = [witness |-> o.witness, genesis |-> o.genesis, sequence |-> o.sequence,
            claim |-> o.claim, previous |-> o.previous]
    /\ o.witness \in Witness /\ o.sequence \in Nat

IsChain(r, g, w, s) ==
    /\ \E T : s \in Seq(T)
    /\ \A i \in 1 .. Len(s) :
          /\ s[i] = SignedIn(r, s[i].content) /\ IsObservation(s[i].content)
          /\ s[i].content.witness = w /\ s[i].content.genesis = g
          /\ s[i].content.sequence = i - 1
          /\ s[i].content.previous = IF i = 1 THEN << >> ELSE <<s[i - 1].content>>

CheckpointOf(g, records, f) ==
    [genesis |-> g, records |-> records, root |-> MerkleRoot(records), f |-> f,
     answer |-> Answer(records, f)]

\* A bundle holds the records of the chains of one run, each once.
ByRun(p, r, ch) ==
    /\ \A w \in Witness : IsChain(r, p.genesis, w, ch[w]) /\ ch[w] # << >>
    /\ \E T : p.history \in Seq(T)
    /\ ToSet(p.history) = UNION {ToSet(ch[w]) : w \in Witness}
    /\ Len(p.history) = Cardinality(ToSet(p.history))
    /\ p.checkpoint = SignedIn(r, CheckpointOf(p.genesis, {Last(ch[w]) : w \in Witness}, F))
    /\ p = [genesis |-> p.genesis, history |-> p.history, checkpoint |-> p.checkpoint, block |-> << >>]

PublishedInv ==
    /\ chains = [w \in Witness |-> chains[w]]
    /\ \A w \in Witness : IsChain(run, genesis, w, chains[w])
    /\ \A p \in published : \E r, ch : ByRun(p, r, ch)
    /\ published # {} => Cardinality(Witness) >= 3 * F + 1
    /\ run \in Nat /\ (bundle # << >> => run > MaxRuns)

\* A record on file is an observation under some envelopes, whoever signed it.
Filed(s) ==
    /\ s = [content |-> s.content, env |-> s.env]
    /\ IsObservation(s.content) /\ \E E : s.env \in Seq(E)

History(h) == \E T : h \in Seq(T) /\ \A s \in T : Filed(s)

IsBundle(b) ==
    /\ b = [genesis |-> b.genesis, history |-> b.history, checkpoint |-> b.checkpoint, block |-> b.block]
    /\ History(b.history)
    /\ b.checkpoint = [content |-> b.checkpoint.content, env |-> b.checkpoint.env]
    /\ DOMAIN b.checkpoint.env \subseteq Nat

Contents == {s.content : s \in AllSigned}

SignedInv == PublishedInv /\ (bundle # << >> => IsBundle(b0))

\* A signature is over what it was made of.
LEMMA SignedIs ==
    ASSUME NEW r, NEW content
    PROVE  /\ SignedIn(r, content).content = content
           /\ DOMAIN SignedIn(r, content).env = {1, 2}
           /\ SignedIn(r, content).env[1].alg = "ML-DSA-87"
           /\ SignedIn(r, content).env[2].alg = "SLH-DSA-SHAKE-256s"
           /\ \A i \in {1, 2} : SignedIn(r, content).env[i].over = content
           /\ IsObservation(content) => Filed(SignedIn(r, content))
<1> DEFINE e == [i \in DOMAIN InOrder |-> [alg |-> InOrder[i], over |-> content, by |-> r]]
           E == {e[1], e[2]}
<1>1. DOMAIN InOrder = {1, 2} /\ InOrder[1] = "ML-DSA-87" /\ InOrder[2] = "SLH-DSA-SHAKE-256s"
  BY DEF InOrder
<1>2. DOMAIN e = {1, 2} /\ e[1].alg = "ML-DSA-87" /\ e[2].alg = "SLH-DSA-SHAKE-256s"
      /\ \A i \in {1, 2} : e[i].over = content
  BY <1>1
<1>3. e \in Seq(E)
  <2>1. e \in [1 .. 2 -> E]
    <3>1. 1 .. 2 = {1, 2}
      OBVIOUS
    <3>2. e = [i \in {1, 2} |-> e[i]]
      BY <1>1
    <3>3. e \in [{1, 2} -> E]
      <4> HIDE DEF e
      <4>1. QED BY <3>2
    <3>4. QED BY <3>1, <3>3
  <2>2. \A n \in Nat : \A T, f : f \in [1 .. n -> T] => f \in Seq(T)
    OBVIOUS
  <2> HIDE DEF e, E
  <2>3. QED BY <2>1, <2>2, Zenon
<1>4. SignedIn(r, content) = [content |-> content, env |-> e]
  BY DEF SignedIn
<1>5. ASSUME IsObservation(content) PROVE Filed(SignedIn(r, content))
  <2> HIDE DEF e, E
  <2>1. QED BY <1>3, <1>4, <1>5 DEF Filed
<1> HIDE DEF e
<1>6. QED BY <1>2, <1>4, <1>5

\* Every signed record names one of the witnesses, and its place.
LEMMA RecordIs ==
    ASSUME PublishedInv, NEW s \in AllSigned
    PROVE  /\ s.content \in Contents /\ s.content.witness \in Witness /\ s.content.sequence \in Nat
           /\ Filed(s)
           /\ s.content.previous # << >> => s.content.previous[1] \in Contents
<1>1. PICK p \in published : s \in ToSet(p.history)
  BY DEF AllSigned
<1>2. PICK r, ch : ByRun(p, r, ch)
  BY <1>1 DEF PublishedInv
<1>3. PICK w \in Witness : s \in ToSet(ch[w])
  BY <1>1, <1>2 DEF ByRun
<1>4. PICK i \in DOMAIN ch[w] : s = ch[w][i]
  BY <1>3 DEF ToSet
<1>5. IsChain(r, p.genesis, w, ch[w])
  BY <1>2 DEF ByRun
<1>6. i \in 1 .. Len(ch[w]) /\ i \in Nat /\ i - 1 \in Nat
  <2>1. DOMAIN ch[w] = 1 .. Len(ch[w]) /\ Len(ch[w]) \in Nat
    BY <1>5 DEF IsChain
  <2>2. QED BY <2>1
<1>7. /\ s = SignedIn(r, s.content) /\ IsObservation(s.content)
      /\ s.content.witness = w /\ s.content.sequence = i - 1
      /\ s.content.previous = IF i = 1 THEN << >> ELSE <<ch[w][i - 1].content>>
  BY <1>4, <1>5, <1>6 DEF IsChain
<1>8. s.content \in Contents
  BY DEF Contents
<1>9. Filed(s)
  BY <1>7, SignedIs
<1>10. ASSUME s.content.previous # << >> PROVE s.content.previous[1] \in Contents
  <2>1. i # 1 /\ s.content.previous[1] = ch[w][i - 1].content
    BY <1>7, <1>10
  <2>2. i - 1 \in DOMAIN ch[w]
    <3>1. DOMAIN ch[w] = 1 .. Len(ch[w]) /\ Len(ch[w]) \in Nat
      BY <1>5 DEF IsChain
    <3>2. QED BY <1>6, <2>1, <3>1
  <2>3. ch[w][i - 1] \in ToSet(p.history)
    <3>1. ToSet(p.history) = UNION {ToSet(ch[v]) : v \in Witness}
      BY <1>2 DEF ByRun
    <3>2. ch[w][i - 1] \in ToSet(ch[w])
      BY <2>2 DEF ToSet
    <3>3. QED BY <3>1, <3>2
  <2>4. ch[w][i - 1] \in AllSigned
    BY <1>1, <2>3 DEF AllSigned
  <2>5. QED BY <2>1, <2>4 DEF Contents
<1>11. QED BY <1>6, <1>7, <1>8, <1>9, <1>10

\* A set in order.
LEMMA SetToSeqIs ==
    ASSUME NEW T, IsFiniteSet(T)
    PROVE  SetToSeq(T) \in Seq(T) /\ ToSet(SetToSeq(T)) = T /\ Len(SetToSeq(T)) = Cardinality(T)
<1>1. PICK n \in Nat : \E f : f \in Bijection(1..n, T)
  BY FS_NatBijection DEF ExistsBijection
<1>2. n = Cardinality(T)
  BY <1>1, FS_CountingElements DEF ExistsBijection
<1>3. PICK f : f \in Bijection(1..n, T)
  BY <1>1
<1>4. f \in [1..n -> T] /\ IsInjective(f)
  BY <1>3 DEF Bijection, Injection, IsInjective
<1>5. SetToSeq(T) \in [1..n -> T] /\ IsInjective(SetToSeq(T))
  BY <1>2, <1>4 DEF SetToSeq
<1>6. PICK s : s = SetToSeq(T)
  OBVIOUS
<1>7. s \in Seq(T) /\ Len(s) = n /\ DOMAIN s = 1 .. n
  BY <1>5, <1>6
<1>8. s \in Injection(1 .. n, T)
  BY <1>5, <1>6 DEF Injection
<1>9. IsFiniteSet(1 .. n) /\ Cardinality(1 .. n) = n
  <2>1. 1 \in Int /\ n \in Int /\ (IF 1 > n THEN 0 ELSE n - 1 + 1) = n
    OBVIOUS
  <2>2. QED BY <2>1, FS_Interval, Zenon
<1>10. s \in Surjection(1 .. n, T)
  BY <1>2, <1>8, <1>9, FS_Injection
<1>11. ToSet(s) = T
  BY <1>7, <1>10 DEF ToSet, Surjection
<1>12. QED BY <1>2, <1>6, <1>7, <1>11

\* A sequence that is as long as it has elements has each once.
LEMMA SeqFinite ==
    ASSUME NEW T, NEW s \in Seq(T)
    PROVE  /\ IsFiniteSet(ToSet(s)) /\ Cardinality(ToSet(s)) \in Nat /\ Cardinality(ToSet(s)) <= Len(s)
           /\ Cardinality(ToSet(s)) = Len(s) => \A i, j \in DOMAIN s : s[i] = s[j] => i = j
<1>1. PICK n \in Nat : n = Len(s) /\ DOMAIN s = 1 .. n
  OBVIOUS
<1>2. s \in Surjection(1 .. n, ToSet(s))
  <2>1. s \in [1 .. n -> ToSet(s)]
    BY <1>1 DEF ToSet
  <2>2. QED BY <1>1, <2>1 DEF Surjection, ToSet
<1>3. IsFiniteSet(1 .. n) /\ Cardinality(1 .. n) = n
  <2>1. 1 \in Int /\ n \in Int /\ (IF 1 > n THEN 0 ELSE n - 1 + 1) = n
    OBVIOUS
  <2>2. QED BY <2>1, FS_Interval, Zenon
<1>4. /\ IsFiniteSet(ToSet(s)) /\ Cardinality(ToSet(s)) <= n
      /\ Cardinality(ToSet(s)) = n => s \in Injection(1 .. n, ToSet(s))
  BY <1>2, <1>3, FS_Surjection
<1>5. s \in Injection(1 .. n, ToSet(s)) => \A i, j \in DOMAIN s : s[i] = s[j] => i = j
  BY <1>1 DEF Injection, IsInjective
<1>6. QED BY <1>1, <1>4, <1>5, FS_CardinalityType

LEMMA SignedInit == Init => SignedInv
<1> SUFFICES ASSUME Init PROVE SignedInv
  OBVIOUS
<1>1. chains = [w \in Witness |-> << >>] /\ published = {} /\ bundle = << >> /\ run = 1
  BY DEF Init
<1>2. \A w \in Witness : chains[w] = << >>
  BY <1>1
<1>3. << >> \in Seq({}) /\ Len(<< >>) = 0
  OBVIOUS
<1>4. \A w \in Witness : IsChain(run, genesis, w, << >>)
  BY <1>3 DEF IsChain
<1>5. QED BY <1>1, <1>2, <1>4 DEF SignedInv, PublishedInv

\* A record more is the chain of a record more.
LEMMA ChainGrows ==
    ASSUME NEW r, NEW g, NEW w, NEW s, IsChain(r, g, w, s), NEW o, IsObservation(o),
           o.witness = w, o.genesis = g, o.sequence = Len(s),
           o.previous = IF s = << >> THEN << >> ELSE <<Last(s).content>>
    PROVE  IsChain(r, g, w, Append(s, SignedIn(r, o)))
<1>1. PICK T : s \in Seq(T)
  BY DEF IsChain
<1>2. PICK x : x = SignedIn(r, o)
  OBVIOUS
<1>3. x.content = o /\ x = SignedIn(r, x.content)
  BY <1>2, SignedIs
<1>4. PICK T2 : T2 = T \cup {x}
  OBVIOUS
<1>5. s \in Seq(T2) /\ x \in T2
  BY <1>1, <1>4
<1>6. PICK n \in Nat : n = Len(s)
  BY <1>1
<1>7. PICK t : t = Append(s, x)
  OBVIOUS
<1>8. /\ t \in Seq(T2) /\ Len(t) = n + 1 /\ t[n + 1] = x /\ \A i \in 1 .. n : t[i] = s[i]
  BY <1>5, <1>6, <1>7
<1>9. ASSUME NEW i \in 1 .. n
      PROVE  /\ t[i] = SignedIn(r, t[i].content) /\ IsObservation(t[i].content)
             /\ t[i].content.witness = w /\ t[i].content.genesis = g
             /\ t[i].content.sequence = i - 1
             /\ t[i].content.previous = IF i = 1 THEN << >> ELSE <<t[i - 1].content>>
  <2>1. t[i] = s[i] /\ (i # 1 => t[i - 1] = s[i - 1])
    <3>1. i # 1 => i - 1 \in 1 .. n
      OBVIOUS
    <3>2. QED BY <1>8, <3>1
  <2>2. /\ s[i] = SignedIn(r, s[i].content) /\ IsObservation(s[i].content)
        /\ s[i].content.witness = w /\ s[i].content.genesis = g
        /\ s[i].content.sequence = i - 1
        /\ s[i].content.previous = IF i = 1 THEN << >> ELSE <<s[i - 1].content>>
    BY <1>6 DEF IsChain
  <2>3. QED BY <2>1, <2>2
<1>10. /\ t[n + 1] = SignedIn(r, t[n + 1].content) /\ IsObservation(t[n + 1].content)
       /\ t[n + 1].content.witness = w /\ t[n + 1].content.genesis = g
       /\ t[n + 1].content.sequence = n + 1 - 1
       /\ t[n + 1].content.previous = IF n + 1 = 1 THEN << >> ELSE <<t[n].content>>
  <2>1. n + 1 - 1 = n /\ (n + 1 = 1 <=> s = << >>)
    BY <1>1, <1>6
  <2>2. s # << >> => Last(s) = t[n]
    <3>1. s # << >> => n \in 1 .. n
      BY <2>1
    <3>2. QED BY <1>6, <1>8, <3>1 DEF Last
  <2>3. QED BY <1>3, <1>6, <1>8, <2>1, <2>2
<1>11. \A i \in 1 .. n + 1 : i \in 1 .. n \/ i = n + 1
  OBVIOUS
<1>12. \A i \in 1 .. Len(t) :
          /\ t[i] = SignedIn(r, t[i].content) /\ IsObservation(t[i].content)
          /\ t[i].content.witness = w /\ t[i].content.genesis = g
          /\ t[i].content.sequence = i - 1
          /\ t[i].content.previous = IF i = 1 THEN << >> ELSE <<t[i - 1].content>>
  <2> SUFFICES ASSUME NEW i \in 1 .. n + 1
               PROVE  /\ t[i] = SignedIn(r, t[i].content) /\ IsObservation(t[i].content)
                      /\ t[i].content.witness = w /\ t[i].content.genesis = g
                      /\ t[i].content.sequence = i - 1
                      /\ t[i].content.previous = IF i = 1 THEN << >> ELSE <<t[i - 1].content>>
    BY <1>8
  <2>1. CASE i \in 1 .. n
    BY <1>9, <2>1
  <2>2. CASE i = n + 1
    <3>1. i - 1 = n
      BY <2>2
    <3>2. QED BY <1>10, <2>2, <3>1
  <2>3. QED BY <1>11, <2>1, <2>2
<1>13. QED BY <1>2, <1>7, <1>8, <1>12 DEF IsChain

\* Nothing is published by the steps that read and change bundles.
LEMMA SamePublished ==
    ASSUME PublishedInv, UNCHANGED <<run, genesis, chains, published>>,
           bundle' # << >> => run > MaxRuns
    PROVE  PublishedInv'
<1>1. chains' = [w \in Witness |-> chains'[w]]
  BY DEF PublishedInv
<1>2. \A w \in Witness : IsChain(run', genesis', w, chains'[w])
  BY DEF PublishedInv
<1>3. \A p \in published' : \E r, ch : ByRun(p, r, ch)
  BY DEF PublishedInv
<1>4. /\ published' # {} => Cardinality(Witness) >= 3 * F + 1
      /\ run' \in Nat /\ (bundle' # << >> => run' > MaxRuns)
  BY DEF PublishedInv
<1>5. QED BY <1>1, <1>2, <1>3, <1>4 DEF PublishedInv

\* A change that leaves a bundle leaves the invariant.
LEMMA EditKeeps ==
    ASSUME SignedInv, NEW b, IsBundle(b), Edit(b)
    PROVE  SignedInv'
<1>1. bundle # << >> /\ bundle' = <<b>> /\ UNCHANGED <<run, genesis, chains, published>>
  BY DEF Edit
<1>2. run > MaxRuns
  BY <1>1 DEF SignedInv, PublishedInv
<1>3. PublishedInv'
  BY <1>1, <1>2, SamePublished DEF SignedInv
<1>4. b0' = b
  BY <1>1 DEF b0
<1>5. QED BY <1>3, <1>4 DEF SignedInv

LEMMA ObserveKeeps ==
    ASSUME SignedInv, NEW w \in Witness, NEW claim \in Claims[w], Observe(w, claim)
    PROVE  SignedInv'
<1> DEFINE o == [witness |-> w, genesis |-> genesis, sequence |-> Len(chains[w]), claim |-> claim,
                 previous |-> IF chains[w] = << >> THEN << >> ELSE <<Last(chains[w]).content>>]
<1>1. /\ run <= MaxRuns
      /\ chains' = [chains EXCEPT ![w] = Append(chains[w], Signed(o))]
      /\ UNCHANGED <<run, genesis, published, bundle, edits>>
  BY DEF Observe
<1>2. Signed(o) = SignedIn(run, o)
  BY DEF Signed, SignedIn
<1>3. chains = [v \in Witness |-> chains[v]] /\ \A v \in Witness : IsChain(run, genesis, v, chains[v])
  BY DEF SignedInv, PublishedInv
<1>4. IsChain(run, genesis, w, Append(chains[w], SignedIn(run, o)))
  <2>1. /\ o.witness = w /\ o.genesis = genesis /\ o.sequence = Len(chains[w])
        /\ o.previous = IF chains[w] = << >> THEN << >> ELSE <<Last(chains[w]).content>>
    OBVIOUS
  <2>2. IsChain(run, genesis, w, chains[w])
    BY <1>3
  <2>3. Len(chains[w]) \in Nat
    BY <2>2 DEF IsChain
  <2>4. IsObservation(o)
    BY <2>3 DEF IsObservation
  <2> HIDE DEF o
  <2>5. QED BY <2>1, <2>2, <2>4, ChainGrows
<1> HIDE DEF o
<1>5. \A v \in Witness : chains'[v] = IF v = w THEN Append(chains[w], SignedIn(run, o)) ELSE chains[v]
  BY <1>1, <1>2, <1>3
<1>6. chains' = [v \in Witness |-> chains'[v]]
  BY <1>1, <1>3
<1>7. \A v \in Witness : IsChain(run', genesis', v, chains'[v])
  BY <1>1, <1>3, <1>4, <1>5
<1>8. bundle = << >>
  <2>1. MaxRuns \in Nat /\ run \in Nat
    BY RecordsAssumption DEF SignedInv, PublishedInv
  <2>2. QED BY <1>1, <2>1 DEF SignedInv, PublishedInv
<1>9. PublishedInv'
  <2>1. \A p \in published' : \E r, ch : ByRun(p, r, ch)
    BY <1>1 DEF SignedInv, PublishedInv
  <2>2. (published' # {} => Cardinality(Witness) >= 3 * F + 1) /\ run' \in Nat /\ bundle' = << >>
    BY <1>1, <1>8 DEF SignedInv, PublishedInv
  <2>3. QED BY <1>6, <1>7, <2>1, <2>2 DEF PublishedInv
<1>10. QED BY <1>1, <1>8, <1>9 DEF SignedInv

LEMMA PublishKeeps ==
    ASSUME SignedInv, Publish
    PROVE  SignedInv'
<1> DEFINE all == UNION {ToSet(chains[w]) : w \in Witness}
           cp == CheckpointOf(genesis, {Last(chains[w]) : w \in Witness}, F)
           b == [genesis |-> genesis, history |-> SetToSeq(all),
                 checkpoint |-> SignedIn(run, cp), block |-> << >>]
<1>1. /\ run <= MaxRuns /\ \A w \in Witness : chains[w] # << >>
      /\ Cardinality(Witness) >= 3 * F + 1
      /\ run' = run + 1 /\ chains' = [w \in Witness |-> << >>] /\ UNCHANGED <<bundle, edits>>
  BY DEF Publish
<1>2. published' = published \cup {b}
  BY DEF Publish, Signed, SignedIn, Checkpoint, CheckpointOf
<1>3. bundle = << >> /\ run' \in Nat
  <2>1. MaxRuns \in Nat /\ run \in Nat
    BY RecordsAssumption DEF SignedInv, PublishedInv
  <2>2. QED BY <1>1, <2>1 DEF SignedInv, PublishedInv
<1>4. \A w \in Witness : IsChain(run, genesis, w, chains[w])
  BY DEF SignedInv, PublishedInv
<1>5. IsFiniteSet(all)
  <2>1. \A w \in Witness : IsFiniteSet(ToSet(chains[w]))
    <3> SUFFICES ASSUME NEW w \in Witness PROVE IsFiniteSet(ToSet(chains[w]))
      OBVIOUS
    <3>1. PICK T : chains[w] \in Seq(T)
      BY <1>4 DEF IsChain
    <3>2. PICK c : c = chains[w]
      OBVIOUS
    <3>3. c \in Seq(T)
      BY <3>1, <3>2
    <3>4. IsFiniteSet(ToSet(c))
      BY <3>3, SeqFinite, Zenon
    <3>5. QED BY <3>2, <3>4
  <2>2. PICK S : S = {ToSet(chains[w]) : w \in Witness}
    OBVIOUS
  <2>3. IsFiniteSet(S)
    <3>1. PICK f : f = [w \in Witness |-> ToSet(chains[w])]
      OBVIOUS
    <3>2. f \in Surjection(Witness, S)
      BY <2>2, <3>1 DEF Surjection
    <3>3. IsFiniteSet(Witness)
      BY RecordsAssumption
    <3>4. QED BY <3>2, <3>3, FS_Surjection
  <2>4. \A T \in S : IsFiniteSet(T)
    BY <2>1, <2>2
  <2>5. IsFiniteSet(UNION S)
    BY <2>3, <2>4, FS_UNION
  <2>6. QED BY <2>2, <2>5
<1>6. PICK h : h = SetToSeq(all) /\ h \in Seq(all) /\ ToSet(h) = all /\ Len(h) = Cardinality(all)
  <2> HIDE DEF all
  <2>1. QED BY <1>5, SetToSeqIs
<1>7. ByRun(b, run, chains)
  <2>1. /\ b.genesis = genesis /\ b.history = h /\ b.checkpoint = SignedIn(run, cp)
        /\ b = [genesis |-> b.genesis, history |-> b.history, checkpoint |-> b.checkpoint, block |-> << >>]
    <3> HIDE DEF all, cp
    <3>1. QED BY <1>6
  <2>2. \A w \in Witness : IsChain(run, b.genesis, w, chains[w]) /\ chains[w] # << >>
    BY <1>1, <1>4, <2>1
  <2>3. b.history \in Seq(all) /\ ToSet(b.history) = all /\ Len(b.history) = Cardinality(ToSet(b.history))
    <3> HIDE DEF all, b
    <3>1. QED BY <1>6, <2>1
  <2>4. b.checkpoint = SignedIn(run, CheckpointOf(b.genesis, {Last(chains[w]) : w \in Witness}, F))
    BY <2>1
  <2> HIDE DEF b
  <2>5. QED BY <2>1, <2>2, <2>3, <2>4 DEF ByRun
<1> HIDE DEF b
<1>8. \A p \in published' : \E r, ch : ByRun(p, r, ch)
  BY <1>2, <1>7 DEF SignedInv, PublishedInv
<1>9. \A w \in Witness : IsChain(run', genesis', w, chains'[w])
  <2>1. << >> \in Seq({}) /\ Len(<< >>) = 0
    OBVIOUS
  <2>2. \A r, g, w : IsChain(r, g, w, << >>)
    BY <2>1 DEF IsChain
  <2>3. \A w \in Witness : chains'[w] = << >>
    BY <1>1
  <2>4. QED BY <2>2, <2>3
<1>10. chains' = [w \in Witness |-> chains'[w]]
  BY <1>1
<1>11. bundle' = << >>
  BY <1>1, <1>3
<1>12. PublishedInv'
  BY <1>1, <1>3, <1>8, <1>9, <1>10, <1>11 DEF PublishedInv
<1>13. QED BY <1>11, <1>12 DEF SignedInv

\* What a bundle is made of keeps its form.
LEMMA PublishedIsBundle ==
    ASSUME PublishedInv, NEW p \in published
    PROVE  /\ History(p.history) /\ p.genesis = p.genesis
           /\ p = [genesis |-> p.genesis, history |-> p.history, checkpoint |-> p.checkpoint,
                   block |-> p.block]
           /\ p.checkpoint = [content |-> p.checkpoint.content, env |-> p.checkpoint.env]
           /\ DOMAIN p.checkpoint.env \subseteq Nat
<1>1. PICK r, ch : ByRun(p, r, ch)
  BY DEF PublishedInv
<1>2. p = [genesis |-> p.genesis, history |-> p.history, checkpoint |-> p.checkpoint, block |-> << >>]
  BY <1>1 DEF ByRun
<1>3. PICK c : p.checkpoint = SignedIn(r, c)
  BY <1>1 DEF ByRun
<1>4. /\ p.checkpoint = [content |-> p.checkpoint.content, env |-> p.checkpoint.env]
      /\ DOMAIN p.checkpoint.env \subseteq Nat
  <2>1. DOMAIN p.checkpoint.env = {1, 2}
    BY <1>3, SignedIs
  <2>2. QED BY <1>3, <2>1 DEF SignedIn
<1>5. PICK T : p.history \in Seq(T)
  BY <1>1 DEF ByRun
<1>6. p.history \in Seq(ToSet(p.history))
  <2>1. \A n \in Nat : \A S, f : f \in [1 .. n -> S] => f \in Seq(S)
    OBVIOUS
  <2>2. Len(p.history) \in Nat /\ p.history \in [1 .. Len(p.history) -> ToSet(p.history)]
    BY <1>5 DEF ToSet
  <2>3. QED BY <2>1, <2>2, Zenon
<1>7. \A s \in ToSet(p.history) : Filed(s)
  <2>1. \A s \in ToSet(p.history) : s \in AllSigned
    BY DEF AllSigned
  <2>2. QED BY <2>1, RecordIs
<1>8. History(p.history)
  BY <1>6, <1>7 DEF History
<1>9. p.block = << >>
  BY <1>2
<1>10. QED BY <1>2, <1>4, <1>8, <1>9

LEMMA HandOnKeeps ==
    ASSUME SignedInv, HandOn
    PROVE  SignedInv'
<1>1. PICK p \in published, other \in published :
        /\ run > MaxRuns /\ bundle' = <<[p EXCEPT !.checkpoint = other.checkpoint]>>
        /\ UNCHANGED <<run, genesis, chains, published, edits>>
  BY DEF HandOn
<1>2. PICK b : b = [p EXCEPT !.checkpoint = other.checkpoint]
  OBVIOUS
<1>3. PublishedInv'
  BY <1>1, SamePublished DEF SignedInv
<1>4. /\ History(p.history)
      /\ p = [genesis |-> p.genesis, history |-> p.history, checkpoint |-> p.checkpoint,
              block |-> p.block]
  BY PublishedIsBundle DEF SignedInv
<1>5. /\ other.checkpoint = [content |-> other.checkpoint.content, env |-> other.checkpoint.env]
      /\ DOMAIN other.checkpoint.env \subseteq Nat
  BY PublishedIsBundle DEF SignedInv
<1>6. /\ b.genesis = p.genesis /\ b.history = p.history /\ b.checkpoint = other.checkpoint
      /\ b.block = p.block
      /\ b = [genesis |-> b.genesis, history |-> b.history, checkpoint |-> b.checkpoint,
              block |-> b.block]
  BY <1>2, <1>4
<1>7. IsBundle(b)
  BY <1>4, <1>5, <1>6 DEF IsBundle
<1>8. bundle' = <<b>> /\ b0' = b
  BY <1>1, <1>2 DEF b0
<1>9. QED BY <1>3, <1>7, <1>8 DEF SignedInv

\* A bundle with another history of the kind is a bundle.
LEMMA WithHistory ==
    ASSUME NEW b, IsBundle(b), NEW h, History(h)
    PROVE  IsBundle([b EXCEPT !.history = h])
<1>1. PICK b2 : b2 = [b EXCEPT !.history = h]
  OBVIOUS
<1>2. b = [genesis |-> b.genesis, history |-> b.history, checkpoint |-> b.checkpoint, block |-> b.block]
  BY DEF IsBundle
<1>3. /\ b2.genesis = b.genesis /\ b2.history = h /\ b2.checkpoint = b.checkpoint
      /\ b2.block = b.block
      /\ b2 = [genesis |-> b2.genesis, history |-> b2.history, checkpoint |-> b2.checkpoint,
               block |-> b2.block]
  BY <1>1, <1>2
<1>4. QED BY <1>1, <1>3 DEF IsBundle

\* So is one with another checkpoint.
LEMMA WithCheckpoint ==
    ASSUME NEW b, IsBundle(b), NEW cp,
           cp = [content |-> cp.content, env |-> cp.env], DOMAIN cp.env \subseteq Nat
    PROVE  IsBundle([b EXCEPT !.checkpoint = cp])
<1>1. PICK b2 : b2 = [b EXCEPT !.checkpoint = cp]
  OBVIOUS
<1>2. b = [genesis |-> b.genesis, history |-> b.history, checkpoint |-> b.checkpoint, block |-> b.block]
  BY DEF IsBundle
<1>3. /\ b2.history = b.history /\ b2.checkpoint = cp
      /\ b2 = [genesis |-> b2.genesis, history |-> b2.history, checkpoint |-> b2.checkpoint,
               block |-> b2.block]
  BY <1>1, <1>2
<1>4. QED BY <1>1, <1>3 DEF IsBundle

\* An observation with another claim is the same witness's, at the same place.
LEMMA OtherClaim ==
    ASSUME NEW o, IsObservation(o), NEW c
    PROVE  IsObservation([o EXCEPT !.claim = c])
<1>1. PICK o2 : o2 = [o EXCEPT !.claim = c]
  OBVIOUS
<1>2. o = [witness |-> o.witness, genesis |-> o.genesis, sequence |-> o.sequence,
           claim |-> o.claim, previous |-> o.previous]
  BY DEF IsObservation
<1>3. /\ o2.witness = o.witness /\ o2.sequence = o.sequence
      /\ o2 = [witness |-> o2.witness, genesis |-> o2.genesis, sequence |-> o2.sequence,
               claim |-> o2.claim, previous |-> o2.previous]
  BY <1>1, <1>2
<1>4. QED BY <1>1, <1>3 DEF IsObservation

\* A record removed, added, replaced, or in the place of its neighbour.
LEMMA HistoryKeeps ==
    ASSUME NEW h, History(h)
    PROVE  /\ DOMAIN h \subseteq Nat
           /\ \A i \in DOMAIN h : Filed(h[i])
           /\ \A i \in DOMAIN h : History(RemoveAt(h, i))
           /\ \A r : Filed(r) => History(Append(h, r))
           /\ \A i \in DOMAIN h : \A r : Filed(r) => History([h EXCEPT ![i] = r])
           /\ \A i \in 1 .. Len(h) - 1 : History([h EXCEPT ![i] = h[i + 1], ![i + 1] = h[i]])
<1>1. PICK T : h \in Seq(T) /\ \A s \in T : Filed(s)
  BY DEF History
<1>2. PICK n \in Nat : n = Len(h) /\ DOMAIN h = 1 .. n
  BY <1>1
<1>3. \A i \in DOMAIN h : Filed(h[i]) /\ h[i] \in T /\ i \in Nat
  BY <1>1, <1>2
<1>4. ASSUME NEW i \in 1 .. n PROVE History(RemoveAt(h, i))
  <2>1. \A U : \A s \in Seq(U) : \A m \in 1 .. Len(s) + 1, k \in 0 .. Len(s) : SubSeq(s, m, k) \in Seq(U)
    OBVIOUS
  <2>2. i - 1 \in 0 .. n /\ i + 1 \in 1 .. n + 1 /\ 1 \in 1 .. n + 1 /\ n \in 0 .. n
    OBVIOUS
  <2>3. SubSeq(h, 1, i - 1) \in Seq(T) /\ SubSeq(h, i + 1, n) \in Seq(T)
    BY <1>1, <1>2, <2>1, <2>2, Zenon
  <2>4. \A U : \A s, t \in Seq(U) : s \o t \in Seq(U)
    OBVIOUS
  <2>5. SubSeq(h, 1, i - 1) \o SubSeq(h, i + 1, n) \in Seq(T)
    BY <2>3, <2>4, Zenon
  <2>6. RemoveAt(h, i) \in Seq(T)
    BY <1>2, <2>5 DEF RemoveAt
  <2>7. QED BY <1>1, <2>6 DEF History
<1>5. ASSUME NEW r, Filed(r) PROVE History(Append(h, r))
  <2>1. PICK U : U = T \cup {r}
    OBVIOUS
  <2>2. h \in Seq(U) /\ r \in U
    BY <1>1, <2>1
  <2>3. Append(h, r) \in Seq(U)
    BY <2>2
  <2>4. \A s \in U : Filed(s)
    BY <1>1, <1>5, <2>1
  <2>5. QED BY <2>3, <2>4 DEF History
<1>6. \A m \in Nat : \A S, f : f \in [1 .. m -> S] => f \in Seq(S)
  OBVIOUS
<1>7. ASSUME NEW i \in 1 .. n, NEW r, Filed(r) PROVE History([h EXCEPT ![i] = r])
  <2>1. PICK U : U = T \cup {r}
    OBVIOUS
  <2>2. [h EXCEPT ![i] = r] \in [1 .. n -> U]
    BY <1>1, <1>2, <2>1
  <2>3. [h EXCEPT ![i] = r] \in Seq(U)
    BY <1>6, <2>2, Zenon
  <2>4. \A s \in U : Filed(s)
    BY <1>1, <1>7, <2>1
  <2>5. QED BY <2>3, <2>4 DEF History
<1>8. ASSUME NEW i \in 1 .. n - 1 PROVE History([h EXCEPT ![i] = h[i + 1], ![i + 1] = h[i]])
  <2>1. i \in 1 .. n /\ i + 1 \in 1 .. n
    OBVIOUS
  <2>2. [h EXCEPT ![i] = h[i + 1], ![i + 1] = h[i]] \in [1 .. n -> T]
    BY <1>1, <1>2, <2>1
  <2>3. [h EXCEPT ![i] = h[i + 1], ![i + 1] = h[i]] \in Seq(T)
    BY <1>6, <2>2, Zenon
  <2>4. QED BY <1>1, <2>3 DEF History
<1>9. QED BY <1>2, <1>3, <1>4, <1>5, <1>7, <1>8

LEMMA RecordsKeep ==
    ASSUME SignedInv, LoseRecord \/ AddRecord \/ ReplaceRecord \/ SwapRecords
    PROVE  SignedInv'
<1>1. bundle # << >>
  BY DEF LoseRecord, AddRecord, ReplaceRecord, SwapRecords
<1>2. PICK b : b = b0 /\ IsBundle(b)
  BY <1>1 DEF SignedInv
<1>3. PICK h : h = b.history /\ History(h)
  BY <1>2 DEF IsBundle
<1>4. \A r \in AllSigned : Filed(r)
  BY RecordIs DEF SignedInv
<1>5. \E h2 : History(h2) /\ Edit([b EXCEPT !.history = h2])
  <2>1. CASE LoseRecord
    <3>1. PICK i \in DOMAIN h : Edit([b EXCEPT !.history = RemoveAt(h, i)])
      BY <1>2, <1>3, <2>1 DEF LoseRecord
    <3>2. QED BY <1>3, <3>1, HistoryKeeps
  <2>2. CASE AddRecord
    <3>1. PICK r \in AllSigned : Edit([b EXCEPT !.history = Append(h, r)])
      BY <1>2, <1>3, <2>2 DEF AddRecord
    <3>2. QED BY <1>3, <1>4, <3>1, HistoryKeeps
  <2>3. CASE ReplaceRecord
    <3>1. PICK i \in DOMAIN h, r \in AllSigned : Edit([b EXCEPT !.history = [h EXCEPT ![i] = r]])
      BY <1>2, <1>3, <2>3 DEF ReplaceRecord
    <3>2. QED BY <1>3, <1>4, <3>1, HistoryKeeps
  <2>4. CASE SwapRecords
    <3>1. PICK i \in 1 .. Len(h) - 1 :
            Edit([b EXCEPT !.history = [h EXCEPT ![i] = h[i + 1], ![i + 1] = h[i]]])
      BY <1>2, <1>3, <2>4 DEF SwapRecords
    <3>2. QED BY <1>3, <3>1, HistoryKeeps
  <2>5. QED BY <2>1, <2>2, <2>3, <2>4
<1>6. PICK h2 : History(h2) /\ Edit([b EXCEPT !.history = h2])
  BY <1>5
<1>7. IsBundle([b EXCEPT !.history = h2])
  BY <1>2, <1>6, WithHistory
<1>8. QED BY <1>6, <1>7, EditKeeps

LEMMA ChangeRecordKeeps ==
    ASSUME SignedInv, ChangeRecord
    PROVE  SignedInv'
<1>1. bundle # << >>
  BY DEF ChangeRecord
<1>2. PICK b : b = b0 /\ IsBundle(b)
  BY <1>1 DEF SignedInv
<1>3. PICK h : h = b.history /\ History(h)
  BY <1>2 DEF IsBundle
<1>4. PICK i \in DOMAIN h : \E c : Edit([b EXCEPT !.history[i].content.claim = c])
  BY <1>2, <1>3 DEF ChangeRecord
<1>5. PICK c, y : /\ Edit([b EXCEPT !.history[i].content.claim = c])
                  /\ y = [h[i] EXCEPT !.content.claim = c]
  BY <1>4
<1>6. Filed(h[i])
  BY <1>3, HistoryKeeps
<1>7. Filed(y)
  <2>1. h[i] = [content |-> h[i].content, env |-> h[i].env] /\ IsObservation(h[i].content)
    BY <1>6 DEF Filed
  <2>2. y.env = h[i].env /\ y.content = [h[i].content EXCEPT !.claim = c]
        /\ y = [content |-> y.content, env |-> y.env]
    BY <1>5, <2>1
  <2>3. IsObservation(y.content)
    BY <2>1, <2>2, OtherClaim
  <2>4. QED BY <1>6, <2>2, <2>3 DEF Filed
<1>8. [b EXCEPT !.history[i].content.claim = c] = [b EXCEPT !.history = [h EXCEPT ![i] = y]]
  BY <1>3, <1>5
<1>9. History([h EXCEPT ![i] = y])
  BY <1>3, <1>7, HistoryKeeps
<1>10. IsBundle([b EXCEPT !.history = [h EXCEPT ![i] = y]])
  BY <1>2, <1>9, WithHistory
<1>11. QED BY <1>5, <1>8, <1>10, EditKeeps

LEMMA SignAgainKeeps ==
    ASSUME SignedInv, SignAgain
    PROVE  SignedInv'
<1>1. bundle # << >>
  BY DEF SignAgain
<1>2. PICK b : b = b0 /\ IsBundle(b)
  BY <1>1 DEF SignedInv
<1>3. PICK h : h = b.history /\ History(h)
  BY <1>2 DEF IsBundle
<1>4. PICK i \in DOMAIN h : \E c, cp :
        LET again == [b EXCEPT !.history[i] = Signed([@.content EXCEPT !.claim = c])]
        IN  Edit(again) \/ Edit([again EXCEPT !.checkpoint = Signed(cp)])
  BY <1>2, <1>3, Zenon DEF SignAgain
<1>5. PICK c, cp, y, b2 :
        /\ y = Signed([h[i].content EXCEPT !.claim = c])
        /\ b2 = [b EXCEPT !.history = [h EXCEPT ![i] = y]]
        /\ Edit(b2) \/ Edit([b2 EXCEPT !.checkpoint = Signed(cp)])
  <2>1. PICK c, cp :
          LET again == [b EXCEPT !.history[i] = Signed([@.content EXCEPT !.claim = c])]
          IN  Edit(again) \/ Edit([again EXCEPT !.checkpoint = Signed(cp)])
    BY <1>4
  <2>2. PICK y : y = Signed([h[i].content EXCEPT !.claim = c])
    OBVIOUS
  <2>3. [b EXCEPT !.history[i] = Signed([@.content EXCEPT !.claim = c])]
          = [b EXCEPT !.history = [h EXCEPT ![i] = y]]
    BY <1>3, <2>2
  <2>4. QED BY <2>1, <2>2, <2>3
<1>6. Filed(y)
  <2>1. Filed(h[i])
    BY <1>3, HistoryKeeps
  <2>2. IsObservation([h[i].content EXCEPT !.claim = c])
    BY <2>1, OtherClaim DEF Filed
  <2>3. y = SignedIn(run, [h[i].content EXCEPT !.claim = c])
    BY <1>5 DEF Signed, SignedIn
  <2>4. QED BY <2>2, <2>3, SignedIs
<1>7. IsBundle(b2)
  <2>1. History([h EXCEPT ![i] = y])
    BY <1>3, <1>6, HistoryKeeps
  <2>2. QED BY <1>2, <1>5, <2>1, WithHistory
<1>8. CASE Edit(b2)
  BY <1>7, <1>8, EditKeeps
<1>9. CASE Edit([b2 EXCEPT !.checkpoint = Signed(cp)])
  <2>1. PICK x : x = SignedIn(run, cp)
    OBVIOUS
  <2>2. Signed(cp) = x /\ x = [content |-> x.content, env |-> x.env]
    BY <2>1 DEF Signed, SignedIn
  <2>3. DOMAIN x.env \subseteq Nat
    <3>1. DOMAIN x.env = {1, 2}
      BY <2>1, SignedIs
    <3>2. QED BY <3>1
  <2>4. IsBundle([b2 EXCEPT !.checkpoint = x])
    BY <1>7, <2>2, <2>3, WithCheckpoint
  <2>5. QED BY <1>9, <2>2, <2>4, EditKeeps
<1>10. QED BY <1>5, <1>8, <1>9

LEMMA ChangeEnvelopesKeeps ==
    ASSUME SignedInv, ChangeEnvelopes
    PROVE  SignedInv'
<1>1. bundle # << >>
  BY DEF ChangeEnvelopes
<1>2. PICK b : b = b0 /\ IsBundle(b)
  BY <1>1 DEF SignedInv
<1>3. PICK h : h = b.history /\ History(h)
  BY <1>2 DEF IsBundle
<1>4. PICK i \in DOMAIN h, j \in DOMAIN InOrder :
        /\ j \in DOMAIN h[i].env
        /\ \/ Edit([b EXCEPT !.history[i].env = <<h[i].env[j]>>])
           \/ Edit([b EXCEPT !.history[i].env = Append(h[i].env, h[i].env[j])])
  BY <1>2, <1>3 DEF ChangeEnvelopes
<1>5. PICK e, E : e = h[i].env /\ e \in Seq(E)
  BY <1>3, HistoryKeeps DEF Filed
<1>6. h[i] = [content |-> h[i].content, env |-> e] /\ IsObservation(h[i].content)
  BY <1>3, <1>5, HistoryKeeps DEF Filed
<1>7. PICK e2 \in Seq(E) : Edit([b EXCEPT !.history[i].env = e2])
  <2>1. e[j] \in E
    BY <1>4, <1>5
  <2>2. <<e[j]>> \in Seq(E) /\ Append(e, e[j]) \in Seq(E)
    BY <1>5, <2>1
  <2>3. QED BY <1>4, <1>5, <2>2
<1>8. PICK y : y = [h[i] EXCEPT !.env = e2]
  OBVIOUS
<1>9. Filed(y)
  <2>1. y.env = e2 /\ y.content = h[i].content /\ y = [content |-> y.content, env |-> y.env]
    BY <1>6, <1>8
  <2>2. QED BY <1>6, <1>7, <2>1 DEF Filed
<1>10. [b EXCEPT !.history[i].env = e2] = [b EXCEPT !.history = [h EXCEPT ![i] = y]]
  BY <1>3, <1>8
<1>11. History([h EXCEPT ![i] = y])
  BY <1>3, <1>9, HistoryKeeps
<1>12. IsBundle([b EXCEPT !.history = [h EXCEPT ![i] = y]])
  BY <1>2, <1>11, WithHistory
<1>13. QED BY <1>7, <1>10, <1>12, EditKeeps

LEMMA OthersKeep ==
    ASSUME SignedInv, TakeGenesis \/ ChangeCheckpoint \/ PutBlock
    PROVE  SignedInv'
<1>1. bundle # << >>
  BY DEF TakeGenesis, ChangeCheckpoint, PutBlock
<1>2. PICK b : b = b0 /\ IsBundle(b)
  BY <1>1 DEF SignedInv
<1>3. b = [genesis |-> b.genesis, history |-> b.history, checkpoint |-> b.checkpoint, block |-> b.block]
  BY <1>2 DEF IsBundle
<1>4. CASE TakeGenesis
  <2>1. PICK g : Edit([b EXCEPT !.genesis = g])
    BY <1>2, <1>4 DEF TakeGenesis
  <2>2. PICK b2 : b2 = [b EXCEPT !.genesis = g]
    OBVIOUS
  <2>3. /\ b2.history = b.history /\ b2.checkpoint = b.checkpoint
        /\ b2 = [genesis |-> b2.genesis, history |-> b2.history, checkpoint |-> b2.checkpoint,
                 block |-> b2.block]
    BY <1>3, <2>2
  <2>4. IsBundle(b2)
    BY <1>2, <2>3 DEF IsBundle
  <2>5. QED BY <2>1, <2>2, <2>4, EditKeeps
<1>5. CASE PutBlock
  <2>1. PICK c : Edit([b EXCEPT !.block = c])
    BY <1>2, <1>5 DEF PutBlock
  <2>2. PICK b2 : b2 = [b EXCEPT !.block = c]
    OBVIOUS
  <2>3. /\ b2.history = b.history /\ b2.checkpoint = b.checkpoint
        /\ b2 = [genesis |-> b2.genesis, history |-> b2.history, checkpoint |-> b2.checkpoint,
                 block |-> b2.block]
    BY <1>3, <2>2
  <2>4. IsBundle(b2)
    BY <1>2, <2>3 DEF IsBundle
  <2>5. QED BY <2>1, <2>2, <2>4, EditKeeps
<1>6. CASE ChangeCheckpoint
  <2>1. PICK other : \/ Edit([b EXCEPT !.checkpoint.content = other])
                     \/ Edit([b EXCEPT !.checkpoint = Signed(other)])
    BY <1>2, <1>6 DEF ChangeCheckpoint
  <2>2. PICK cp : /\ Edit([b EXCEPT !.checkpoint = cp])
                  /\ cp = [content |-> cp.content, env |-> cp.env] /\ DOMAIN cp.env \subseteq Nat
    <3>1. CASE Edit([b EXCEPT !.checkpoint.content = other])
      <4>1. b.checkpoint = [content |-> b.checkpoint.content, env |-> b.checkpoint.env]
            /\ DOMAIN b.checkpoint.env \subseteq Nat
        BY <1>2 DEF IsBundle
      <4>2. PICK cp : cp = [b.checkpoint EXCEPT !.content = other]
        OBVIOUS
      <4>3. [b EXCEPT !.checkpoint.content = other] = [b EXCEPT !.checkpoint = cp]
        BY <4>2
      <4>4. cp.env = b.checkpoint.env /\ cp = [content |-> cp.content, env |-> cp.env]
        BY <4>1, <4>2
      <4>5. QED BY <3>1, <4>1, <4>3, <4>4
    <3>2. CASE Edit([b EXCEPT !.checkpoint = Signed(other)])
      <4>1. Signed(other) = SignedIn(run, other)
        BY DEF Signed, SignedIn
      <4>2. PICK cp : cp = SignedIn(run, other)
        OBVIOUS
      <4>3. DOMAIN cp.env \subseteq Nat
        <5>1. DOMAIN cp.env = {1, 2}
          BY <4>2, SignedIs
        <5>2. QED BY <5>1
      <4>4. cp = [content |-> cp.content, env |-> cp.env]
        BY <4>2 DEF SignedIn
      <4>5. QED BY <3>2, <4>1, <4>2, <4>3, <4>4
    <3>3. QED BY <2>1, <3>1, <3>2
  <2>3. IsBundle([b EXCEPT !.checkpoint = cp])
    BY <1>2, <2>2, WithCheckpoint
  <2>4. QED BY <2>2, <2>3, EditKeeps
<1>7. QED BY <1>4, <1>5, <1>6

LEMMA SignedStep == SignedInv /\ [Next]_vars => SignedInv'
<1> SUFFICES ASSUME SignedInv, [Next]_vars PROVE SignedInv'
  OBVIOUS
<1>1. ASSUME NEW w \in Witness, NEW claim \in Claims[w], Observe(w, claim) PROVE SignedInv'
  BY <1>1, ObserveKeeps
<1>2. CASE Publish
  BY <1>2, PublishKeeps
<1>3. CASE HandOn
  BY <1>3, HandOnKeeps
<1>4. CASE LoseRecord \/ AddRecord \/ ReplaceRecord \/ SwapRecords
  BY <1>4, RecordsKeep
<1>5. CASE ChangeRecord
  BY <1>5, ChangeRecordKeeps
<1>6. CASE SignAgain \/ ChangeEnvelopes
  BY <1>6, SignAgainKeeps, ChangeEnvelopesKeeps
<1>7. CASE TakeGenesis \/ ChangeCheckpoint \/ PutBlock
  BY <1>7, OthersKeep
<1>8. CASE UNCHANGED vars
  <2>1. UNCHANGED <<run, genesis, chains, published, bundle>>
    BY <1>8 DEF vars
  <2>2. bundle' # << >> => run > MaxRuns
    BY <2>1 DEF SignedInv, PublishedInv
  <2>3. PublishedInv'
    BY <2>1, <2>2, SamePublished DEF SignedInv
  <2>4. bundle' # << >> => b0' = b0 /\ IsBundle(b0)
    BY <2>1 DEF SignedInv, b0
  <2>5. QED BY <2>3, <2>4 DEF SignedInv
<1>9. QED BY <1>1, <1>2, <1>3, <1>4, <1>5, <1>6, <1>7, <1>8 DEF Next

-------------------------------------------------------------------------------
LEMMA BundleForm ==
    ASSUME SignedInv, bundle # << >>
    PROVE  /\ DOMAIN b0.history \subseteq Nat
           /\ \A k \in DOMAIN b0.history : DOMAIN b0.history[k].env \subseteq Nat
           /\ DOMAIN b0.checkpoint.env \subseteq Nat
<1>1. PICK b : b = b0 /\ IsBundle(b)
  BY DEF SignedInv
<1>2. PICK h : h = b.history /\ History(h)
  BY <1>1 DEF IsBundle
<1>3. DOMAIN h \subseteq Nat /\ \A k \in DOMAIN h : Filed(h[k])
  BY <1>2, HistoryKeeps
<1>4. \A k \in DOMAIN h : DOMAIN h[k].env \subseteq Nat
  <2> SUFFICES ASSUME NEW k \in DOMAIN h PROVE DOMAIN h[k].env \subseteq Nat
    OBVIOUS
  <2>1. PICK E, e : e = h[k].env /\ e \in Seq(E)
    BY <1>3 DEF Filed
  <2>2. DOMAIN e \subseteq Nat
    BY <2>1
  <2>3. QED BY <2>1, <2>2
<1>5. DOMAIN b.checkpoint.env \subseteq Nat
  BY <1>1 DEF IsBundle
<1>6. QED BY <1>1, <1>2, <1>3, <1>4, <1>5

\* A check that cannot be made is one the verdict waits for, every other is the same.
LEMMA UnableVerdict ==
    ASSUME NEW b, DOMAIN b.history \subseteq Nat,
           \A k \in DOMAIN b.history : DOMAIN b.history[k].env \subseteq Nat,
           DOMAIN b.checkpoint.env \subseteq Nat, NEW avail \in SUBSET Algorithms
    PROVE  Verdict(b, avail) \in {Verdict(b, Algorithms), "INDETERMINATE_TOOLCHAIN"}
<1>1. CASE Raises(b)
  BY <1>1 DEF Verdict
<1>2. CASE ~Raises(b) /\ AllSignatures(b.history, avail) = "UNAVAILABLE"
  <2>1. Checks(b, avail).ALL_OBSERVATION_PQ_SIGNATURES = "UNAVAILABLE"
    BY <1>2 DEF Checks
  <2>2. "ALL_OBSERVATION_PQ_SIGNATURES" \in DOMAIN Checks(b, avail)
    BY DEF Checks
  <2>3. QED BY <1>2, <2>1, <2>2 DEF Verdict
<1>3. CASE ~Raises(b) /\ Signatures(b.checkpoint, avail) = "UNAVAILABLE"
  <2>1. Checks(b, avail).CHECKPOINT_PQ_SIGNATURES = "UNAVAILABLE"
    BY <1>3 DEF Checks
  <2>2. "CHECKPOINT_PQ_SIGNATURES" \in DOMAIN Checks(b, avail)
    BY DEF Checks
  <2>3. QED BY <1>3, <2>1, <2>2 DEF Verdict
<1>4. CASE /\ AllSignatures(b.history, avail) # "UNAVAILABLE"
           /\ Signatures(b.checkpoint, avail) # "UNAVAILABLE"
  <2>1. AllSignatures(b.history, avail) = AllSignatures(b.history, Algorithms)
    BY <1>4, UnableHistory
  <2>2. Signatures(b.checkpoint, avail) = Signatures(b.checkpoint, Algorithms)
    BY <1>4, UnableSignatures
  <2>3. Checks(b, avail) = Checks(b, Algorithms)
    BY <2>1, <2>2 DEF Checks
  <2>4. QED BY <2>3 DEF Verdict
<1>5. QED BY <1>1, <1>2, <1>3, <1>4

LEMMA SignedAlways == Spec => []SignedInv
<1>1. QED BY SignedInit, SignedStep, PTL DEF Spec

\* UnableNeverDecides (ctp/verify.py:11): whatever has become of a bundle, an OpenSSL
\* without an algorithm says what a complete one says, or that it cannot tell.
THEOREM UnableCannotDecide == Spec => []UnableNeverDecides
<1>1. SignedInv => UnableNeverDecides
  <2> SUFFICES ASSUME SignedInv, bundle # << >>, NEW avail \in SUBSET Algorithms
               PROVE  Verdict(b0, avail) \in {Verdict(b0, Algorithms), "INDETERMINATE_TOOLCHAIN"}
    BY DEF UnableNeverDecides
  <2>1. PICK b : b = b0
    OBVIOUS
  <2>2. /\ DOMAIN b.history \subseteq Nat
        /\ \A k \in DOMAIN b.history : DOMAIN b.history[k].env \subseteq Nat
        /\ DOMAIN b.checkpoint.env \subseteq Nat
    BY <2>1, BundleForm
  <2>3. QED BY <2>1, <2>2, UnableVerdict
<1>2. QED BY <1>1, SignedAlways, PTL

-------------------------------------------------------------------------------
\* all() is true of records that are.
LEMMA AllSignedRight ==
    ASSUME NEW h, DOMAIN h \subseteq Nat, AllSignatures(h, Algorithms) = "true"
    PROVE  \A k \in DOMAIN h : Signatures(h[k], Algorithms) = "true"
<1> DEFINE Wrong == {k \in DOMAIN h : Signatures(h[k], Algorithms) # "true"}
           First == CHOOSE k \in Wrong : \A j \in Wrong : k <= j
<1>1. SUFFICES ASSUME Wrong # {} PROVE FALSE
  OBVIOUS
<1>2. PICK x \in Wrong : \A j \in Wrong : x <= j
  <2>1. Wrong \subseteq Nat
    OBVIOUS
  <2> HIDE DEF Wrong
  <2>2. QED BY <1>1, <2>1, LeastNumber
<1>3. First \in Wrong
  BY <1>2
<1>4. AllSignatures(h, Algorithms) = Signatures(h[First], Algorithms)
  BY <1>1 DEF AllSignatures
<1>5. QED BY <1>3, <1>4

\* Record k of the history is the i-th of the m of witness w, and says so.
Stands(h, k, w, m, i) ==
    /\ i \in 1 .. m /\ k \in Mine(h, w)
    /\ DOMAIN Own(h, w) = 1 .. m /\ Len(Own(h, w)) = m
    /\ Own(h, w)[i] = h[k] /\ Place(h, w)[k] = i - 1
    /\ h[k].content.sequence = i - 1 /\ h[k].content.witness = w

\* Chains that hold: a record is where its number says, after the one it names.
Chained(h, n) ==
    /\ DOMAIN h = 1 .. n /\ ChainsHold(h)
    /\ \A k \in 1 .. n : h[k].content.witness \in Witness /\ h[k].content.sequence \in Nat

\* How far a record is from the end of its witness's chain.
Left(h, k) == Len(Own(h, h[k].content.witness)) - h[k].content.sequence

LEMMA ChainsOf ==
    ASSUME NEW n \in Nat, NEW h, Chained(h, n)
    PROVE  /\ \A j, k \in 1 .. n : h[j].content = h[k].content => j = k
           /\ \A k \in 1 .. n : h[k].content.previous # << >> =>
                 \E j \in 1 .. n : h[j].content = h[k].content.previous[1]
           /\ \A k \in 1 .. n :
                 \/ h[k] \in Latest(h)
                 \/ \E j \in 1 .. n : /\ h[j].content.previous # << >>
                                      /\ h[j].content.previous[1] = h[k].content
                                      /\ Left(h, j) < Left(h, k)
           /\ \A k \in 1 .. n : Left(h, k) \in Nat
           /\ \A r \in Latest(h) : \E k \in 1 .. n : r = h[k]
<1> USE DEF Chained, Stands
<1>1. ASSUME NEW w \in Witness
      PROVE  /\ Cardinality(Mine(h, w)) \in Nat
             /\ DOMAIN Own(h, w) = 1 .. Cardinality(Mine(h, w))
             /\ Len(Own(h, w)) = Cardinality(Mine(h, w))
             /\ \A k \in Mine(h, w) : /\ Place(h, w)[k] \in 0 .. Cardinality(Mine(h, w)) - 1
                                      /\ Own(h, w)[Place(h, w)[k] + 1] = h[k]
             /\ \A j, k \in Mine(h, w) : Place(h, w)[j] = Place(h, w)[k] => j = k
             /\ \A i \in DOMAIN Own(h, w) :
                   \E k \in Mine(h, w) : Place(h, w)[k] = i - 1 /\ Own(h, w)[i] = h[k]
             /\ Mine(h, w) \subseteq 1 .. n
  <2>1. \A k \in Mine(h, w) : k \in 1 .. n /\ h[k].content.sequence \in Nat
    BY DEF Mine
  <2>2. QED BY <2>1, OwnRecords
<1>2. ASSUME NEW w \in Witness
      PROVE  \A i \in DOMAIN Own(h, w) :
               /\ Own(h, w)[i].content.sequence = i - 1
               /\ Own(h, w)[i].content.previous = IF i = 1 THEN << >> ELSE <<Own(h, w)[i - 1].content>>
  BY DEF ChainsHold, Linked
<1>3. ASSUME NEW k \in 1 .. n
      PROVE  \E w \in Witness, m \in Nat, i \in Nat : Stands(h, k, w, m, i)
  <2>1. PICK w \in Witness : w = h[k].content.witness /\ k \in Mine(h, w)
    BY DEF Mine
  <2>2. PICK m \in Nat : m = Cardinality(Mine(h, w))
    BY <1>1
  <2>3. PICK i : i = Place(h, w)[k] + 1
    OBVIOUS
  <2>4. /\ Place(h, w)[k] \in 0 .. m - 1 /\ Own(h, w)[i] = h[k]
        /\ DOMAIN Own(h, w) = 1 .. m /\ Len(Own(h, w)) = m
    BY <1>1, <2>1, <2>2, <2>3
  <2>5. i \in 1 .. m /\ Place(h, w)[k] = i - 1
    BY <2>3, <2>4
  <2>6. h[k].content.sequence = i - 1
    <3>1. i \in DOMAIN Own(h, w)
      BY <2>4, <2>5
    <3>2. Own(h, w)[i].content.sequence = i - 1
      BY <1>2, <2>1, <3>1
    <3>3. QED BY <2>4, <3>2
  <2>7. QED BY <2>1, <2>4, <2>5, <2>6
<1>4. ASSUME NEW j \in 1 .. n, NEW k \in 1 .. n, h[j].content = h[k].content PROVE j = k
  <2>1. PICK w \in Witness, m \in Nat, i \in Nat : Stands(h, k, w, m, i)
    BY <1>3
  <2>2. PICK v \in Witness, m2 \in Nat, i2 \in Nat : Stands(h, j, v, m2, i2)
    BY <1>3
  <2>3. v = w /\ Place(h, w)[j] = Place(h, w)[k]
    BY <1>4, <2>1, <2>2
  <2>4. QED BY <1>1, <2>1, <2>2, <2>3
<1>5. ASSUME NEW k \in 1 .. n, h[k].content.previous # << >>
      PROVE  \E j \in 1 .. n : h[j].content = h[k].content.previous[1]
  <2>1. PICK w \in Witness, m \in Nat, i \in Nat : Stands(h, k, w, m, i)
    BY <1>3
  <2>2. h[k].content.previous = IF i = 1 THEN << >> ELSE <<Own(h, w)[i - 1].content>>
    <3>1. i \in DOMAIN Own(h, w)
      BY <2>1
    <3>2. Own(h, w)[i].content.previous = IF i = 1 THEN << >> ELSE <<Own(h, w)[i - 1].content>>
      BY <1>2, <3>1
    <3>3. QED BY <2>1, <3>2
  <2>3. i # 1 /\ h[k].content.previous[1] = Own(h, w)[i - 1].content
    BY <1>5, <2>2
  <2>4. i - 1 \in DOMAIN Own(h, w)
    BY <2>1, <2>3
  <2>5. PICK j \in Mine(h, w) : Own(h, w)[i - 1] = h[j]
    BY <1>1, <2>4
  <2>6. j \in 1 .. n
    BY <1>1, <2>5
  <2>7. QED BY <2>3, <2>5, <2>6
<1>6. Latest(h) = {Last(Own(h, w)) : w \in {v \in Witness : Own(h, v) # << >>}}
  BY DEF Latest
<1>7. ASSUME NEW k \in 1 .. n
      PROVE  \/ h[k] \in Latest(h)
             \/ \E j \in 1 .. n : /\ h[j].content.previous # << >>
                                  /\ h[j].content.previous[1] = h[k].content
                                  /\ Left(h, j) < Left(h, k)
  <2>1. PICK w \in Witness, m \in Nat, i \in Nat : Stands(h, k, w, m, i)
    BY <1>3
  <2>2. CASE i = m
    <3>1. Last(Own(h, w)) = h[k]
      BY <2>1, <2>2 DEF Last
    <3>2. Own(h, w) # << >>
      <4>1. i \in DOMAIN Own(h, w) /\ DOMAIN << >> = {}
        BY <2>1
      <4>2. QED BY <4>1
    <3>3. QED BY <1>6, <3>1, <3>2
  <2>3. CASE i # m
    <3>1. i + 1 \in DOMAIN Own(h, w) /\ i + 1 # 1 /\ i + 1 - 1 = i
      BY <2>1, <2>3
    <3>2. PICK j \in Mine(h, w) : Own(h, w)[i + 1] = h[j]
      BY <1>1, <3>1
    <3>3. Own(h, w)[i + 1].content.previous = <<Own(h, w)[i].content>>
      <4>1. PICK l : l = i + 1
        OBVIOUS
      <4>2. Own(h, w)[l].content.previous = IF l = 1 THEN << >> ELSE <<Own(h, w)[l - 1].content>>
        BY <1>2, <3>1, <4>1
      <4>3. QED BY <3>1, <4>1, <4>2
    <3>4. h[j].content.previous = <<h[k].content>>
      BY <2>1, <3>2, <3>3
    <3>5. j \in 1 .. n /\ h[j].content.witness = w
      BY <1>1, <3>2 DEF Mine
    <3>6. h[j].content.sequence = i
      <4>1. PICK l : l = i + 1
        OBVIOUS
      <4>2. Own(h, w)[l].content.sequence = l - 1
        BY <1>2, <3>1, <4>1
      <4>3. QED BY <3>1, <3>2, <4>1, <4>2
    <3>7. Left(h, k) = m - (i - 1) /\ Left(h, j) = m - i
      BY <2>1, <3>5, <3>6 DEF Left
    <3>8. m - i < m - (i - 1)
      BY <2>1
    <3>9. h[j].content.previous # << >> /\ h[j].content.previous[1] = h[k].content
      BY <3>4
    <3>10. Left(h, j) < Left(h, k)
      BY <3>7, <3>8
    <3>11. QED BY <3>5, <3>9, <3>10
  <2>4. QED BY <2>2, <2>3
<1>8. ASSUME NEW r \in Latest(h) PROVE \E k \in 1 .. n : r = h[k]
  <2>1. PICK w \in Witness : Own(h, w) # << >> /\ r = Last(Own(h, w))
    BY <1>6
  <2>2. PICK m \in Nat : m = Cardinality(Mine(h, w))
    BY <1>1
  <2>3. DOMAIN Own(h, w) = 1 .. m /\ Len(Own(h, w)) = m
    BY <1>1, <2>2
  <2>4. m # 0
    <3>1. SUFFICES ASSUME m = 0 PROVE FALSE
      OBVIOUS
    <3>2. Own(h, w) = << >>
      <4>1. Own(h, w) = [i \in 1 .. 0 |-> Own(h, w)[i]]
        BY <2>3, <3>1 DEF Own
      <4>2. QED BY <4>1
    <3>3. QED BY <2>1, <3>2
  <2>5. m \in DOMAIN Own(h, w) /\ r = Own(h, w)[m]
    BY <2>1, <2>3, <2>4 DEF Last
  <2>6. PICK k \in Mine(h, w) : Own(h, w)[m] = h[k]
    BY <1>1, <2>5
  <2>7. k \in 1 .. n
    BY <1>1, <2>6
  <2>8. QED BY <2>5, <2>6, <2>7
<1>9. ASSUME NEW k \in 1 .. n PROVE Left(h, k) \in Nat
  <2>1. PICK w \in Witness, m \in Nat, i \in Nat : Stands(h, k, w, m, i)
    BY <1>3
  <2>2. Left(h, k) = m - (i - 1)
    BY <2>1 DEF Left
  <2>3. i \in 1 .. m
    BY <2>1
  <2>4. m - (i - 1) \in Nat
    BY <2>3
  <2>5. QED BY <2>2, <2>4
<1>10. QED BY <1>4, <1>5, <1>7, <1>8, <1>9

\* What the tests of a bundle that passes say.
LEMMA PassingSays ==
    ASSUME NEW b, DOMAIN b.history \subseteq Nat, Verdict(b, Algorithms) \in Passing
    PROVE  /\ \A k \in DOMAIN b.history : Signatures(b.history[k], Algorithms) = "true"
           /\ \A k \in DOMAIN b.history : b.history[k].content.genesis = b.genesis
           /\ ChainsHold(b.history)
           /\ Latest(b.history) = b.checkpoint.content.records
<1> DEFINE c == Checks(b, Algorithms)
<1>1. \A x \in DOMAIN c : c[x] # "UNAVAILABLE" /\ c[x] # "false"
  BY DEF Verdict, Passing
<1>2. /\ "PROTOCOL_GENESIS_BINDING" \in DOMAIN c /\ "ALL_OBSERVATION_PQ_SIGNATURES" \in DOMAIN c
      /\ "WITNESS_CHAINS" \in DOMAIN c /\ "CHECKPOINT_LATEST_OBSERVATION_SET" \in DOMAIN c
  BY DEF Checks
<1>3. /\ c.PROTOCOL_GENESIS_BINDING = Of(/\ b.checkpoint.content.genesis = b.genesis
             /\ \A k \in DOMAIN b.history : b.history[k].content.genesis = b.genesis)
      /\ c.ALL_OBSERVATION_PQ_SIGNATURES = AllSignatures(b.history, Algorithms)
      /\ c.WITNESS_CHAINS = Of(ChainsHold(b.history))
      /\ c.CHECKPOINT_LATEST_OBSERVATION_SET = Of(Latest(b.history) = b.checkpoint.content.records)
  BY DEF Checks
<1> HIDE DEF c
<1>4. /\ c.PROTOCOL_GENESIS_BINDING # "false" /\ c.WITNESS_CHAINS # "false"
      /\ c.CHECKPOINT_LATEST_OBSERVATION_SET # "false"
      /\ c.ALL_OBSERVATION_PQ_SIGNATURES # "false" /\ c.ALL_OBSERVATION_PQ_SIGNATURES # "UNAVAILABLE"
  BY <1>1, <1>2
<1>5. /\ \A k \in DOMAIN b.history : b.history[k].content.genesis = b.genesis
      /\ ChainsHold(b.history) /\ Latest(b.history) = b.checkpoint.content.records
  BY <1>3, <1>4 DEF Of
<1>6. AllSignatures(b.history, Algorithms) \in {"true", "false", "UNAVAILABLE"}
  BY DEF AllSignatures, Signatures
<1>7. AllSignatures(b.history, Algorithms) = "true"
  BY <1>3, <1>4, <1>6
<1>8. QED BY <1>5, <1>7, AllSignedRight

\* The record of a run, as far as a checkpoint has it.
HoldsTheRecord(b) ==
    LET cp == b.checkpoint.content
        made == {s.content : s \in AllSigned}
        named == {r.content : r \in cp.records}
        held == {b.history[k].content : k \in DOMAIN b.history}
        before == {o.previous[1] : o \in {p \in held : p.previous # << >>}}
    IN  /\ held = named \cup before
        /\ Len(b.history) = Cardinality(held)
        /\ cp.records \subseteq ToSet(b.history)
        /\ named \subseteq made => held \subseteq made
        /\ \A o \in held : o.genesis = b.genesis

LEMMA PassingIs == SignedInv => PassingIsTheRecord
<1> SUFFICES ASSUME SignedInv, bundle # << >>, Verdict(b0, Algorithms) \in Passing
             PROVE  HoldsTheRecord(b0)
  BY Zenon DEF PassingIsTheRecord, HoldsTheRecord
<1>1. PICK b : b = b0 /\ IsBundle(b)
  BY DEF SignedInv
<1>2. PICK h, T : h = b.history /\ History(h) /\ h \in Seq(T)
  BY <1>1 DEF IsBundle, History
<1>3. PICK n \in Nat : n = Len(h) /\ DOMAIN h = 1 .. n
  BY <1>2
<1>4. /\ \A k \in 1 .. n : Signatures(h[k], Algorithms) = "true"
      /\ \A k \in 1 .. n : h[k].content.genesis = b.genesis
      /\ ChainsHold(h) /\ Latest(h) = b.checkpoint.content.records
  <2>1. Verdict(b, Algorithms) \in Passing /\ DOMAIN b.history \subseteq Nat
    BY <1>1, <1>2, <1>3
  <2>2. QED BY <1>2, <1>3, <2>1, PassingSays
<1>5. \A k \in 1 .. n : h[k].content.witness \in Witness /\ h[k].content.sequence \in Nat
  BY <1>2, <1>3, HistoryKeeps DEF Filed, IsObservation
<1>6. PICK held : held = {h[k].content : k \in 1 .. n}
  OBVIOUS
<1>7. PICK latest : latest = b.checkpoint.content.records
  OBVIOUS
<1>8. /\ \A j, k \in 1 .. n : h[j].content = h[k].content => j = k
      /\ \A k \in 1 .. n : h[k].content.previous # << >> =>
            \E j \in 1 .. n : h[j].content = h[k].content.previous[1]
      /\ \A k \in 1 .. n :
            \/ h[k] \in latest
            \/ \E j \in 1 .. n : /\ h[j].content.previous # << >>
                                 /\ h[j].content.previous[1] = h[k].content
                                 /\ Left(h, j) < Left(h, k)
      /\ \A k \in 1 .. n : Left(h, k) \in Nat
      /\ \A r \in latest : \E k \in 1 .. n : r = h[k]
  <2>1. Chained(h, n)
    BY <1>3, <1>4, <1>5 DEF Chained
  <2>2. Latest(h) = latest
    BY <1>4, <1>7
  <2>3. QED BY <2>1, <2>2, ChainsOf
<1>9. PICK before : before = {o.previous[1] : o \in {p \in held : p.previous # << >>}}
  OBVIOUS
<1>10. held = {r.content : r \in latest} \cup before
  <2>1. ASSUME NEW o \in held PROVE o \in {r.content : r \in latest} \cup before
    <3>1. PICK k \in 1 .. n : o = h[k].content
      BY <1>6
    <3>2. CASE h[k] \in latest
      BY <3>1, <3>2
    <3>3. CASE \E j \in 1 .. n : h[j].content.previous # << >> /\ h[j].content.previous[1] = h[k].content
      <4>1. PICK j \in 1 .. n : h[j].content.previous # << >> /\ h[j].content.previous[1] = h[k].content
        BY <3>3
      <4>2. PICK p : p = h[j].content
        OBVIOUS
      <4>3. p \in held /\ p.previous # << >> /\ o = p.previous[1]
        BY <1>6, <3>1, <4>1, <4>2
      <4>4. QED BY <1>9, <4>3
    <3>4. QED BY <1>8, <3>2, <3>3
  <2>2. ASSUME NEW r \in latest PROVE r.content \in held
    BY <1>6, <1>8
  <2>3. ASSUME NEW o \in before PROVE o \in held
    <3>1. PICK p \in held : p.previous # << >> /\ o = p.previous[1]
      BY <1>9
    <3>2. PICK k \in 1 .. n : p = h[k].content
      BY <1>6
    <3>3. PICK j \in 1 .. n : h[j].content = h[k].content.previous[1]
      BY <1>8, <3>1, <3>2
    <3>4. QED BY <1>6, <3>1, <3>2, <3>3
  <2>4. QED BY <2>1, <2>2, <2>3
<1>11. Len(h) = Cardinality(held)
  <2>1. PICK f : f = [k \in 1 .. n |-> h[k].content]
    OBVIOUS
  <2>2. f \in Injection(1 .. n, held)
    BY <1>6, <1>8, <2>1 DEF Injection, IsInjective
  <2>3. f \in Surjection(1 .. n, held)
    BY <1>6, <2>1 DEF Surjection
  <2>4. IsFiniteSet(1 .. n) /\ Cardinality(1 .. n) = n
    <3>1. 1 \in Int /\ n \in Int /\ (IF 1 > n THEN 0 ELSE n - 1 + 1) = n
      OBVIOUS
    <3>2. QED BY <3>1, FS_Interval, Zenon
  <2>5. f \in Bijection(1 .. n, held)
    BY <2>2, <2>3 DEF Bijection
  <2>6. Cardinality(1 .. n) = Cardinality(held)
    BY <2>4, <2>5, FS_Bijection DEF ExistsBijection
  <2>7. QED BY <1>3, <2>4, <2>6
<1>12. latest \subseteq ToSet(h)
  BY <1>3, <1>8 DEF ToSet
<1>13. ASSUME {r.content : r \in latest} \subseteq Contents PROVE held \subseteq Contents
  \* Of the records that are not the runs', the last of a chain is named.
  <2> DEFINE foreign == {k \in 1 .. n : h[k].content \notin Contents}
             far == {Left(h, k) : k \in foreign}
  <2>1. SUFFICES ASSUME foreign # {} PROVE FALSE
    BY <1>6
  <2>2. far \subseteq Nat /\ far # {}
    BY <1>8, <2>1
  <2>3. PICK x \in far : \A y \in far : x <= y
    <3> HIDE DEF far
    <3>1. QED BY <2>2, LeastNumber
  <2>4. PICK k \in foreign : x = Left(h, k)
    OBVIOUS
  <2>5. h[k] \notin latest
    BY <1>13, <2>4
  <2>6. PICK j \in 1 .. n : /\ h[j].content.previous # << >>
                            /\ h[j].content.previous[1] = h[k].content
                            /\ Left(h, j) < Left(h, k)
    BY <1>8, <2>4, <2>5
  <2>7. j \notin foreign
    <3>1. Left(h, j) \in Nat /\ Left(h, k) \in Nat
      BY <1>8, <2>4
    <3>2. Left(h, j) \notin far
      <4> HIDE DEF far, foreign
      <4>1. QED BY <2>3, <2>4, <2>6, <3>1
    <3>3. QED BY <3>2
  <2>8. PICK s \in AllSigned : s.content = h[j].content
    BY <2>7 DEF Contents
  <2>9. h[k].content \in Contents
    BY <2>6, <2>8, RecordIs DEF SignedInv
  <2>10. QED BY <2>4, <2>9
<1>14. \A o \in held : o.genesis = b.genesis
  BY <1>4, <1>6
<1>15. held = {b.history[k].content : k \in DOMAIN b.history}
  BY <1>2, <1>3, <1>6
<1>16. HoldsTheRecord(b)
  BY <1>2, <1>7, <1>9, <1>10, <1>11, <1>12, <1>13, <1>14, <1>15, Zenon DEF HoldsTheRecord, Contents
<1>17. QED BY <1>1, <1>16

\* PassingIsTheRecord (ctp/model.py:114-138, ctp/verify.py:26-40): a bundle that passes
\* holds what led to the latest record of each witness in its checkpoint, each record
\* once, and nothing else, whatever was mixed, lost, repeated, reordered, changed or
\* signed again before; and where these latest were made by the runs, so was all else.
THEOREM PassingHoldsTheRecord == Spec => []PassingIsTheRecord
<1>1. QED BY PassingIs, SignedAlways, PTL

-------------------------------------------------------------------------------
\* As many of one set as of the other.
LEMMA SameNumber ==
    ASSUME NEW n \in Nat, NEW S, NEW f, f \in Injection(1 .. n, S), f \in Surjection(1 .. n, S)
    PROVE  IsFiniteSet(S) /\ Cardinality(S) = n
<1>1. IsFiniteSet(1 .. n) /\ Cardinality(1 .. n) = n
  <2>1. 1 \in Int /\ n \in Int /\ (IF 1 > n THEN 0 ELSE n - 1 + 1) = n
    OBVIOUS
  <2>2. QED BY <2>1, FS_Interval, Zenon
<1>2. f \in Bijection(1 .. n, S)
  BY DEF Bijection
<1>3. QED BY <1>1, <1>2, FS_Bijection DEF ExistsBijection

\* A history of the records of a run's chains, each once and in any order.
HistoryOf(h, n, r, g, ch) ==
    /\ DOMAIN h = 1 .. n /\ \A j, k \in 1 .. n : h[j] = h[k] => j = k
    /\ \A v \in Witness : IsChain(r, g, v, ch[v])
    /\ ToSet(h) = UNION {ToSet(ch[v]) : v \in Witness}

\* Sorted by witness and number, it is the chains of the run.
LEMMA OwnIsChain ==
    ASSUME NEW n \in Nat, NEW h, NEW r, NEW g, NEW ch, HistoryOf(h, n, r, g, ch), NEW w \in Witness
    PROVE  Own(h, w) = ch[w]
<1> USE DEF HistoryOf
<1>1. PICK D : /\ D = Mine(h, w) /\ D \subseteq 1 .. n
               /\ \A k \in 1 .. n : k \in D <=> h[k].content.witness = w
  <2>1. Mine(h, w) = {k \in 1 .. n : h[k].content.witness = w}
    BY DEF Mine
  <2>2. PICK D : D = {k \in 1 .. n : h[k].content.witness = w}
    OBVIOUS
  <2>3. D \subseteq 1 .. n /\ \A k \in 1 .. n : k \in D <=> h[k].content.witness = w
    BY <2>2
  <2>4. QED BY <2>1, <2>2, <2>3
<1>2. PICK c, T : c = ch[w] /\ c \in Seq(T) /\ IsChain(r, g, w, c)
  <2>1. IsChain(r, g, w, ch[w])
    OBVIOUS
  <2>2. QED BY <2>1 DEF IsChain
<1>3. PICK m \in Nat : m = Len(c) /\ DOMAIN c = 1 .. m
  BY <1>2
<1>4. \A i \in 1 .. m : c[i].content.sequence = i - 1 /\ c[i].content.witness = w
  BY <1>2, <1>3 DEF IsChain
<1>5. ASSUME NEW k \in D PROVE \E i \in 1 .. m : h[k] = c[i]
  <2>1. k \in 1 .. n /\ h[k].content.witness = w
    BY <1>1
  <2>2. h[k] \in ToSet(h)
    BY <2>1 DEF ToSet
  <2>3. PICK v \in Witness : h[k] \in ToSet(ch[v])
    BY <2>2
  <2>4. PICK d, U : d = ch[v] /\ d \in Seq(U) /\ IsChain(r, g, v, d)
    <3>1. PICK d : d = ch[v] /\ IsChain(r, g, v, d)
      OBVIOUS
    <3>2. \E U : d \in Seq(U)
      BY <3>1 DEF IsChain
    <3>3. QED BY <3>1, <3>2
  <2>5. PICK i \in DOMAIN d : h[k] = d[i]
    BY <2>3, <2>4 DEF ToSet
  <2>6. i \in 1 .. Len(d)
    BY <2>4, <2>5
  <2>7. d[i].content.witness = v
    BY <2>4, <2>6 DEF IsChain
  <2>8. v = w
    BY <2>1, <2>5, <2>7
  <2>9. QED BY <1>2, <1>3, <2>4, <2>5, <2>8
<1>6. ASSUME NEW i \in 1 .. m PROVE \E k \in D : h[k] = c[i]
  <2>1. c[i] \in ToSet(c)
    BY <1>3 DEF ToSet
  <2>2. c[i] \in ToSet(h)
    BY <1>2, <2>1
  <2>3. PICK k \in 1 .. n : h[k] = c[i]
    BY <2>2 DEF ToSet
  <2>4. QED BY <1>1, <1>4, <2>3
<1>7. PICK f : f = [i \in 1 .. m |-> CHOOSE k \in D : h[k] = c[i]]
  OBVIOUS
<1>8. \A i \in 1 .. m : f[i] \in D /\ h[f[i]] = c[i]
  BY <1>6, <1>7
<1>9. \A i, j \in 1 .. m : f[i] = f[j] => i = j
  <2> SUFFICES ASSUME NEW i \in 1 .. m, NEW j \in 1 .. m, f[i] = f[j] PROVE i = j
    OBVIOUS
  <2>1. c[i].content.sequence = c[j].content.sequence
    BY <1>8
  <2>2. QED BY <1>4, <2>1
<1>10. \A k \in D : \E i \in 1 .. m : f[i] = k
  <2> SUFFICES ASSUME NEW k \in D PROVE \E i \in 1 .. m : f[i] = k
    OBVIOUS
  <2>1. PICK i \in 1 .. m : h[k] = c[i]
    BY <1>5
  <2>2. h[f[i]] = h[k] /\ f[i] \in 1 .. n /\ k \in 1 .. n
    BY <1>1, <1>8, <2>1
  <2>3. QED BY <2>2
<1>11. Cardinality(D) = m
  <2>1. f \in Injection(1 .. m, D)
    BY <1>7, <1>8, <1>9 DEF Injection, IsInjective
  <2>2. f \in Surjection(1 .. m, D)
    BY <1>7, <1>8, <1>10 DEF Surjection
  <2>3. QED BY <2>1, <2>2, SameNumber
<1>12. \A k \in D : h[k].content.sequence \in Nat
  <2> SUFFICES ASSUME NEW k \in D PROVE h[k].content.sequence \in Nat
    OBVIOUS
  <2>1. PICK i \in 1 .. m : h[k] = c[i]
    BY <1>5
  <2>2. QED BY <1>4, <2>1
<1>13. ASSUME NEW i \in 1 .. m PROVE Place(h, w)[f[i]] = i - 1
  <2>1. PICK S : S = Earlier(h, w, f[i])
    OBVIOUS
  <2>2. \A j \in 1 .. m : h[f[j]].content.sequence = j - 1
    BY <1>4, <1>8
  <2>3. ASSUME NEW j \in 1 .. m PROVE f[j] \in S <=> j < i
    <3>1. h[f[j]].content.sequence = j - 1 /\ h[f[i]].content.sequence = i - 1
      BY <2>2
    <3>2. f[j] \in D
      BY <1>8
    <3>3. f[j] \in S <=> j - 1 < i - 1 \/ (j - 1 = i - 1 /\ f[j] < f[i])
      BY <1>1, <2>1, <3>1, <3>2 DEF Earlier
    <3>4. j - 1 = i - 1 => f[j] = f[i] /\ f[i] \in Nat
      BY <1>1, <1>8
    <3>5. QED BY <3>3, <3>4
  <2>4. S \subseteq D
    BY <1>1, <2>1 DEF Earlier
  <2>5. PICK e : e = [j \in 1 .. i - 1 |-> f[j]]
    OBVIOUS
  <2>6. \A j \in 1 .. i - 1 : j \in 1 .. m /\ j < i
    OBVIOUS
  <2>7. e \in Injection(1 .. i - 1, S)
    BY <1>9, <2>3, <2>5, <2>6 DEF Injection, IsInjective
  <2>8. \A k \in S : \E j \in 1 .. i - 1 : f[j] = k
    <3> SUFFICES ASSUME NEW k \in S PROVE \E j \in 1 .. i - 1 : f[j] = k
      OBVIOUS
    <3>1. PICK j \in 1 .. m : f[j] = k
      BY <1>10, <2>4
    <3>2. j < i
      BY <2>3, <3>1
    <3>3. QED BY <3>1, <3>2
  <2>9. e \in Surjection(1 .. i - 1, S)
    BY <2>3, <2>5, <2>6, <2>8 DEF Surjection
  <2>10. i - 1 \in Nat
    OBVIOUS
  <2>11. Cardinality(S) = i - 1
    BY <2>7, <2>9, <2>10, SameNumber
  <2>12. f[i] \in D
    BY <1>8
  <2>13. QED BY <1>1, <2>1, <2>11, <2>12 DEF Place
<1>14. /\ DOMAIN Own(h, w) = 1 .. m
       /\ \A k \in D : Own(h, w)[Place(h, w)[k] + 1] = h[k]
  <2>1. \A k \in Mine(h, w) : h[k].content.sequence \in Nat
    BY <1>1, <1>12
  <2>2. /\ DOMAIN Own(h, w) = 1 .. Cardinality(Mine(h, w))
        /\ \A k \in Mine(h, w) : Own(h, w)[Place(h, w)[k] + 1] = h[k]
    BY <2>1, OwnRecords
  <2>3. QED BY <1>1, <1>11, <2>2
<1>15. \A i \in 1 .. m : Own(h, w)[i] = c[i]
  <2> SUFFICES ASSUME NEW i \in 1 .. m PROVE Own(h, w)[i] = c[i]
    OBVIOUS
  <2>1. f[i] \in D /\ h[f[i]] = c[i] /\ Place(h, w)[f[i]] = i - 1
    BY <1>8, <1>13
  <2>2. Own(h, w)[i - 1 + 1] = c[i]
    BY <1>14, <2>1
  <2>3. i - 1 + 1 = i
    OBVIOUS
  <2>4. QED BY <2>2, <2>3
<1>16. Own(h, w) = [i \in 1 .. m |-> Own(h, w)[i]]
  <2>1. Own(h, w) = [i \in DOMAIN Own(h, w) |-> Own(h, w)[i]]
    BY DEF Own
  <2>2. QED BY <1>14, <2>1
<1>17. c = [i \in 1 .. m |-> c[i]]
  BY <1>2, <1>3
<1>18. QED BY <1>2, <1>15, <1>16, <1>17

\* The signatures of a run are right.
LEMMA SignedPasses ==
    ASSUME NEW r, NEW content
    PROVE  Signatures(SignedIn(r, content), Algorithms) = "true"
<1>1. PICK s : s = SignedIn(r, content)
  OBVIOUS
<1>2. /\ s.content = content /\ DOMAIN s.env = {1, 2}
      /\ s.env[1].alg = "ML-DSA-87" /\ s.env[2].alg = "SLH-DSA-SHAKE-256s"
      /\ s.env[1].over = content /\ s.env[2].over = content
  BY <1>1, SignedIs
<1>3. ~Again(s.env, 1) /\ ~Again(s.env, 2)
  <2>1. 1 .. 1 - 1 = {} /\ 1 .. 2 - 1 = {1}
    OBVIOUS
  <2>2. QED BY <1>2, <2>1 DEF Again
<1>4. \A i \in DOMAIN s.env :
         ~Again(s.env, i) /\ s.env[i].alg \in Algorithms /\ s.env[i].over = s.content
  BY <1>2, <1>3 DEF Algorithms
<1>5. Algorithms \subseteq {s.env[i].alg : i \in DOMAIN s.env}
  BY <1>2 DEF Algorithms
<1>6. {i \in DOMAIN s.env : \/ Again(s.env, i) \/ s.env[i].alg \notin Algorithms
                             \/ s.env[i].over # s.content} = {}
  BY <1>4
<1>7. Signatures(s, Algorithms) = "true"
  BY <1>5, <1>6 DEF Signatures
<1>8. QED BY <1>1, <1>7

\* What a run published is what verify_bundle() asks for.
LEMMA RunPasses ==
    ASSUME NEW b, NEW p, NEW r, NEW ch, ByRun(p, r, ch), Cardinality(Witness) >= 3 * F + 1,
           \E T : b.history \in Seq(T),
           ToSet(b.history) = ToSet(p.history), Len(b.history) = Len(p.history),
           b.checkpoint = p.checkpoint, b.genesis = p.genesis,
           b.block # << >> => b.block[1].parses /\ b.block[1].sound /\ b.block[1].payload = p.checkpoint
    PROVE  Verdict(b, Algorithms) = IF b.block # << >> /\ b.block[1].work THEN "PASS" ELSE "PASS_PRE_POW"
<1>1. PICK h, T : h = b.history /\ h \in Seq(T)
  OBVIOUS
<1>2. PICK n \in Nat : n = Len(h) /\ DOMAIN h = 1 .. n
  BY <1>1
<1>3. PICK g : g = p.genesis
  OBVIOUS
<1>4. \A v \in Witness : IsChain(r, g, v, ch[v]) /\ ch[v] # << >>
  BY <1>3 DEF ByRun
<1>5. ToSet(h) = UNION {ToSet(ch[v]) : v \in Witness}
  BY <1>1 DEF ByRun
<1>6. \A j, k \in 1 .. n : h[j] = h[k] => j = k
  <2>1. Cardinality(ToSet(h)) = Len(h)
    BY <1>1 DEF ByRun
  <2>2. QED BY <1>1, <1>2, <2>1, SeqFinite
<1>7. \A w \in Witness : Own(h, w) = ch[w]
  <2>1. HistoryOf(h, n, r, g, ch)
    BY <1>2, <1>4, <1>5, <1>6 DEF HistoryOf
  <2>2. QED BY <2>1, OwnIsChain
<1>8. ASSUME NEW w \in Witness
      PROVE  /\ Linked(ch[w]) /\ Last(ch[w]).content.witness = w
             /\ \A s \in ToSet(ch[w]) : s.content.genesis = g /\ s = SignedIn(r, s.content)
  <2>1. IsChain(r, g, w, ch[w]) /\ ch[w] # << >>
    BY <1>4
  <2>2. PICK c, U : c = ch[w] /\ c \in Seq(U) /\ c # << >> /\ IsChain(r, g, w, c)
    <3>1. PICK c : c = ch[w] /\ c # << >> /\ IsChain(r, g, w, c)
      BY <2>1
    <3>2. \E U : c \in Seq(U)
      BY <3>1 DEF IsChain
    <3>3. QED BY <3>1, <3>2
  <2>3. Linked(c)
    <3>1. DOMAIN c = 1 .. Len(c)
      BY <2>2
    <3>2. \A i \in 1 .. Len(c) : c[i].content.sequence = i - 1
      BY <2>2 DEF IsChain
    <3>3. \A i \in 1 .. Len(c) :
             c[i].content.previous = IF i = 1 THEN << >> ELSE <<c[i - 1].content>>
      BY <2>2 DEF IsChain
    <3>4. QED BY <3>1, <3>2, <3>3 DEF Linked
  <2>4. Last(c) = c[Len(c)] /\ Len(c) \in 1 .. Len(c)
    BY <2>2 DEF Last
  <2>5. Last(c).content.witness = w
    <3>1. PICK l : l = Len(c) /\ l \in 1 .. Len(c)
      BY <2>4
    <3>2. c[l].content.witness = w
      BY <2>2, <3>1 DEF IsChain
    <3>3. QED BY <2>4, <3>1, <3>2
  <2>6. \A s \in ToSet(c) : s.content.genesis = g /\ s = SignedIn(r, s.content)
    <3> SUFFICES ASSUME NEW s \in ToSet(c)
                 PROVE  s.content.genesis = g /\ s = SignedIn(r, s.content)
      OBVIOUS
    <3>1. PICK i \in DOMAIN c : s = c[i]
      BY DEF ToSet
    <3>2. i \in 1 .. Len(c)
      BY <2>2, <3>1
    <3>3. c[i] = SignedIn(r, c[i].content) /\ c[i].content.genesis = g
      BY <2>2, <3>2 DEF IsChain
    <3>4. QED BY <3>1, <3>3
  <2>7. QED BY <2>2, <2>3, <2>5, <2>6
<1>9. ChainsHold(h)
  BY <1>7, <1>8 DEF ChainsHold
<1>10. PICK L : L = {Last(ch[w]) : w \in Witness}
  OBVIOUS
<1>11. Latest(h) = L
  <2>1. {v \in Witness : Own(h, v) # << >>} = Witness
    BY <1>4, <1>7
  <2>2. {Last(Own(h, w)) : w \in Witness} = L
    BY <1>7, <1>10
  <2>3. QED BY <1>9, <2>1, <2>2 DEF Latest
<1>12. IsFiniteSet(Witness) /\ F \in Nat /\ Cardinality(Witness) \in Nat
  BY RecordsAssumption, FS_CardinalityType
<1>13. L # {} /\ Cardinality(L) = Cardinality(Witness)
  <2>1. PICK f : f = [w \in Witness |-> Last(ch[w])]
    OBVIOUS
  <2>2. f \in [Witness -> L] /\ \A w \in Witness : f[w].content.witness = w
    BY <1>8, <1>10, <2>1
  <2>3. f \in Bijection(Witness, L)
    <3>1. \A v, w \in Witness : f[v] = f[w] => v = w
      BY <2>2
    <3>2. \A x \in L : \E w \in Witness : f[w] = x
      BY <1>10, <2>1
    <3>3. QED BY <2>2, <3>1, <3>2 DEF Bijection, Injection, Surjection, IsInjective
  <2>4. Cardinality(L) = Cardinality(Witness)
    BY <1>12, <2>3, FS_Bijection DEF ExistsBijection
  <2>5. Witness # {}
    <3>1. Cardinality(Witness) # 0
      BY <1>12
    <3>2. QED BY <3>1, FS_EmptySet
  <2>6. QED BY <1>10, <2>4, <2>5
<1>14. PICK cp : cp = CheckpointOf(g, L, F)
  OBVIOUS
<1>15. b.checkpoint = SignedIn(r, cp)
  BY <1>3, <1>10, <1>14 DEF ByRun
<1>16. /\ b.checkpoint.content.genesis = g /\ b.checkpoint.content.records = L
       /\ b.checkpoint.content.root = MerkleRoot(L) /\ b.checkpoint.content.f = F
       /\ b.checkpoint.content.answer = Answer(L, F)
  <2>1. b.checkpoint.content = cp
    BY <1>15, SignedIs
  <2>2. QED BY <1>14, <2>1 DEF CheckpointOf
<1>17. \A k \in 1 .. n : h[k].content.genesis = g /\ Signatures(h[k], Algorithms) = "true"
  <2> SUFFICES ASSUME NEW k \in 1 .. n
               PROVE  h[k].content.genesis = g /\ Signatures(h[k], Algorithms) = "true"
    OBVIOUS
  <2>1. h[k] \in ToSet(h)
    BY <1>2 DEF ToSet
  <2>2. PICK w \in Witness : h[k] \in ToSet(ch[w])
    BY <1>5, <2>1
  <2>3. h[k].content.genesis = g /\ h[k] = SignedIn(r, h[k].content)
    BY <1>8, <2>2
  <2>4. Signatures(SignedIn(r, h[k].content), Algorithms) = "true"
    BY SignedPasses
  <2>5. QED BY <2>3, <2>4
<1>18. AllSignatures(h, Algorithms) = "true"
  BY <1>2, <1>17 DEF AllSignatures
<1>19. Signatures(b.checkpoint, Algorithms) = "true"
  BY <1>15, SignedPasses
<1>20. ~Raises(b)
  <2>1. ~(Cardinality(L) < 3 * F + 1)
    BY <1>12, <1>13
  <2>2. QED BY <1>1, <1>11, <1>16, <2>1 DEF Raises
<1>21. \A x \in DOMAIN Checks(b, Algorithms) : Checks(b, Algorithms)[x] = "true"
  <2>1. b.genesis = g /\ Latest(b.history) = L /\ ChainsHold(b.history)
        /\ AllSignatures(b.history, Algorithms) = "true"
        /\ \A k \in DOMAIN b.history : b.history[k].content.genesis = g
    BY <1>1, <1>2, <1>3, <1>9, <1>11, <1>17, <1>18
  <2>2. PICK c : c = Checks(b, Algorithms)
    OBVIOUS
  <2>3. /\ c.PROTOCOL_GENESIS_BINDING = "true" /\ c.ALL_OBSERVATION_PQ_SIGNATURES = "true"
        /\ c.WITNESS_CHAINS = "true" /\ c.CHECKPOINT_LATEST_OBSERVATION_SET = "true"
        /\ c.MERKLE_ROOT = "true" /\ c.CONSENSUS_RULE = "true"
        /\ c.CHECKPOINT_PQ_SIGNATURES = "true" /\ c.BITCOIN_RAW_STRUCTURE = "true"
    BY <1>13, <1>16, <1>19, <2>1, <2>2 DEF Checks, Of
  <2>4. DOMAIN c = {"PROTOCOL_GENESIS_BINDING", "ALL_OBSERVATION_PQ_SIGNATURES", "WITNESS_CHAINS",
                    "CHECKPOINT_LATEST_OBSERVATION_SET", "MERKLE_ROOT", "CONSENSUS_RULE",
                    "CHECKPOINT_PQ_SIGNATURES", "BITCOIN_RAW_STRUCTURE"}
    BY <2>2 DEF Checks
  <2>5. QED BY <2>2, <2>3, <2>4
<1>22. QED BY <1>20, <1>21 DEF Verdict

\* PublishedPasses (ctp/verify.py:7-72): what a run published passes in whatever order
\* its records are filed, and with the block that anchors it.
THEOREM PublishedAlwaysPasses == Spec => []PublishedPasses
<1>1. SignedInv => PublishedPasses
  <2> SUFFICES ASSUME SignedInv, bundle # << >>, NEW p \in published,
                      ToSet(b0.history) = ToSet(p.history), Len(b0.history) = Len(p.history),
                      b0.checkpoint = p.checkpoint, b0.genesis = p.genesis,
                      b0.block # << >> => /\ b0.block[1].parses /\ b0.block[1].sound
                                          /\ b0.block[1].payload = p.checkpoint
               PROVE  Verdict(b0, Algorithms) =
                        IF b0.block # << >> /\ b0.block[1].work THEN "PASS" ELSE "PASS_PRE_POW"
    BY Zenon DEF PublishedPasses
  <2>1. PICK b : b = b0
    OBVIOUS
  <2>2. \E T : b.history \in Seq(T)
    BY <2>1 DEF SignedInv, IsBundle, History
  <2>3. Cardinality(Witness) >= 3 * F + 1
    BY DEF SignedInv, PublishedInv
  <2>4. PICK r, ch : ByRun(p, r, ch)
    BY DEF SignedInv, PublishedInv
  <2>5. /\ ToSet(b.history) = ToSet(p.history) /\ Len(b.history) = Len(p.history)
        /\ b.checkpoint = p.checkpoint /\ b.genesis = p.genesis
        /\ b.block # << >> => b.block[1].parses /\ b.block[1].sound /\ b.block[1].payload = p.checkpoint
    BY <2>1
  <2>6. Verdict(b, Algorithms) = IF b.block # << >> /\ b.block[1].work THEN "PASS" ELSE "PASS_PRE_POW"
    BY <2>2, <2>3, <2>4, <2>5, RunPasses, Zenon
  <2>7. QED BY <2>1, <2>6
<1>2. QED BY <1>1, SignedAlways, PTL
===============================================================================
