------------------------ MODULE SandwichVerdictProofs ------------------------
(***************************************************************************)
(* Proofs about verify_sandwich() for every set of blobs and observations  *)
(* and every bundle made of them.  The invariant is what block C fixes:    *)
(* the history, and with it that no blob it cites was made after C.        *)
(***************************************************************************)
EXTENDS SandwichVerdict, FiniteSetTheorems, TLAPS

Bundles ==
    [evidence : Seq(Blobs), history : Seq(Observations), framed : BOOLEAN,
     core : {"true", "false", "UNAVAILABLE"}, linked : BOOLEAN, chained : BOOLEAN,
     burial : Nat, agreed : BOOLEAN, expected : BOOLEAN]

Typed ==
    /\ bundle \in Bundles
    /\ ext \in {"absent", "answers", "declines", "raises"}
    /\ appended \in 0..MaxAppended
    /\ Len(bundle.evidence) <= MaxEvidence + appended

Committed == \A x \in CitedBlobs : x.made <= 1

IInv == Typed /\ Committed

-------------------------------------------------------------------------------
\* What a pass rules out: each check that bears on the evidence held.
LEMMA PassMeans ==
    ASSUME NEW b, NEW e, Verdict(b, e) \in Passing
    PROVE  /\ Bound(b) /\ Echoed(b) /\ Counted(b)
           /\ \A k \in DOMAIN b.history : Fits(b, b.history[k])
           /\ ~ExtensionFailed(b, e) /\ ~Unchecked(b, e)
<1> DEFINE fit == Measured(b)
<1>1. "false" \notin Results(b, e) /\ "NOT_CHECKED" \notin Results(b, e)
  BY DEF Verdict, Passing
<1>2. /\ Of(Bound(b)) # "false" /\ Of(Echoed(b)) # "false" /\ Of(fit) # "false"
      /\ Of(~ExtensionFailed(b, e)) # "false"
      /\ (IF Unchecked(b, e) THEN "NOT_CHECKED" ELSE "true") # "NOT_CHECKED"
  BY <1>1, Zenon DEF Results
<1> HIDE DEF fit
<1>3. Bound(b) /\ Echoed(b) /\ fit /\ ~ExtensionFailed(b, e) /\ ~Unchecked(b, e)
  BY <1>2 DEF Of
<1>4. QED BY <1>3 DEF fit, Measured

\* A sequence cites finitely many blobs.
LEMMA CitesFinite ==
    ASSUME NEW u \in Observations
    PROVE  IsFiniteSet(Cited(u))
<1>1. u.cites \in Seq(Blobs)
  BY TypeAssumption
<1>2. DOMAIN u.cites = 1..Len(u.cites) /\ Len(u.cites) \in Nat
  BY <1>1
<1>3. u.cites \in Surjection(1..Len(u.cites), Range(u.cites))
  BY <1>1, <1>2 DEF Surjection, Range
<1>4. IsFiniteSet(1..Len(u.cites))
  BY <1>2, FS_Interval
<1>5. QED BY <1>3, <1>4, FS_Surjection DEF Cited

\* In a passing bundle a cited blob is one the verifier indexed or one of a
\* type it does not know; either way it is in the evidence, and verifies.
LEMMA CitedIsThere ==
    ASSUME IInv, Passes, NEW k \in DOMAIN bundle.history,
           NEW x \in Cited(bundle.history[k])
    PROVE  /\ x \in Range(bundle.evidence) /\ x.typ # "EXTERNAL" /\ x.bound /\ x.sound
           /\ x \in Foreign(bundle) => ext = "answers"
<1> DEFINE u == bundle.history[k]
<1>1. u \in Observations
  BY DEF IInv, Typed, Bundles
<1>2. /\ Bound(bundle) /\ Echoed(bundle) /\ Fits(bundle, u)
      /\ ~ExtensionFailed(bundle, ext) /\ ~Unchecked(bundle, ext)
  BY PassMeans DEF Passes, verdict
<1>3. CASE Extended(bundle, u)
  <2>1. Cardinality(Cited(u)) = 1
    BY <1>2, <1>3 DEF Fits
  <2>2. PICK y : Cited(u) = {y}
    BY <2>1, <1>1, CitesFinite, FS_Singleton
  <2>3. x \in Foreign(bundle)
    BY <2>2, <1>3 DEF Extended
  <2>4. k \in Asked(bundle)
    BY <1>2, <1>3 DEF Asked
  <2>5. ext = "answers"
    BY <1>2, <2>3, <2>4 DEF Unchecked, ExtensionFailed, IInv, Typed
  <2>6. x.sound
    BY <1>2, <2>4, <2>5 DEF ExtensionFailed
  <2>7. QED BY <1>2, <2>3, <2>5, <2>6 DEF Foreign, Bound
<1>4. CASE ~Extended(bundle, u)
  <2>1. x \in Indexed(bundle)
    BY <1>2, <1>4 DEF Fits
  <2>2. QED BY <1>2, <2>1 DEF Indexed, Foreign, Echoed, Bound
<1>5. QED BY <1>3, <1>4

-------------------------------------------------------------------------------
\* A function from 1..m into S is a sequence, over any set that includes S.
LEMMA SequencesAreSeqs ==
    ASSUME NEW S, NEW T, S \subseteq T, NEW n \in Nat, NEW s \in Sequences(S, n)
    PROVE  s \in Seq(T) /\ Len(s) <= n /\ Range(s) \subseteq S
<1>1. PICK m \in 0..n : s \in [1..m -> S]
  BY DEF Sequences
<1>2. m \in Nat /\ m <= n /\ s \in [1..m -> T]
  BY <1>1
<1>3. s \in Seq(T) /\ Len(s) = m
  BY <1>2
<1>4. Range(s) \subseteq S
  BY <1>1 DEF Range
<1>5. QED BY <1>2, <1>3, <1>4

LEMMA InitInvariant == Init => IInv
<1> SUFFICES ASSUME Init PROVE IInv
  OBVIOUS
<1> DEFINE Early == {x \in Blobs : x.made <= 1}
           Seen == {u \in Observations : \A x \in Cited(u) : x.made <= 1}
<1>1. PICK e \in Sequences(Early, MaxEvidence), h \in Sequences(Seen, MaxHistory),
           core \in {"true", "false", "UNAVAILABLE"}, framed \in BOOLEAN,
           agreed \in BOOLEAN : bundle = Assembled(e, h, core, framed, agreed)
  BY ZenonT(60) DEF Init
<1>2. Early \subseteq Blobs /\ Seen \subseteq Observations
  OBVIOUS
<1>3. MaxEvidence \in Nat /\ MaxHistory \in Nat /\ MaxAppended \in Nat
  BY MaxAssumption
<1>4. e \in Seq(Blobs) /\ Len(e) <= MaxEvidence
  <2> HIDE DEF Early
  <2>1. QED BY <1>2, <1>3, SequencesAreSeqs
<1>5. h \in Seq(Observations) /\ Range(h) \subseteq Seen
  <2> HIDE DEF Seen
  <2>1. QED BY <1>2, <1>3, SequencesAreSeqs
<1>6. Typed
  BY <1>1, <1>3, <1>4, <1>5 DEF Typed, Bundles, Init, Assembled
<1>7. Committed
  BY <1>1, <1>5 DEF Committed, CitedBlobs, Range, Assembled
<1>8. QED BY <1>6, <1>7 DEF IInv

\* No holder touches the history: what is appended goes to the evidence.
LEMMA AttachInvariant ==
    ASSUME IInv, NEW x \in Blobs, Attach(x)
    PROVE  IInv'
<1>1. bundle.evidence \in Seq(Blobs) /\ bundle \in Bundles
  BY DEF IInv, Typed, Bundles
<1>2. /\ Append(bundle.evidence, x) \in Seq(Blobs)
      /\ Len(Append(bundle.evidence, x)) = Len(bundle.evidence) + 1
  BY <1>1
<1>3. /\ bundle' \in Bundles /\ bundle'.history = bundle.history
      /\ bundle'.evidence = Append(bundle.evidence, x)
  BY <1>1, <1>2 DEF Attach, With, Bundles
<1>4. Typed'
  <2>1. MaxEvidence \in Nat /\ MaxAppended \in Nat /\ appended \in 0..MaxAppended
    BY MaxAssumption DEF IInv, Typed
  <2>2. Len(bundle.evidence) \in Nat
    BY <1>1
  <2>3. QED BY <1>2, <1>3, <2>1, <2>2 DEF Attach, IInv, Typed
<1>5. Committed'
  BY <1>3 DEF IInv, Committed, CitedBlobs
<1>6. QED BY <1>4, <1>5 DEF IInv

LEMMA NextInvariant == IInv /\ [Next]_vars => IInv'
<1> SUFFICES ASSUME IInv, [Next]_vars PROVE IInv'
  OBVIOUS
<1>1. CASE AppendUnknown \/ AppendExternal \/ AppendMeasured
  BY <1>1, AttachInvariant DEF AppendUnknown, AppendExternal, AppendMeasured
<1>2. CASE Bury
  <2>1. /\ bundle' \in Bundles /\ bundle'.history = bundle.history
        /\ bundle'.evidence = bundle.evidence
    BY <1>2 DEF Bury, IInv, Typed, Bundles
  <2>2. QED BY <1>2, <2>1 DEF Bury, IInv, Typed, Committed, CitedBlobs
<1>3. CASE Supply
  BY <1>3 DEF Supply, IInv, Typed, Committed, CitedBlobs
<1>4. CASE UNCHANGED vars
  BY <1>4 DEF vars, IInv, Typed, Committed, CitedBlobs
<1>5. QED BY <1>1, <1>2, <1>3, <1>4 DEF Next

\* The invariant holds however a bundle is passed on.
THEOREM Invariant == Spec => []IInv
<1>1. QED BY InitInvariant, NextInvariant, PTL DEF Spec

-------------------------------------------------------------------------------
\* A bundle stays a bundle, and always has one of the seven verdicts.
THEOREM TypeCorrectness == Spec => []TypeOK
<1>1. IInv => TypeOK
  <2> SUFFICES ASSUME IInv PROVE TypeOK
    OBVIOUS
  <2>1. Range(bundle.evidence) \subseteq Blobs
    BY DEF IInv, Typed, Bundles, Range
  <2>2. Range(bundle.history) \subseteq Observations
    BY DEF IInv, Typed, Bundles, Range
  <2>3. verdict \in Verdicts
    BY DEF verdict, Verdict, Verdicts, Passing
  <2>4. QED BY <2>1, <2>2, <2>3 DEF TypeOK, IInv, Typed
<1>2. QED BY <1>1, Invariant, PTL

\* Whatever is appended, a pass vouches for every cited blob: it is there,
\* verifies, and was made after B0 and before C.
THEOREM CitedInWindow == Spec => []CitedEvidenceInWindow
<1>1. IInv => CitedEvidenceInWindow
  <2> SUFFICES ASSUME IInv, Passes, NEW x \in CitedBlobs
               PROVE  x \in Range(bundle.evidence) /\ x.sound /\ x.made = 1
    BY DEF CitedEvidenceInWindow
  <2>1. PICK k \in DOMAIN bundle.history : x \in Cited(bundle.history[k])
    BY DEF CitedBlobs
  <2>2. x \in Range(bundle.evidence) /\ x.bound /\ x.sound
    BY <2>1, CitedIsThere
  <2>3. x \in Blobs
    BY <2>2 DEF IInv, Typed, Bundles, Range
  <2>4. x.made \in 0..2 /\ x.made >= 1
    BY <2>2, <2>3, BlobAssumption, TypeAssumption
  <2>5. x.made <= 1
    BY DEF IInv, Committed
  <2>6. QED BY <2>2, <2>4, <2>5
<1>2. QED BY <1>1, Invariant, PTL

\* Evidence of an unknown type passes only on an extension's answer.
THEOREM PassIsAnswered == Spec => []PassNeedsAnAnswer
<1>1. IInv => PassNeedsAnAnswer
  BY CitedIsThere DEF PassNeedsAnAnswer, CitedBlobs
<1>2. QED BY <1>1, Invariant, PTL

-------------------------------------------------------------------------------
\* The positions of a sequence of length n are n.
LEMMA UpTo == \A n \in Nat : IsFiniteSet(1..n) /\ Cardinality(1..n) = n
<1> TAKE n \in Nat
<1>1. 1 \in Int /\ n \in Int
  OBVIOUS
<1>2. IsFiniteSet(1..n) /\ Cardinality(1..n) = IF 1 > n THEN 0 ELSE n - 1 + 1
  BY <1>1, FS_Interval, Zenon
<1>3. QED BY <1>2

\* The counts are a pigeonhole: as many measured blobs as observations, and no
\* two observations on one blob, leave no blob without an observation.
LEMMA EveryMeasuredBlobCited ==
    ASSUME IInv, Passes, CitedOnce
    PROVE  \A x \in Range(bundle.evidence) : x.typ # "EXTERNAL" => x \in CitedBlobs
<1> DEFINE e == bundle.evidence
           h == bundle.history
           H == 1..Len(h)
           P == {i \in DOMAIN e : e[i].typ # "EXTERNAL"}
           CitedAt(k) == {i \in P : e[i] \in Cited(h[k])}
           f == [k \in H |-> CHOOSE i \in P : i \in CitedAt(k)]
<1>1. e \in Seq(Blobs) /\ h \in Seq(Observations)
  BY DEF IInv, Typed, Bundles
<1>2. Len(h) \in Nat /\ DOMAIN h = H /\ DOMAIN e = 1..Len(e) /\ Len(e) \in Nat
  BY <1>1
<1>3. IsFiniteSet(P) /\ IsFiniteSet(H) /\ Cardinality(H) = Len(h)
  <2>1. IsFiniteSet(1..Len(e)) /\ IsFiniteSet(H) /\ Cardinality(H) = Len(h)
    BY <1>2, UpTo
  <2>2. P \in SUBSET (1..Len(e))
    BY <1>2
  <2>3. QED BY <2>1, <2>2, FS_Subset
<1>4. Cardinality(P) = Cardinality(H)
  <2>1. Counted(bundle)
    BY PassMeans DEF Passes, verdict
  <2>2. QED BY <2>1, <1>3 DEF Counted, Measurable
<1>5. ASSUME NEW k \in H PROVE f[k] \in P /\ e[f[k]] \in Cited(h[k])
  <2>1. Len(h[k].cites) = 1 /\ h[k].cites \in Seq(Blobs)
    <3>1. h[k] \in Observations
      BY <1>1
    <3>2. h[k].cites \in Seq(Blobs)
      BY <3>1, TypeAssumption
    <3>3. Len(h[k].cites) = 1
      BY <1>2 DEF CitedOnce
    <3>4. QED BY <3>2, <3>3
  <2>2. PICK x : x \in Cited(h[k])
    <3>1. 1 \in DOMAIN h[k].cites
      BY <2>1
    <3>2. QED BY <3>1 DEF Cited, Range
  <2>3. x \in Range(e) /\ x.typ # "EXTERNAL"
    BY <1>2, <2>2, CitedIsThere
  <2>4. PICK i \in P : i \in CitedAt(k)
    BY <2>2, <2>3 DEF Range
  <2>5. f[k] \in CitedAt(k)
    BY <2>4
  <2>6. QED BY <2>5
<1>6. ASSUME NEW k \in H, NEW l \in H, f[k] = f[l] PROVE k = l
  <2>1. Cited(h[k]) \cap Cited(h[l]) # {}
    BY <1>5, <1>6
  <2>2. QED BY <1>2, <2>1 DEF CitedOnce
<1> HIDE DEF f
<1>7. f \in Injection(H, P)
  <2>1. f \in [H -> P]
    <3>1. f = [k \in H |-> f[k]]
      BY DEF f
    <3>2. QED BY <3>1, <1>5
  <2>2. QED BY <2>1, <1>6 DEF Injection, IsInjective
<1>8. f \in Surjection(H, P)
  BY <1>3, <1>4, <1>7, FS_Injection
<1>9. ASSUME NEW x \in Range(e), x.typ # "EXTERNAL" PROVE x \in CitedBlobs
  <2>1. PICK i \in P : x = e[i]
    BY <1>9 DEF Range
  <2>2. PICK k \in H : f[k] = i
    BY <1>8 DEF Surjection
  <2>3. x \in Cited(h[k])
    BY <2>1, <2>2, <1>5
  <2>4. QED BY <2>3, <1>2 DEF CitedBlobs
<1>10. QED BY <1>9

\* Where no blob is cited twice, nothing in a passing bundle is spare.
THEOREM NoneSpare == Spec => []NothingSpare
<1>1. IInv => NothingSpare
  BY EveryMeasuredBlobCited DEF NothingSpare
<1>2. QED BY <1>1, Invariant, PTL

-------------------------------------------------------------------------------
\* Until a holder appends to it, a bundle holds what was there before C.
Early == appended = 0 => \A x \in Range(bundle.evidence) : x.made <= 1

LEMMA EarlyInit == Init => Early
<1> SUFFICES ASSUME Init PROVE Early
  OBVIOUS
<1> DEFINE Before == {x \in Blobs : x.made <= 1}
<1>1. bundle.evidence \in Sequences(Before, MaxEvidence)
  BY DEF Init, Assembled
<1>2. \A x \in Before : x.made <= 1
  OBVIOUS
<1> HIDE DEF Before
<1>3. Range(bundle.evidence) \subseteq Before
  BY <1>1, MaxAssumption, SequencesAreSeqs
<1>4. QED BY <1>2, <1>3 DEF Early

LEMMA EarlyStep == IInv /\ Early /\ [Next]_vars => Early'
<1> SUFFICES ASSUME IInv, Early, [Next]_vars PROVE Early'
  OBVIOUS
<1>1. appended \in Nat
  BY MaxAssumption DEF IInv, Typed
<1>2. ASSUME NEW x \in Blobs, Attach(x) PROVE Early'
  BY <1>1, <1>2 DEF Attach, Early
<1>3. CASE AppendUnknown \/ AppendExternal \/ AppendMeasured
  BY <1>2, <1>3 DEF AppendUnknown, AppendExternal, AppendMeasured
<1>4. CASE Bury
  <2>1. bundle'.evidence = bundle.evidence /\ appended' = appended
    BY <1>4 DEF Bury, IInv, Typed, Bundles
  <2>2. QED BY <2>1 DEF Early
<1>5. CASE Supply \/ UNCHANGED vars
  BY <1>5 DEF Supply, vars, Early
<1>6. QED BY <1>3, <1>4, <1>5 DEF Next

\* What BOUND is worth, for any records and blobs: after B0 always, before C as
\* long as nothing has been appended.
THEOREM BoundIsWorth == Spec => []BoundUnlessAppended
<1>1. IInv /\ Early => BoundUnlessAppended
  <2> SUFFICES ASSUME IInv, Early, NEW r \in Records, Binding(bundle, r) = "BOUND"
               PROVE  r.made >= 1 /\ (appended = 0 => r.made = 1)
    BY DEF BoundUnlessAppended
  <2>1. Lower(r) /\ Upper(bundle, r)
    BY DEF Binding
  <2>2. r.made \in 0..2 /\ r.made >= 1
    BY <2>1, BlobAssumption, TypeAssumption DEF Lower
  <2>3. PICK x \in Range(bundle.evidence) : x.typ = "EXTERNAL" /\ x.id = r.id
    BY <2>1 DEF Upper
  <2>4. x \in Blobs
    BY DEF IInv, Typed, Bundles, Range
  <2>5. x.made \in 0..2 /\ x.made >= r.made
    BY <2>3, <2>4, BlobAssumption, TypeAssumption
  <2>6. appended = 0 => x.made <= 1
    BY DEF Early
  <2>7. QED BY <2>2, <2>5, <2>6
<1>2. QED BY <1>1, Invariant, EarlyInit, EarlyStep, PTL DEF Spec

-------------------------------------------------------------------------------
\* A bundle whose results are those of a passing one, or "true", passes too.
LEMMA NoWorse ==
    ASSUME NEW b, NEW c, NEW e, Verdict(c, e) \in Passing,
           Results(b, e) \subseteq Results(c, e) \cup {"true"}
    PROVE  Verdict(b, e) \in Passing
<1>1. {"UNAVAILABLE", "false", "NOT_CHECKED"} \cap Results(c, e) = {}
  BY DEF Verdict, Passing
<1>2. {"UNAVAILABLE", "false", "NOT_CHECKED"} \cap Results(b, e) = {}
  BY <1>1
<1>3. QED BY <1>2 DEF Verdict, Passing

\* A record of another system takes part in no index and in no count.
LEMMA ExternalCountsNothing ==
    ASSUME NEW b \in Bundles, NEW x \in Blobs, x.typ = "EXTERNAL",
           NEW c \in Bundles, c = [b EXCEPT !.evidence = Append(b.evidence, x)]
    PROVE  /\ Range(c.evidence) = Range(b.evidence) \cup {x}
           /\ Foreign(c) = Foreign(b) /\ Indexed(c) = Indexed(b)
           /\ Measurable(c) = Measurable(b)
<1> DEFINE measured(s) == {i \in DOMAIN s : s[i].typ # "EXTERNAL"}
<1>1. b.evidence \in Seq(Blobs) /\ c.evidence = Append(b.evidence, x)
  BY DEF Bundles
<1>2. /\ DOMAIN c.evidence = DOMAIN b.evidence \cup {Len(b.evidence) + 1}
      /\ Len(b.evidence) + 1 \notin DOMAIN b.evidence
      /\ \A i \in DOMAIN b.evidence : c.evidence[i] = b.evidence[i]
      /\ c.evidence[Len(b.evidence) + 1] = x
  BY <1>1
<1>3. Range(c.evidence) = Range(b.evidence) \cup {x}
  BY <1>2 DEF Range
<1>4. Foreign(c) = Foreign(b) /\ Indexed(c) = Indexed(b)
  BY <1>3 DEF Foreign, Indexed
<1>5. measured(c.evidence) = measured(b.evidence)
  BY <1>2
<1>6. Measurable(c) = Measurable(b)
  BY <1>5 DEF Measurable
<1>7. QED BY <1>3, <1>4, <1>6

\* So the other checks of a bundle with one record more are those of the bundle.
LEMMA ExternalIsNoExcuse ==
    ASSUME NEW b \in Bundles, NEW x \in Blobs, x.typ = "EXTERNAL", NEW e,
           NEW c \in Bundles, c = [b EXCEPT !.evidence = Append(b.evidence, x)],
           Verdict(c, e) \in Passing
    PROVE  Verdict(b, e) \in Passing
<1> DEFINE fit(d) == Measured(d)
<1>1. /\ c.history = b.history /\ c.core = b.core /\ c.linked = b.linked
      /\ c.framed = b.framed /\ c.chained = b.chained /\ c.agreed = b.agreed /\ c.expected = b.expected
  BY DEF Bundles
<1>2. \A u : Extended(c, u) <=> Extended(b, u)
  BY ExternalCountsNothing DEF Extended
<1>3. \A u : Fits(c, u) <=> Fits(b, u)
  BY <1>2, ExternalCountsNothing DEF Fits
<1>4. \A u : Found(c, u) = Found(b, u)
  BY <1>2, <1>3, ExternalCountsNothing DEF Found
<1>5. Matched(c) = Matched(b)
  <2>1. UNION {{k} \X Found(c, c.history[k]) : k \in DOMAIN c.history} =
          UNION {{k} \X Found(b, b.history[k]) : k \in DOMAIN b.history}
    <3> DEFINE h == b.history
               A(k) == {k} \X Found(c, h[k])
               B(k) == {k} \X Found(b, h[k])
    <3>1. \A k : A(k) = B(k)
      BY <1>4
    <3> HIDE DEF A, B
    <3>2. UNION {A(k) : k \in DOMAIN h} = UNION {B(k) : k \in DOMAIN h}
      BY <3>1
    <3>3. QED BY <1>1, <3>2 DEF A, B
  <2>2. QED BY <2>1 DEF Matched
<1>6. fit(c) <=> fit(b)
  BY <1>1, <1>3, <1>5, ExternalCountsNothing DEF Measured, Counted
<1>7. Asked(c) = Asked(b)
  BY <1>1, <1>2, <1>3 DEF Asked
<1>8. ExtensionFailed(c, e) <=> ExtensionFailed(b, e)
  BY <1>1, <1>7 DEF ExtensionFailed
<1>9. Unchecked(c, e) <=> Unchecked(b, e)
  BY <1>7, ExternalCountsNothing DEF Unchecked
<1>10. Echoed(c) <=> Echoed(b)
  BY ExternalCountsNothing DEF Echoed
<1>11. Bound(c) => Bound(b)
  <2>1. Range(b.evidence) \subseteq Range(c.evidence)
    <3>1. Range(c.evidence) = Range(b.evidence) \cup {x}
      BY ExternalCountsNothing
    <3>2. QED BY <3>1, Zenon
  <2>2. QED BY <2>1 DEF Bound
<1>12. Tagged(c) => Tagged(b)
  <2>1. Range(b.evidence) \subseteq Range(c.evidence)
    <3>1. Range(c.evidence) = Range(b.evidence) \cup {x}
      BY ExternalCountsNothing
    <3>2. QED BY <3>1, Zenon
  <2>2. QED BY <2>1 DEF Tagged
<1>13. Of(Bound(b)) \in {Of(Bound(c)), "true"} /\ Of(Tagged(b)) \in {Of(Tagged(c)), "true"}
  BY <1>11, <1>12 DEF Of
<1>14. /\ Of(Echoed(b)) = Of(Echoed(c)) /\ Of(fit(b)) = Of(fit(c))
       /\ Of(~ExtensionFailed(b, e)) = Of(~ExtensionFailed(c, e))
       /\ (IF Unchecked(b, e) THEN "NOT_CHECKED" ELSE "true") =
            (IF Unchecked(c, e) THEN "NOT_CHECKED" ELSE "true")
  BY <1>6, <1>8, <1>9, <1>10 DEF Of
<1>15. \A d, v : v \in Results(d, e) <=>
          \/ v = d.core \/ v = Of(Bound(d)) \/ v = Of(Echoed(d)) \/ v = Of(Tagged(d))
          \/ v = Of(fit(d)) \/ v = Of(~ExtensionFailed(d, e))
          \/ v = (IF Unchecked(d, e) THEN "NOT_CHECKED" ELSE "true")
          \/ v = Of(d.linked) \/ v = Of(d.chained)
          \/ v = (IF d.agreed THEN Of(d.expected) ELSE "NOT_APPLICABLE")
  BY DEF Results
<1> HIDE DEF fit
<1>16. \A v : v \in Results(b, e) => v \in Results(c, e) \cup {"true"}
  <2> TAKE v
  <2> HAVE v \in Results(b, e)
  <2>1. /\ b.core = c.core /\ Of(b.linked) = Of(c.linked) /\ Of(b.chained) = Of(c.chained)
        /\ (IF b.agreed THEN Of(b.expected) ELSE "NOT_APPLICABLE") =
             (IF c.agreed THEN Of(c.expected) ELSE "NOT_APPLICABLE")
    BY <1>1
  <2>2. \/ v = b.core \/ v = Of(Bound(b)) \/ v = Of(Echoed(b)) \/ v = Of(Tagged(b))
        \/ v = Of(fit(b)) \/ v = Of(~ExtensionFailed(b, e))
        \/ v = (IF Unchecked(b, e) THEN "NOT_CHECKED" ELSE "true")
        \/ v = Of(b.linked) \/ v = Of(b.chained)
        \/ v = (IF b.agreed THEN Of(b.expected) ELSE "NOT_APPLICABLE")
    BY <1>15, Zenon
  <2>3. \/ v = c.core \/ v = Of(Bound(c)) \/ v = Of(Echoed(c)) \/ v = Of(Tagged(c))
        \/ v = Of(fit(c)) \/ v = Of(~ExtensionFailed(c, e))
        \/ v = (IF Unchecked(c, e) THEN "NOT_CHECKED" ELSE "true")
        \/ v = Of(c.linked) \/ v = Of(c.chained)
        \/ v = (IF c.agreed THEN Of(c.expected) ELSE "NOT_APPLICABLE")
        \/ v = "true"
    <3>1. v = Of(Bound(b)) => v = Of(Bound(c)) \/ v = "true"
      BY <1>13
    <3>2. v = Of(Tagged(b)) => v = Of(Tagged(c)) \/ v = "true"
      BY <1>13
    <3>3. QED BY <1>14, <2>1, <2>2, <3>1, <3>2, Zenon
  <2>4. QED BY <1>15, <2>3, Zenon
<1>17. QED BY <1>16, NoWorse

\* Nothing a verifier does not measure can be appended to make a bundle pass: an
\* external record is counted nowhere and is only one more blob to check, and a blob
\* nobody knows leaves the verdict undecided.
THEOREM NoHelpFromOutside == Spec => AppendedNeverHelps
<1>1. ASSUME IInv, IInv', AppendExternal, Passes' PROVE Passes
  <2>1. PICK x \in Blobs : x.typ = "EXTERNAL" /\ Attach(x)
    BY <1>1 DEF AppendExternal
  <2>2. bundle \in Bundles /\ bundle' \in Bundles
    BY <1>1 DEF IInv, Typed, Bundles
  <2>3. bundle' = [bundle EXCEPT !.evidence = Append(bundle.evidence, x)] /\ ext' = ext
    BY <2>1 DEF Attach, With
  <2>4. Verdict(bundle', ext) \in Passing
    BY <1>1, <2>3 DEF Passes, verdict
  <2>5. QED BY <2>1, <2>2, <2>3, <2>4, ExternalIsNoExcuse DEF Passes, verdict
<1>2. ASSUME IInv, AppendUnknown, ext = "absent" PROVE ~Passes'
  <2>1. PICK x \in Blobs : x.typ = "OTHER" /\ Attach(x)
    BY <1>2 DEF AppendUnknown
  <2>2. bundle'.evidence = Append(bundle.evidence, x) /\ bundle.evidence \in Seq(Blobs)
    BY <1>2, <2>1 DEF Attach, With, IInv, Typed, Bundles
  <2>3. x \in Range(bundle'.evidence)
    <3>1. /\ Len(bundle.evidence) + 1 \in DOMAIN bundle'.evidence
          /\ bundle'.evidence[Len(bundle.evidence) + 1] = x
      BY <2>2
    <3>2. QED BY <3>1 DEF Range
  <2>4. Unchecked(bundle', "absent")
    BY <2>1, <2>3 DEF Unchecked, Foreign
  <2>5. ext' = "absent"
    BY <1>2, <2>1 DEF Attach
  <2>6. ~(Verdict(bundle', "absent") \in Passing)
    BY <2>4, PassMeans
  <2>7. QED BY <2>5, <2>6 DEF Passes, verdict
<1>3. IInv /\ IInv' =>
        [AppendExternal \/ (AppendUnknown /\ ext = "absent") => (Passes' => Passes)]_vars
  BY <1>1, <1>2
<1>4. QED BY <1>3, Invariant, PTL DEF AppendedNeverHelps
===============================================================================
