----------------------------- MODULE RaceProofs -----------------------------
(***************************************************************************)
(* Proofs about live/race.sh at its two scales.  The mining round, for any *)
(* number of nonces and miners: what the header that leaves the loop is,   *)
(* and what it means that every miner reports NOT_FOUND.  The loop of      *)
(* rounds, for any numbers of rounds, rival blocks and failures: success   *)
(* is announced only when our block is the tip, and every copy too many of *)
(* the anchor on it, and every round lost, has a cause of its own.         *)
(***************************************************************************)
EXTENDS NativeMiners, AnchorRace, FiniteSetTheorems, TLAPS

\* The mining round.
MinersTypes ==
    /\ k \in [Core -> Nat]
    /\ proc \in [Core -> {"running", "flushed", "dead"}]
    /\ file \in [Core -> Nonce \cup {Empty, NotFound}]
    /\ shell \in {"grep", "kill -0", "found", "exhausted"}

\* What miner i has left behind it, and what its file says of it.
MinerInv(i) ==
    /\ \A d \in 0 .. k[i] - 1 : Start(i) + d \notin solutions
    /\ proc[i] = "running" => file[i] = Empty
    /\ file[i] \in Nonce => file[i] \in solutions /\ file[i] = Start(i) + k[i]
    /\ file[i] = NotFound => ~InRange(i)
    /\ k[i] <= Span

\* The shell has killed every miner before it leaves the loop with a header, so
\* the header goes on being where its miner stopped.
HeaderInv ==
    shell = "found" =>
        \E i \in Core : proc[i] = "dead" /\ header = file[i] /\ file[i] \in Nonce

MinersInv == MinersTypes /\ HeaderInv /\ \A i \in Core : MinerInv(i)

LEMMA SpanIsNatural == Span \in Nat /\ \A i \in Core : Start(i) \in Nat
<1>1. Span \in Nat
  BY SizeAssumption DEF Span
<1>2. QED BY <1>1, SizeAssumption DEF Core, Start

LEMMA MinersInvInit == MinersInit => MinersInv
<1> SUFFICES ASSUME MinersInit PROVE MinersInv
  OBVIOUS
<1>1. MinersTypes /\ HeaderInv
  BY DEF MinersInit, MinersTypes, HeaderInv
<1>2. ASSUME NEW i \in Core PROVE MinerInv(i)
  BY SpanIsNatural DEF MinersInit, MinerInv, Empty, NotFound, Nonce
<1>3. QED BY <1>1, <1>2 DEF MinersInv

\* What is known of a miner that runs, before it takes a step.
LEMMA Running ==
    ASSUME MinersInv, NEW i \in Core
    PROVE  /\ k[i] \in Nat /\ Start(i) \in Nat /\ NonceCount \in Nat /\ MinerInv(i)
           /\ proc[i] = "running" => file[i] = Empty
           /\ shell = "found" => \E j \in Core : proc[j] = "dead" /\ header = file[j]
                                                 /\ file[j] \in Nonce
BY SpanIsNatural, SizeAssumption DEF MinersInv, MinersTypes, MinerInv, HeaderInv

\* A miner whose file, state and offset a step leaves alone keeps what it has.
LEMMA Frame ==
    ASSUME NEW j \in Core, MinerInv(j), solutions' = solutions,
           k'[j] = k[j], proc'[j] = proc[j] \/ proc'[j] # "running", file'[j] = file[j]
    PROVE  MinerInv(j)'
<1>1. Start(j)' = Start(j) /\ Span' = Span
  BY DEF Start
<1>2. InRange(j)' <=> InRange(j)
  BY <1>1 DEF InRange
<1>3. QED BY <1>2 DEF MinerInv, Nonce, NotFound, Empty, Start

\* One miner's step leaves the others alone.
LEMMA MinerStep ==
    ASSUME MinersInv, NEW i \in Core, Miner(i)
    PROVE  MinersInv'
<1>1. /\ k[i] \in Nat /\ Start(i) \in Nat /\ NonceCount \in Nat /\ MinerInv(i)
      /\ proc[i] = "running" => file[i] = Empty
  BY Running
<1>2. MinersTypes /\ HeaderInv /\ \A j \in Core : MinerInv(j)
  BY DEF MinersInv
<1>3. CASE Miss(i)
  <2>1. /\ proc' = proc /\ file' = file /\ solutions' = solutions /\ shell' = shell
        /\ header' = header
    BY <1>3 DEF Miss
  <2>2. /\ k' = [k EXCEPT ![i] = k[i] + 1]
        /\ proc[i] = "running" /\ Start(i) + k[i] \notin solutions
    BY <1>3 DEF Miss
  <2>3. MinersTypes'
    <3>1. k[i] + 1 \in Nat
      BY <1>1
    <3>2. k' \in [Core -> Nat]
      BY <3>1, <2>2, <1>2 DEF MinersTypes
    <3>3. QED BY <3>2, <2>1, <1>2 DEF MinersTypes
  <2>4. HeaderInv'
    BY <2>1, <1>2 DEF HeaderInv
  <2>5. ASSUME NEW j \in Core PROVE MinerInv(j)'
    <3>1. CASE j = i
      <4>1. k'[i] = k[i] + 1
        BY <2>2, <1>2 DEF MinersTypes
      <4>2. file'[i] = Empty
        BY <1>1, <2>1, <2>2
      <4>3. ASSUME NEW d \in 0 .. k'[i] - 1 PROVE Start(i) + d \notin solutions
        <5>1. d \in 0 .. k[i] - 1 \/ d = k[i]
          BY <4>1, <1>1
        <5>2. QED BY <5>1, <1>1, <2>2 DEF MinerInv
      <4>4. file'[i] \notin Nonce /\ file'[i] # NotFound
        BY <4>2, <1>1 DEF Empty, NotFound, Nonce
      <4>5. k'[i] <= Span
        BY <4>1, <1>1, <1>3, SpanIsNatural DEF Miss, InRange
      <4>6. QED
        BY <3>1, <2>1, <4>2, <4>3, <4>4, <4>5 DEF MinerInv, Start, Span, Nonce, Empty, NotFound
    <3>2. CASE j # i
      BY <3>2, <2>1, <2>2, <1>2, Frame DEF MinersTypes
    <3>3. QED BY <3>1, <3>2
  <2>6. QED BY <2>3, <2>4, <2>5 DEF MinersInv
<1>4. CASE Hit(i)
  <2>1. /\ file' = [file EXCEPT ![i] = Start(i) + k[i]]
        /\ proc' = [proc EXCEPT ![i] = "flushed"]
        /\ UNCHANGED <<solutions, k, shell, header>>
    BY <1>4 DEF Hit
  <2>2. proc[i] = "running" /\ Start(i) + k[i] \in solutions
    BY <1>4 DEF Hit
  <2>3. Start(i) + k[i] \in Nonce
    <3>1. Start(i) + k[i] <= NonceCount - 1
      BY <1>4 DEF Hit, InRange
    <3>2. QED BY <3>1, <1>1 DEF Nonce
  <2>4. MinersTypes'
    BY <2>1, <2>3, <1>2 DEF MinersTypes, Nonce
  <2>5. HeaderInv'
    BY <2>1, <2>2, <1>2 DEF HeaderInv, MinersTypes, Nonce
  <2>6. ASSUME NEW j \in Core PROVE MinerInv(j)'
    <3>1. CASE j = i
      <4>1. /\ file'[i] = Start(i) + k[i] /\ proc'[i] = "flushed"
            /\ k'[i] = k[i] /\ solutions' = solutions
        BY <2>1, <1>2 DEF MinersTypes
      <4>2. file'[i] \in solutions' /\ file'[i] # NotFound
        BY <4>1, <2>2, <2>3, <1>1 DEF Nonce, NotFound
      <4>3. QED BY <3>1, <4>1, <4>2, <1>1 DEF MinerInv, Start, NotFound, Nonce
    <3>2. CASE j # i
      BY <3>2, <2>1, <1>2, Frame DEF MinersTypes
    <3>3. QED BY <3>1, <3>2
  <2>7. QED BY <2>4, <2>5, <2>6 DEF MinersInv
<1>5. CASE Exhaust(i)
  <2>1. /\ file' = [file EXCEPT ![i] = NotFound]
        /\ proc' = [proc EXCEPT ![i] = "flushed"]
        /\ UNCHANGED <<solutions, k, shell, header>>
    BY <1>5 DEF Exhaust
  <2>2. proc[i] = "running" /\ ~InRange(i)
    BY <1>5 DEF Exhaust
  <2>3. MinersTypes'
    BY <2>1, <1>2 DEF MinersTypes, Nonce
  <2>4. HeaderInv'
    BY <2>1, <2>2, <1>2 DEF HeaderInv, MinersTypes, Nonce
  <2>5. ASSUME NEW j \in Core PROVE MinerInv(j)'
    <3>1. CASE j = i
      <4>1. /\ file'[i] = NotFound /\ proc'[i] = "flushed"
            /\ k' = k /\ solutions' = solutions
        BY <2>1, <1>2 DEF MinersTypes
      <4>2. file'[i] \notin Nonce /\ ~InRange(i)'
        BY <4>1, <2>2, <1>1 DEF Nonce, NotFound, InRange, Start
      <4>3. QED BY <3>1, <4>1, <4>2, <1>1 DEF MinerInv, Start, Nonce, NotFound
    <3>2. CASE j # i
      BY <3>2, <2>1, <1>2, Frame DEF MinersTypes
    <3>3. QED BY <3>1, <3>2
  <2>6. QED BY <2>3, <2>4, <2>5 DEF MinersInv
<1>6. CASE Exit(i)
  <2>1. /\ proc' = [proc EXCEPT ![i] = "dead"] /\ proc[i] = "flushed"
        /\ UNCHANGED <<solutions, k, file, shell, header>>
    BY <1>6 DEF Exit
  <2>2. MinersTypes' /\ HeaderInv'
    BY <2>1, <1>2 DEF MinersTypes, HeaderInv, Nonce
  <2>3. ASSUME NEW j \in Core PROVE MinerInv(j)'
    BY <2>1, <1>2, Frame DEF MinersTypes
  <2>4. QED BY <2>2, <2>3 DEF MinersInv
<1>7. QED BY <1>3, <1>4, <1>5, <1>6 DEF Miner

LEMMA MinersInvStep == MinersInv /\ [MinersNext]_minersVars => MinersInv'
<1> SUFFICES ASSUME MinersInv, [MinersNext]_minersVars PROVE MinersInv'
  OBVIOUS
<1> USE DEF MinersInv, MinersTypes, HeaderInv
<1>1. CASE GrepFound
  <2>1. /\ shell' = "found" /\ proc' = [i \in Core |-> "dead"]
        /\ UNCHANGED <<solutions, k, file>>
    BY <1>1 DEF GrepFound
  <2>2. \E i \in Core : header' = file[i] /\ file[i] \in Nonce
    BY <1>1 DEF GrepFound, Printed
  <2>3. ASSUME NEW j \in Core PROVE MinerInv(j)'
    BY <2>1 DEF MinerInv, InRange, Start
  <2>4. QED BY <2>1, <2>2, <2>3
<1>2. CASE GrepNothing \/ LookAlive
  <2>1. shell' \in {"kill -0", "grep", "exhausted"} /\ UNCHANGED <<solutions, k, proc, file, header>>
    BY <1>2 DEF GrepNothing, LookAlive
  <2>2. ASSUME NEW j \in Core PROVE MinerInv(j)'
    BY <2>1 DEF MinerInv, InRange, Start
  <2>3. QED BY <2>1, <2>2
<1>3. ASSUME NEW i \in Core, Miner(i) PROVE MinersInv'
  BY <1>3, MinerStep
<1>4. CASE UNCHANGED minersVars
  <2>1. ASSUME NEW j \in Core PROVE MinerInv(j)'
    BY <1>4 DEF MinerInv, InRange, Start, minersVars
  <2>2. QED BY <1>4, <2>1 DEF minersVars
<1>5. QED BY <1>1, <1>2, <1>3, <1>4 DEF MinersNext, Shell

LEMMA MinersAlways == MinersSpec => []MinersInv
BY MinersInvInit, MinersInvStep, PTL DEF MinersSpec

\* race.sh:50-58: whatever the order in which miners hit, flush and exit, the header
\* handed on meets the target and is the first solution of the span it is from.
THEOREM HeaderHits == MinersSpec => []HeaderIsFirstHit
<1>1. MinersInv => HeaderIsFirstHit
  <2> SUFFICES ASSUME MinersInv, shell = "found"
               PROVE  /\ header \in solutions
                      /\ \E i \in Core : header = Start(i) + k[i]
                                         /\ Scanned(i) \cap solutions = {}
    BY DEF HeaderIsFirstHit
  <2>1. PICK i \in Core : header = file[i] /\ file[i] \in Nonce
    BY DEF MinersInv, HeaderInv
  <2>2. MinerInv(i)
    BY DEF MinersInv
  <2>3. header \in solutions /\ header = Start(i) + k[i]
    BY <2>1, <2>2 DEF MinerInv
  <2>4. Scanned(i) \cap solutions = {}
    BY <2>2 DEF MinerInv, Scanned
  <2>5. QED BY <2>3, <2>4
<1>2. QED BY <1>1, MinersAlways, PTL

-------------------------------------------------------------------------------
\* No miner's span reaches past the nonce space.
LEMMA SpansFit ==
    /\ Span \in Nat /\ Cores \in Nat /\ NonceCount \in Nat
    /\ Cores * Span <= NonceCount /\ NonceCount - Cores * Span < Cores
    /\ \A i \in Core : i \in Nat /\ Start(i) \in Nat /\ Start(i) + Span <= Cores * Span
<1>1. Span \in Nat /\ Cores \in Nat \ {0} /\ NonceCount \in Nat
  BY SpanIsNatural, SizeAssumption
<1>2. Cores * Span \in Nat /\ Cores * Span <= NonceCount /\ NonceCount - Cores * Span < Cores
  <2> DEFINE rest == NonceCount % Cores
             total == Cores * Span
  <2>1. rest \in 0 .. Cores - 1 /\ NonceCount = (NonceCount \div Cores) * Cores + rest
    BY <1>1
  <2>2. total \in Nat /\ total = (NonceCount \div Cores) * Cores
    BY <1>1 DEF Span
  <2> HIDE DEF rest, total
  <2>3. total <= NonceCount /\ NonceCount - total < Cores
    BY <1>1, <2>1, <2>2
  <2>4. QED BY <2>2, <2>3 DEF total
<1>3. ASSUME NEW i \in Core
      PROVE  i \in Nat /\ Start(i) \in Nat /\ Start(i) + Span <= Cores * Span
  <2>1. i \in Nat /\ i + 1 <= Cores
    BY <1>1 DEF Core
  <2>2. (i + 1) * Span <= Cores * Span /\ (i + 1) * Span = i * Span + Span
    BY <1>1, <2>1
  <2>3. QED BY <2>1, <2>2, SpanIsNatural DEF Start
<1>4. QED BY <1>1, <1>2, <1>3

\* A later miner starts where the span of an earlier one has ended.
LEMMA SpansApart ==
    ASSUME NEW i \in Core, NEW j \in Core, i < j
    PROVE  Start(i) + Span <= Start(j)
<1>1. i \in Nat /\ j \in Nat /\ Span \in Nat /\ i + 1 <= j
  BY SpansFit
<1>2. (i + 1) * Span <= j * Span /\ (i + 1) * Span = i * Span + Span
  BY <1>1
<1>3. QED BY <1>2 DEF Start

\* The span of the miner that a nonce divided by the span names holds that nonce.
LEMMA SpansCover ==
    ASSUME NEW n \in 0 .. Cores * Span - 1
    PROVE  \E i \in Core : \E d \in 0 .. Span - 1 : n = Start(i) + d
<1>1. Span \in Nat /\ Cores \in Nat /\ Cores * Span \in Nat
  BY SpansFit
<1>2. Span # 0 /\ n \in Nat /\ n < Cores * Span
  BY <1>1
<1> DEFINE i == n \div Span
           d == n % Span
<1>3. i \in Nat /\ d \in 0 .. Span - 1 /\ n = i * Span + d
  BY <1>1, <1>2
<1> HIDE DEF i, d
<1>4. i < Cores
  <2>1. SUFFICES ASSUME i >= Cores PROVE FALSE
    BY <1>1, <1>3
  <2>2. i * Span >= Cores * Span
    BY <1>1, <1>3, <2>1
  <2>3. QED BY <1>1, <1>2, <1>3, <2>2
<1>5. QED BY <1>1, <1>3, <1>4 DEF Core, Start

\* No two miners have tried the same nonce.
LEMMA TriedApart ==
    ASSUME MinersInv, NEW i \in Core, NEW j \in Core, i < j
    PROVE  Scanned(i) \cap Scanned(j) = {}
<1>1. /\ k[i] \in Nat /\ k[i] <= Span /\ k[j] \in Nat
      /\ Start(i) \in Nat /\ Start(j) \in Nat /\ Span \in Nat
  BY SpanIsNatural DEF MinersInv, MinersTypes, MinerInv
<1>2. Start(i) + Span <= Start(j)
  BY SpansApart
<1>3. SUFFICES ASSUME NEW d \in 0 .. k[i] - 1, NEW e \in 0 .. k[j] - 1,
                      Start(i) + d = Start(j) + e
               PROVE  FALSE
  BY DEF Scanned
<1>4. QED BY <1>1, <1>2, <1>3

\* When all report that they found nothing, each has tried its whole span.
LEMMA TriedAll ==
    ASSUME MinersInv, \A i \in Core : file[i] = NotFound
    PROVE  Tried = 0 .. Cores * Span - 1
<1>1. \A i \in Core : file[i] = NotFound
  OBVIOUS
<1>2. ASSUME NEW i \in Core PROVE k[i] = Span /\ Span \in Nat /\ Start(i) \in Nat
  <2>1. /\ k[i] \in Nat /\ k[i] <= Span /\ ~InRange(i) /\ Start(i) \in Nat /\ Span \in Nat
        /\ NonceCount \in Nat /\ Cores * Span \in Nat
        /\ Start(i) + Span <= Cores * Span /\ Cores * Span <= NonceCount
    <3>1. k[i] \in Nat /\ MinerInv(i)
      BY DEF MinersInv, MinersTypes
    <3>2. QED BY <1>1, <3>1, SpansFit DEF MinerInv
  <2>2. QED BY <2>1 DEF InRange
<1>3. ASSUME NEW i \in Core, NEW d \in 0 .. k[i] - 1
      PROVE  Start(i) + d \in 0 .. Cores * Span - 1
  <2>1. Start(i) + Span <= Cores * Span /\ Cores * Span \in Nat
    BY SpansFit
  <2>2. QED BY <1>2, <2>1
<1>4. ASSUME NEW n \in 0 .. Cores * Span - 1 PROVE \E i \in Core : n \in Scanned(i)
  <2>1. PICK i \in Core : \E d \in 0 .. Span - 1 : n = Start(i) + d
    BY SpansCover
  <2>2. QED BY <2>1, <1>2 DEF Scanned
<1>5. QED BY <1>3, <1>4 DEF Tried, Scanned

\* race.sh:20-24, for any number of workers and nonces: the workers try no nonce
\* twice, and NOT_FOUND from all of them leaves out no more than the remainder of
\* the division that gave the span, fewer nonces than there are workers.
THEOREM SpansShared == MinersSpec => []SpansShareTheSpace
<1>1. MinersInv => SpansShareTheSpace
  <2> SUFFICES ASSUME MinersInv PROVE SpansShareTheSpace
    OBVIOUS
  <2>1. ASSUME NEW i \in Core, NEW j \in Core, i # j PROVE Scanned(i) \cap Scanned(j) = {}
    <3>1. i < j \/ j < i
      BY <2>1, SpansFit
    <3>2. QED BY <3>1, TriedApart
  <2>2. ASSUME \A i \in Core : file[i] = NotFound
        PROVE  /\ Nonce \ Tried = Cores * Span .. NonceCount - 1
               /\ Cardinality(Nonce \ Tried) < Cores
    <3>1. /\ Cores * Span \in Nat /\ NonceCount \in Nat /\ Cores \in Nat
          /\ Cores * Span <= NonceCount /\ NonceCount - Cores * Span < Cores
      BY SpansFit
    <3>2. Nonce \ Tried = Cores * Span .. NonceCount - 1
      BY <2>2, <3>1, TriedAll DEF Nonce
    <3>3. Cores \in Nat \ {0}
      BY SizeAssumption
    <3>4. Cardinality(Cores * Span .. NonceCount - 1) < Cores
      <4> DEFINE total == Cores * Span
      <4>1. total \in Nat /\ total <= NonceCount /\ NonceCount - total < Cores
        BY <3>1
      <4> HIDE DEF total
      <4>2. Cardinality(total .. NonceCount - 1) \in {0, NonceCount - total}
        BY <3>1, <4>1, FS_Interval
      <4>3. Cardinality(total .. NonceCount - 1) < Cores
        BY <3>1, <3>3, <4>1, <4>2
      <4>4. QED BY <4>3 DEF total
    <3>5. QED BY <3>2, <3>4
  <2>3. QED BY <2>1, <2>2 DEF SpansShareTheSpace
<1>2. QED BY <1>1, MinersAlways, PTL

\* Where the workers divide the space nothing is left out.
COROLLARY AllTried == NonceCount % Cores = 0 => (MinersSpec => []NotFoundMeansAllTried)
<1> SUFFICES ASSUME NonceCount % Cores = 0 PROVE MinersSpec => []NotFoundMeansAllTried
  OBVIOUS
<1>1. MinersInv => NotFoundMeansAllTried
  <2>1. NonceCount = Cores * Span
    BY SizeAssumption DEF Span
  <2>2. QED BY <2>1, TriedAll DEF NotFoundMeansAllTried, Nonce
<1>2. QED BY <1>1, MinersAlways, PTL

-------------------------------------------------------------------------------
\* The loop of rounds.
BlockRecord == [parent : Nat, height : Nat, ours : BOOLEAN, chain : SUBSET Nat]

\* Whatever is remembered of a block is the number of one.
TypeInv ==
    /\ tree \in Seq(BlockRecord)
    /\ {best, labBest, ctx} \subseteq Blocks /\ flight \subseteq Blocks
    /\ ourHash \in Blocks \cup {0}

\* From the moment our block is found until the tip is read again, the context file
\* holds the block it was found on: a context file left over by a failed fetch is
\* never taken for our block.
ContextIsOlder == phase \in {"submit", "check"} => ctx # ourHash /\ ourHash \in Blocks

RaceInv == TypeInv /\ ContextIsOlder

LEMMA RaceInit == Init => RaceInv
<1> SUFFICES ASSUME Init PROVE RaceInv
  OBVIOUS
<1> DEFINE first == [parent |-> 0, height |-> 0, ours |-> FALSE, chain |-> {1}]
<1>1. first \in BlockRecord
  BY DEF BlockRecord
<1> HIDE DEF first
<1>2. tree = <<first>>
  BY DEF Init, first
<1>3. tree \in Seq(BlockRecord) /\ DOMAIN tree = {1}
  BY <1>1, <1>2
<1>4. QED BY <1>3 DEF Init, RaceInv, TypeInv, ContextIsOlder, Blocks

\* A block more: those there were are there still, and the new one is none of them.
LEMMA OneMore ==
    ASSUME TypeInv, NEW b \in Blocks, NEW mine \in BOOLEAN, tree' = Append(tree, Child(b, mine))
    PROVE  /\ tree' \in Seq(BlockRecord)
           /\ Blocks \subseteq Blocks' /\ Len(tree') \in Blocks' \ Blocks
<1> DEFINE child == Child(b, mine)
<1>1. tree[b] \in BlockRecord /\ b \in Nat
  BY DEF TypeInv, Blocks
<1>2. child \in BlockRecord
  <2>1. Len(tree) \in Nat
    BY DEF TypeInv
  <2>2. tree[b].chain \cup {Len(tree) + 1} \in SUBSET Nat
    BY <1>1, <2>1 DEF BlockRecord
  <2>3. QED BY <1>1, <2>2 DEF Child, BlockRecord
<1> HIDE DEF child
<1>3. tree' = Append(tree, child) /\ tree \in Seq(BlockRecord)
  BY DEF TypeInv, child
<1>4. tree' \in Seq(BlockRecord) /\ Len(tree') = Len(tree) + 1
  BY <1>2, <1>3
<1>5. Blocks = 1 .. Len(tree) /\ Len(tree) \in Nat /\ Blocks' = 1 .. Len(tree')
  BY <1>3, <1>4 DEF Blocks
<1>6. QED BY <1>4, <1>5

LEMMA ArriveTyped ==
    ASSUME TypeInv, NEW b \in Blocks, Arrive(b), UNCHANGED tree
    PROVE  best' \in Blocks'
BY DEF TypeInv, Arrive, Better, Blocks

LEMMA RaceStep == RaceInv /\ [Next]_vars => RaceInv'
<1> SUFFICES ASSUME RaceInv, [Next]_vars PROVE RaceInv'
  OBVIOUS
<1> USE DEF RaceInv
<1>1. CASE LabMines
  <2>1. tree' = Append(tree, Child(labBest, FALSE)) /\ labBest' = Len(tree')
    BY <1>1 DEF LabMines
  <2>2. UNCHANGED <<best, flight, ctx, ourHash, phase>>
    BY <1>1 DEF LabMines, script
  <2>3. /\ tree' \in Seq(BlockRecord) /\ Blocks \subseteq Blocks' /\ Len(tree') \in Blocks'
    BY <2>1, OneMore DEF TypeInv
  <2>4. QED BY <2>1, <2>2, <2>3 DEF TypeInv, ContextIsOlder
<1>2. ASSUME NEW b \in Blocks, LabRelays(b) \/ LateArrival(b) PROVE RaceInv'
  <2>1. Arrive(b) /\ UNCHANGED <<tree, labBest, ctx, ourHash, phase>> /\ flight' \subseteq flight
    BY <1>2 DEF LabRelays, LateArrival, script
  <2>2. best' \in Blocks'
    BY <2>1, ArriveTyped
  <2>3. QED BY <2>1, <2>2 DEF TypeInv, ContextIsOlder, Blocks
<1>3. CASE LabHears
  <2>1. labBest' \in Blocks
    BY <1>3 DEF LabHears, Better, TypeInv
  <2>2. UNCHANGED <<tree, best, flight, ctx, ourHash, phase>>
    BY <1>3 DEF LabHears, script
  <2>3. QED BY <2>1, <2>2 DEF TypeInv, ContextIsOlder, Blocks
<1>4. CASE Fetch
  <2>1. ctx' = best /\ phase' = "mine" /\ UNCHANGED <<tree, best, labBest, flight, ourHash>>
    BY <1>4 DEF Fetch, world
  <2>2. QED BY <2>1 DEF TypeInv, ContextIsOlder, Blocks
<1>5. CASE FetchFails \/ RoundFails
  <2>1. phase' \in {"fetch", "gave up"} /\ UNCHANGED <<tree, best, labBest, flight, ctx, ourHash>>
    BY <1>5 DEF FetchFails, RoundFails, NextRound, world
  <2>2. QED BY <2>1 DEF TypeInv, ContextIsOlder, Blocks
<1>6. CASE Mine
  <2>1. tree' = Append(tree, Child(ctx, TRUE)) /\ ourHash' = Len(tree')
    BY <1>6 DEF Mine
  <2>2. UNCHANGED <<best, labBest, flight, ctx>>
    BY <1>6 DEF Mine
  <2>3. /\ tree' \in Seq(BlockRecord) /\ Blocks \subseteq Blocks'
        /\ Len(tree') \in Blocks' \ Blocks
    BY <2>1, OneMore DEF TypeInv
  <2>4. QED BY <2>1, <2>2, <2>3 DEF TypeInv, ContextIsOlder
<1>7. CASE Submit
  <2>1. Arrive(ourHash) /\ ourHash \in Blocks /\ ctx # ourHash
        /\ UNCHANGED <<tree, labBest, flight, ctx, ourHash>>
    BY <1>7 DEF Submit, ContextIsOlder
  <2>2. best' \in Blocks'
    BY <2>1, ArriveTyped
  <2>3. QED BY <2>1, <2>2 DEF TypeInv, ContextIsOlder, Blocks
<1>8. CASE SubmitFails
  <2>1. ourHash \in Blocks /\ ctx # ourHash /\ flight' \in {flight, flight \cup {ourHash}}
        /\ UNCHANGED <<tree, best, labBest, ctx, ourHash>>
    BY <1>8 DEF SubmitFails, ContextIsOlder
  <2>2. QED BY <2>1 DEF TypeInv, ContextIsOlder, Blocks
<1>9. CASE Check \/ CheckBlind
  <2>1. PICK tip \in {best, ctx} : Compare(tip)
    BY <1>9 DEF Check, CheckBlind
  <2>2. /\ ctx' \in {best, ctx} /\ phase' \in {"success", "fetch", "gave up"}
        /\ UNCHANGED <<tree, best, labBest, flight, ourHash>>
    BY <2>1 DEF Compare, NextRound, world
  <2>3. QED BY <2>2 DEF TypeInv, ContextIsOlder, Blocks
<1>10. CASE UNCHANGED vars
  BY <1>10 DEF vars, world, script, TypeInv, ContextIsOlder, Blocks
<1>11. QED
  BY <1>1, <1>2, <1>3, <1>4, <1>5, <1>6, <1>7, <1>8, <1>9, <1>10 DEF Next, World, Script

LEMMA RaceAlways == Spec => []RaceInv
BY RaceInit, RaceStep, PTL DEF Spec

\* race.sh:69-73: success is announced on the node's tip alone, also where the fetch
\* before the comparison fails and the old context file is read.
THEOREM SuccessOnTheTip == Spec => SuccessIsTheTip
<1>1. RaceInv /\ [Next]_vars =>
        [(phase = "check" /\ phase' = "success") => best = ourHash]_vars
  <2> SUFFICES ASSUME RaceInv, Next, phase = "check", phase' = "success"
               PROVE  best = ourHash
    BY DEF vars
  <2>1. CASE Check
    BY <2>1 DEF Check, Compare, NextRound
  <2>2. CASE CheckBlind
    BY <2>2 DEF CheckBlind, Compare, NextRound, RaceInv, ContextIsOlder
  <2>3. CASE World
    BY <2>3 DEF World, LabMines, LabHears, LabRelays, LateArrival, script
  <2>4. CASE Script /\ ~Check /\ ~CheckBlind
    BY <2>4 DEF Script, Fetch, FetchFails, RoundFails, Mine, Submit, SubmitFails
  <2>5. QED BY <2>1, <2>2, <2>3, <2>4 DEF Next
<1>2. QED BY <1>1, RaceAlways, PTL DEF Spec, SuccessIsTheTip
-------------------------------------------------------------------------------
(***************************************************************************)
(* Every copy of the anchor but one is paid for.  The rival blocks the     *)
(* node has and the failures pay; a block in flight holds back the failure *)
(* that put it there until it arrives.  A copy is added by mining on the   *)
(* tip read at the last fetch, and that tip is fully paid for: either it   *)
(* is not our last block, or a rival or a failure came in between.         *)
(***************************************************************************)
Rivals == {b \in Blocks \ {1} : ~tree[b].ours}
RivalsSeen == Rivals \cap nodeHas

Copies(b) == Cardinality(AnchorsOn(b)) + Cardinality(flight)
Paid == Cardinality(RivalsSeen) + trouble

ChainsTyped ==
    /\ \A b \in Blocks : tree[b].chain \subseteq Blocks
    /\ ~tree[1].ours
    /\ nodeHas \subseteq Blocks /\ 1 \in nodeHas
    /\ trouble \in Nat /\ lab = Cardinality(Rivals)

OneUnpaid == \A b \in Blocks : Copies(b) <= Paid + 1

TipPaid ==
    \/ Copies(best) <= Paid
    \/ phase = "check" /\ best = ourHash
    \/ phase = "success"

ContextPaid == phase = "mine" => Copies(ctx) <= Paid

Accounts == ChainsTyped /\ OneUnpaid /\ TipPaid /\ ContextPaid

LEMMA Counted ==
    ASSUME TypeInv, ChainsTyped
    PROVE  /\ IsFiniteSet(Blocks) /\ IsFiniteSet(flight) /\ Cardinality(flight) \in Nat
           /\ IsFiniteSet(Rivals) /\ IsFiniteSet(RivalsSeen)
           /\ Cardinality(RivalsSeen) \in Nat /\ Cardinality(RivalsSeen) <= lab
           /\ \A b \in Blocks : /\ IsFiniteSet(AnchorsOn(b)) /\ Cardinality(AnchorsOn(b)) \in Nat
                                /\ AnchorsOn(b) \subseteq Blocks
<1>1. Blocks = 1 .. Len(tree) /\ Len(tree) \in Nat
  BY DEF TypeInv, Blocks
<1>2. IsFiniteSet(Blocks)
  BY <1>1, FS_Interval
<1>3. flight \subseteq Blocks /\ Rivals \subseteq Blocks /\ RivalsSeen \subseteq Rivals
  BY DEF TypeInv, Rivals, RivalsSeen
<1>4. IsFiniteSet(flight) /\ IsFiniteSet(Rivals)
  BY <1>2, <1>3, FS_Subset
<1>5. IsFiniteSet(RivalsSeen) /\ Cardinality(RivalsSeen) <= Cardinality(Rivals)
  BY <1>3, <1>4, FS_Subset
<1>6. Cardinality(flight) \in Nat /\ Cardinality(RivalsSeen) \in Nat
  BY <1>4, <1>5, FS_CardinalityType
<1>7. ASSUME NEW b \in Blocks
      PROVE  /\ IsFiniteSet(AnchorsOn(b)) /\ Cardinality(AnchorsOn(b)) \in Nat
             /\ AnchorsOn(b) \subseteq Blocks
  <2>1. AnchorsOn(b) \subseteq Blocks
    BY DEF AnchorsOn, ChainsTyped
  <2>2. IsFiniteSet(AnchorsOn(b))
    BY <1>2, <2>1, FS_Subset
  <2>3. QED BY <2>1, <2>2, FS_CardinalityType
<1>8. QED BY <1>2, <1>4, <1>5, <1>6, <1>7 DEF ChainsTyped

\* What a new block changes: it has its parent's copies, and itself if it is ours.
LEMMA Grown ==
    ASSUME TypeInv, ChainsTyped, NEW b \in Blocks, NEW mine \in BOOLEAN, NEW new,
           tree' = Append(tree, Child(b, mine)), new = Len(tree')
    PROVE  /\ Blocks' = Blocks \cup {new} /\ new \notin Blocks /\ new # 1
           /\ \A c \in Blocks : tree'[c] = tree[c]
           /\ tree'[new].ours = mine /\ tree'[new].chain = tree[b].chain \cup {new}
           /\ \A c \in Blocks : AnchorsOn(c)' = AnchorsOn(c)
           /\ AnchorsOn(new)' = AnchorsOn(b) \cup (IF mine THEN {new} ELSE {})
           /\ Rivals' = Rivals \cup (IF mine THEN {} ELSE {new})
<1> DEFINE child == Child(b, mine)
<1>1. tree \in Seq(BlockRecord) /\ Len(tree) \in Nat /\ Blocks = 1 .. Len(tree)
  BY DEF TypeInv, Blocks
<1>2. child.ours = mine /\ child.chain = tree[b].chain \cup {Len(tree) + 1}
  BY DEF Child
<1> HIDE DEF child
<1>3. tree' = Append(tree, child)
  BY DEF child
<1>4. /\ Len(tree') = Len(tree) + 1 /\ DOMAIN tree' = 1 .. Len(tree) + 1
      /\ tree'[Len(tree) + 1] = child /\ \A c \in Blocks : tree'[c] = tree[c]
  BY <1>1, <1>3
<1>5. new = Len(tree) + 1 /\ Blocks' = DOMAIN tree'
  BY <1>4 DEF Blocks
<1>6. Blocks' = Blocks \cup {new} /\ new \notin Blocks /\ new # 1
  BY <1>1, <1>4, <1>5
<1>7. tree'[new].ours = mine /\ tree'[new].chain = tree[b].chain \cup {new}
  BY <1>2, <1>4, <1>5
<1>8. \A c \in Blocks : tree[c].chain \subseteq Blocks
  BY DEF ChainsTyped
<1>9. \A c \in Blocks : AnchorsOn(c)' = AnchorsOn(c)
  BY <1>4, <1>8 DEF AnchorsOn
<1>10. AnchorsOn(new)' = AnchorsOn(b) \cup (IF mine THEN {new} ELSE {})
  <2>1. AnchorsOn(new)' = {c \in tree[b].chain \cup {new} : tree'[c].ours}
    BY <1>7, <1>5 DEF AnchorsOn
  <2>2. tree[b].chain \subseteq Blocks
    BY <1>8
  <2>3. QED BY <1>4, <1>7, <2>1, <2>2 DEF AnchorsOn
<1>11. Rivals' = Rivals \cup (IF mine THEN {} ELSE {new})
  BY <1>4, <1>6, <1>7 DEF Rivals
<1>12. QED BY <1>4, <1>6, <1>7, <1>9, <1>10, <1>11

LEMMA ChainsGrow ==
    ASSUME TypeInv, ChainsTyped, NEW b \in Blocks, NEW mine \in BOOLEAN,
           tree' = Append(tree, Child(b, mine)), UNCHANGED <<nodeHas, trouble>>,
           lab' = IF mine THEN lab ELSE lab + 1
    PROVE  ChainsTyped'
<1> DEFINE new == Len(tree')
<1> HIDE DEF new
<1>0. new = Len(tree')
  BY DEF new
<1>1. /\ Blocks' = Blocks \cup {new} /\ new \notin Blocks
      /\ \A c \in Blocks : tree'[c] = tree[c]
      /\ tree'[new].chain = tree[b].chain \cup {new}
      /\ Rivals' = Rivals \cup (IF mine THEN {} ELSE {new})
  BY <1>0, Grown
<1>2. \A c \in Blocks : tree[c].chain \subseteq Blocks
  BY DEF ChainsTyped
<1>3. 1 \in Blocks
  BY DEF ChainsTyped
<1>4. Cardinality(Rivals') = lab'
  <2>1. IsFiniteSet(Rivals) /\ Rivals \subseteq Blocks /\ lab = Cardinality(Rivals)
    BY Counted DEF Rivals, ChainsTyped
  <2>2. CASE mine
    BY <1>1, <2>1, <2>2
  <2>3. CASE ~mine
    <3>1. Cardinality(Rivals \cup {new}) = Cardinality(Rivals) + 1
      BY <1>1, <2>1, FS_AddElement
    <3>2. QED BY <1>1, <2>1, <2>3, <3>1
  <2>4. QED BY <2>2, <2>3
<1>5. \A c \in Blocks' : tree'[c].chain \subseteq Blocks'
  BY <1>1, <1>2
<1>6. Cardinality(Rivals)' = lab'
  BY <1>4
<1>7. QED BY <1>1, <1>3, <1>5, <1>6 DEF ChainsTyped

LEMMA ChainsStep == RaceInv /\ ChainsTyped /\ [Next]_vars => ChainsTyped'
<1> SUFFICES ASSUME RaceInv, ChainsTyped, [Next]_vars PROVE ChainsTyped'
  OBVIOUS
<1>0. TypeInv /\ trouble \in Nat
  BY DEF RaceInv, ChainsTyped
<1>1. CASE LabMines
  <2>1. labBest \in Blocks /\ tree' = Append(tree, Child(labBest, FALSE))
        /\ lab' = lab + 1 /\ UNCHANGED <<nodeHas, trouble>>
    BY <1>0, <1>1 DEF LabMines, TypeInv
  <2>2. QED BY <1>0, <2>1, ChainsGrow
<1>2. CASE Mine
  <2>1. ctx \in Blocks /\ tree' = Append(tree, Child(ctx, TRUE)) /\ UNCHANGED <<nodeHas, trouble, lab>>
    BY <1>0, <1>2 DEF Mine, TypeInv
  <2>2. QED BY <1>0, <2>1, ChainsGrow
<1>3. ASSUME UNCHANGED <<tree, lab>>, nodeHas' \subseteq Blocks, nodeHas \subseteq nodeHas',
             trouble' \in {trouble, trouble + 1}
      PROVE  ChainsTyped'
  BY <1>0, <1>3 DEF ChainsTyped, Blocks, Rivals
<1>4. ASSUME NEW b \in Blocks, Arrive(b)
      PROVE  nodeHas' \subseteq Blocks /\ nodeHas \subseteq nodeHas'
  BY <1>4 DEF Arrive, ChainsTyped
<1>5. nodeHas \subseteq Blocks
  BY DEF ChainsTyped
<1>6. ASSUME NEW b \in Blocks, LabRelays(b) \/ LateArrival(b) PROVE ChainsTyped'
  <2>1. Arrive(b) /\ UNCHANGED <<tree, lab, trouble>>
    BY <1>6 DEF LabRelays, LateArrival
  <2>2. QED BY <1>3, <1>4, <2>1
<1>7. CASE Submit
  <2>1. ourHash \in Blocks /\ Arrive(ourHash) /\ UNCHANGED <<tree, lab, trouble>>
    BY <1>7 DEF Submit, RaceInv, ContextIsOlder
  <2>2. QED BY <1>3, <1>4, <2>1
<1>8. CASE LabHears \/ Fetch \/ FetchFails \/ RoundFails \/ SubmitFails
  <2>1. UNCHANGED <<tree, lab, nodeHas>> /\ trouble' \in {trouble, trouble + 1}
    BY <1>8 DEF LabHears, Fetch, FetchFails, RoundFails, SubmitFails, Trouble, world
  <2>2. QED BY <1>3, <1>5, <2>1
<1>9. CASE Check \/ CheckBlind
  <2>1. UNCHANGED <<tree, lab, nodeHas>> /\ trouble' \in {trouble, trouble + 1}
    BY <1>9 DEF Check, CheckBlind, Compare, Trouble, world
  <2>2. QED BY <1>3, <1>5, <2>1
<1>10. CASE UNCHANGED vars
  <2>1. UNCHANGED <<tree, lab, nodeHas, trouble>>
    BY <1>10 DEF vars, world
  <2>2. QED BY <1>3, <1>5, <2>1
<1>11. QED BY <1>1, <1>2, <1>6, <1>7, <1>8, <1>9, <1>10 DEF Next, World, Script

\* The amounts are numbers, in this state and in the next.
LEMMA Numbers ==
    TypeInv /\ ChainsTyped =>
        /\ Cardinality(flight) \in Nat /\ Paid \in Nat
        /\ \A b \in Blocks : Copies(b) \in Nat
<1> SUFFICES ASSUME TypeInv, ChainsTyped
             PROVE  /\ Cardinality(flight) \in Nat /\ Paid \in Nat
                    /\ \A b \in Blocks : Copies(b) \in Nat
  OBVIOUS
<1> QED BY Counted DEF Paid, Copies, ChainsTyped

LEMMA NumbersThen ==
    (TypeInv /\ ChainsTyped =>
        /\ Cardinality(flight) \in Nat /\ Paid \in Nat
        /\ \A b \in Blocks : Copies(b) \in Nat)'
BY Numbers, PTL

\* Where the blocks stay what they are, what is paid for stays paid for, and one
\* payment more pays for every block.
LEMMA Balance ==
    ASSUME TypeInv, ChainsTyped, TypeInv', ChainsTyped', UNCHANGED tree, NEW d \in Nat,
           Cardinality(flight') + Paid + d <= Cardinality(flight) + Paid'
    PROVE  \A b \in Blocks : Copies(b)' + Paid + d <= Copies(b) + Paid'
<1>1. /\ Cardinality(flight) \in Nat /\ Cardinality(RivalsSeen) \in Nat
      /\ \A b \in Blocks : Cardinality(AnchorsOn(b)) \in Nat
  BY Counted
<1>2. Cardinality(flight') \in Nat /\ Paid \in Nat /\ Paid' \in Nat
  BY Numbers, NumbersThen
<1>4. ASSUME NEW b \in Blocks PROVE Copies(b)' + Paid + d <= Copies(b) + Paid'
  <2>1. AnchorsOn(b)' = AnchorsOn(b)
    BY DEF AnchorsOn
  <2>2. Copies(b) = Cardinality(AnchorsOn(b)) + Cardinality(flight)
        /\ Copies(b)' = Cardinality(AnchorsOn(b)) + Cardinality(flight')
    BY <2>1 DEF Copies
  <2>3. Cardinality(AnchorsOn(b)) \in Nat /\ Cardinality(flight') \in Nat
    BY <1>1, <1>2
  <2>4. QED BY <1>1, <1>2, <2>2, <2>3
<1>5. QED BY <1>4

\* A payment more, and no block but a paid one is left.
LEMMA PaymentMade ==
    ASSUME RaceInv, Accounts, RaceInv', ChainsTyped', UNCHANGED tree,
           Cardinality(flight') + Paid + 1 <= Cardinality(flight) + Paid'
    PROVE  Accounts'
<1>1. TypeInv /\ ChainsTyped /\ TypeInv' /\ ChainsTyped'
  BY DEF RaceInv, Accounts
<1>2. Blocks' = Blocks /\ best' \in Blocks /\ ctx' \in Blocks
  BY <1>1 DEF Blocks, TypeInv
<1>3. \A b \in Blocks : Copies(b)' + Paid + 1 <= Copies(b) + Paid'
  BY <1>1, Balance
<1>4. /\ Paid \in Nat /\ Paid' \in Nat
      /\ \A b \in Blocks : Copies(b) \in Nat /\ Copies(b)' \in Nat
  BY <1>1, <1>2, Numbers, NumbersThen
<1>5. \A b \in Blocks : Copies(b) <= Paid + 1
  BY DEF Accounts, OneUnpaid
<1>6. ASSUME NEW b \in Blocks PROVE Copies(b)' <= Paid' /\ Copies(b)' <= Paid' + 1
  <2>1. Copies(b)' + Paid + 1 <= Copies(b) + Paid' /\ Copies(b) <= Paid + 1
    BY <1>3, <1>5
  <2>2. Paid \in Nat /\ Paid' \in Nat /\ Copies(b) \in Nat /\ Copies(b)' \in Nat
    BY <1>4
  <2>3. QED BY <2>1, <2>2
<1>7. OneUnpaid' /\ TipPaid' /\ ContextPaid'
  <2>1. OneUnpaid'
    BY <1>2, <1>6 DEF OneUnpaid
  <2>2. (Copies(best) <= Paid)' /\ (Copies(ctx) <= Paid)'
    BY <1>2, <1>6 DEF Copies, AnchorsOn
  <2>3. QED BY <2>1, <2>2 DEF TipPaid, ContextPaid
<1>8. QED BY <1>1, <1>7 DEF Accounts

\* Nothing is paid and nothing is added: only the tip and the context file may move.
LEMMA NothingPaid ==
    ASSUME RaceInv, Accounts, RaceInv', ChainsTyped', UNCHANGED tree,
           Cardinality(flight') + Paid <= Cardinality(flight) + Paid'
    PROVE  /\ OneUnpaid'
           /\ \A b \in Blocks : Copies(b) <= Paid => Copies(b)' <= Paid'
<1>1. TypeInv /\ ChainsTyped /\ TypeInv' /\ ChainsTyped'
  BY DEF RaceInv, Accounts
<1>2. Blocks' = Blocks
  BY DEF Blocks
<1>3. /\ Paid \in Nat /\ Paid' \in Nat
      /\ \A b \in Blocks : Copies(b) \in Nat /\ Copies(b)' \in Nat
  BY <1>1, <1>2, Numbers, NumbersThen
<1>4. \A b \in Blocks : Copies(b)' + Paid <= Copies(b) + Paid'
  <2>1. Cardinality(flight) \in Nat /\ Cardinality(flight') \in Nat
    BY <1>1, Numbers, NumbersThen
  <2>2. Cardinality(flight') + Paid + 0 <= Cardinality(flight) + Paid'
    BY <1>3, <2>1
  <2>3. \A b \in Blocks : Copies(b)' + Paid + 0 <= Copies(b) + Paid'
    BY <1>1, <2>2, Balance
  <2>4. QED BY <1>3, <2>3
<1>5. \A b \in Blocks : Copies(b) <= Paid + 1
  BY DEF Accounts, OneUnpaid
<1>6. ASSUME NEW b \in Blocks
      PROVE  Copies(b)' <= Paid' + 1 /\ (Copies(b) <= Paid => Copies(b)' <= Paid')
  <2>1. Copies(b)' + Paid <= Copies(b) + Paid' /\ Copies(b) <= Paid + 1
    BY <1>4, <1>5
  <2>2. Paid \in Nat /\ Paid' \in Nat /\ Copies(b) \in Nat /\ Copies(b)' \in Nat
    BY <1>3
  <2>3. QED BY <2>1, <2>2
<1>7. OneUnpaid'
  BY <1>2, <1>6 DEF OneUnpaid
<1>8. QED BY <1>6, <1>7

\* A block more: a rival has its parent's copies, ours one more than the tip it was
\* mined on, which is paid for.
LEMMA BlockMore ==
    ASSUME RaceInv, Accounts, RaceInv', ChainsTyped', NEW b \in Blocks, NEW mine \in BOOLEAN,
           tree' = Append(tree, Child(b, mine)), mine => Copies(b) <= Paid,
           UNCHANGED <<nodeHas, flight, trouble>>
    PROVE  /\ OneUnpaid' /\ Paid' = Paid
           /\ \A c \in Blocks : Copies(c)' = Copies(c)
<1>1. TypeInv /\ ChainsTyped
  BY DEF RaceInv, Accounts
<1>2. PICK new : new = Len(tree')
  OBVIOUS
<1>3. /\ Blocks' = Blocks \cup {new} /\ new \notin Blocks
      /\ \A c \in Blocks : AnchorsOn(c)' = AnchorsOn(c)
      /\ AnchorsOn(new)' = AnchorsOn(b) \cup (IF mine THEN {new} ELSE {})
      /\ Rivals' = Rivals \cup (IF mine THEN {} ELSE {new})
  BY <1>1, <1>2, Grown
<1>4. RivalsSeen' = RivalsSeen
  BY <1>1, <1>3 DEF RivalsSeen, ChainsTyped
<1>5. Paid' = Paid
  BY <1>4 DEF Paid
<1>6. \A c \in Blocks : Copies(c)' = Copies(c)
  BY <1>3 DEF Copies
<1>7. Copies(new)' <= Paid + 1
  <2>1. /\ IsFiniteSet(AnchorsOn(b)) /\ AnchorsOn(b) \subseteq Blocks
        /\ Cardinality(AnchorsOn(b)) \in Nat /\ Cardinality(flight) \in Nat
    BY <1>1, Counted
  <2>2. Paid \in Nat
    BY <1>1, Numbers
  <2>3. Copies(b) = Cardinality(AnchorsOn(b)) + Cardinality(flight)
    BY DEF Copies
  <2>4. CASE mine
    <3>1. Cardinality(AnchorsOn(b) \cup {new}) = Cardinality(AnchorsOn(b)) + 1
      BY <1>3, <2>1, FS_AddElement
    <3>2. Copies(new)' = Cardinality(AnchorsOn(b)) + 1 + Cardinality(flight)
      BY <1>3, <2>4, <3>1 DEF Copies
    <3>3. QED BY <2>1, <2>2, <2>3, <2>4, <3>2
  <2>5. CASE ~mine
    <3>1. Copies(new)' = Copies(b)
      BY <1>3, <2>5 DEF Copies
    <3>2. QED BY <3>1 DEF Accounts, OneUnpaid
  <2>6. QED BY <2>4, <2>5
<1>8. ASSUME NEW c \in Blocks' PROVE Copies(c)' <= Paid' + 1
  <2>1. CASE c \in Blocks
    BY <1>5, <1>6, <2>1 DEF Accounts, OneUnpaid
  <2>2. CASE c = new
    BY <1>5, <1>7, <2>2
  <2>3. QED BY <1>3, <2>1, <2>2
<1>9. OneUnpaid'
  BY <1>8 DEF OneUnpaid
<1>10. QED BY <1>5, <1>6, <1>9

\* A block that comes to the node is a rival not seen before, or ends a flight.
LEMMA ArrivalAmount ==
    ASSUME TypeInv, ChainsTyped, NEW b \in Blocks, LabRelays(b) \/ LateArrival(b)
    PROVE  Cardinality(flight') + Paid + 1 <= Cardinality(flight) + Paid'
<1>1. UNCHANGED <<tree, trouble>> /\ Arrive(b)
  BY DEF LabRelays, LateArrival
<1>2. /\ IsFiniteSet(flight) /\ IsFiniteSet(RivalsSeen)
      /\ Cardinality(flight) \in Nat /\ Cardinality(RivalsSeen) \in Nat
  BY Counted
<1>3. Rivals' = Rivals /\ nodeHas' = nodeHas \cup {b} /\ trouble \in Nat
  BY <1>1 DEF Rivals, Blocks, Arrive, ChainsTyped
<1>4. CASE LabRelays(b)
  <2>1. b \in Rivals /\ b \notin nodeHas /\ flight' = flight
    BY <1>4 DEF LabRelays, Rivals, ChainsTyped
  <2>2. RivalsSeen' = RivalsSeen \cup {b} /\ b \notin RivalsSeen
    BY <1>3, <2>1 DEF RivalsSeen
  <2>3. Cardinality(RivalsSeen') = Cardinality(RivalsSeen) + 1
    BY <1>2, <2>2, FS_AddElement
  <2>4. Paid = Cardinality(RivalsSeen) + trouble /\ Paid' = Cardinality(RivalsSeen) + 1 + trouble
    BY <1>1, <2>3 DEF Paid
  <2>5. QED BY <1>2, <1>3, <2>1, <2>4
<1>5. CASE LateArrival(b)
  <2>1. b \in flight /\ flight' = flight \ {b}
    BY <1>5 DEF LateArrival
  <2>2. Cardinality(flight') = Cardinality(flight) - 1
    BY <1>2, <2>1, FS_RemoveElement
  <2>3. RivalsSeen \subseteq RivalsSeen' /\ IsFiniteSet(RivalsSeen')
    <3>1. IsFiniteSet(RivalsSeen \cup {b})
      BY <1>2, FS_AddElement
    <3>2. RivalsSeen \subseteq RivalsSeen' /\ RivalsSeen' \subseteq RivalsSeen \cup {b}
      BY <1>3 DEF RivalsSeen
    <3>3. QED BY <3>1, <3>2, FS_Subset
  <2>4. /\ Cardinality(RivalsSeen) <= Cardinality(RivalsSeen')
        /\ Cardinality(RivalsSeen') \in Nat
    BY <2>3, FS_Subset, FS_CardinalityType
  <2>5. Paid = Cardinality(RivalsSeen) + trouble /\ Paid' = Cardinality(RivalsSeen') + trouble
    BY <1>1 DEF Paid
  <2>6. QED BY <1>2, <1>3, <2>2, <2>4, <2>5
<1>6. QED BY <1>4, <1>5

\* Our block comes to the node in its round: nothing is paid for it.
LEMMA SubmitAmount ==
    ASSUME RaceInv, ChainsTyped, Submit
    PROVE  /\ Cardinality(flight') + Paid <= Cardinality(flight) + Paid'
           /\ ourHash \in Blocks
<1>1. TypeInv /\ trouble \in Nat
  BY DEF RaceInv, ChainsTyped
<1>2. ourHash \in Blocks /\ nodeHas' = nodeHas \cup {ourHash} /\ UNCHANGED <<tree, flight, trouble>>
  BY DEF Submit, Arrive, RaceInv, ContextIsOlder
<1>3. /\ IsFiniteSet(RivalsSeen) /\ Cardinality(RivalsSeen) \in Nat /\ Cardinality(flight) \in Nat
  BY <1>1, Counted
<1>4. Cardinality(RivalsSeen) <= Cardinality(RivalsSeen') /\ Cardinality(RivalsSeen') \in Nat
  <2>1. RivalsSeen \subseteq RivalsSeen' /\ RivalsSeen' \subseteq RivalsSeen \cup {ourHash}
    BY <1>2 DEF RivalsSeen, Rivals, Blocks
  <2>2. IsFiniteSet(RivalsSeen \cup {ourHash})
    BY <1>3, FS_AddElement
  <2>3. QED BY <2>1, <2>2, FS_Subset, FS_CardinalityType
<1>5. Paid = Cardinality(RivalsSeen) + trouble /\ Paid' = Cardinality(RivalsSeen') + trouble
  BY <1>2 DEF Paid
<1>6. QED BY <1>1, <1>2, <1>3, <1>4, <1>5

\* A failed submission is paid for, and may leave a block in flight.
LEMMA SubmitFailsAmount ==
    ASSUME RaceInv, ChainsTyped, SubmitFails
    PROVE  Cardinality(flight') + Paid <= Cardinality(flight) + Paid'
<1>1. TypeInv /\ trouble \in Nat
  BY DEF RaceInv, ChainsTyped
<1>2. /\ trouble' = trouble + 1 /\ UNCHANGED <<tree, nodeHas>>
      /\ flight' \in {flight, flight \cup {ourHash}}
  BY DEF SubmitFails, Trouble
<1>3. IsFiniteSet(flight) /\ Cardinality(flight) \in Nat /\ Cardinality(RivalsSeen) \in Nat
  BY <1>1, Counted
<1>4. Cardinality(flight') <= Cardinality(flight) + 1 /\ Cardinality(flight') \in Nat
  <2>1. IsFiniteSet(flight \cup {ourHash})
        /\ Cardinality(flight \cup {ourHash}) <= Cardinality(flight) + 1
    BY <1>3, FS_AddElement
  <2>2. Cardinality(flight \cup {ourHash}) \in Nat
    BY <2>1, FS_CardinalityType
  <2>3. CASE flight' = flight
    <3>1. Cardinality(flight') = Cardinality(flight)
      BY <2>3
    <3>2. QED BY <1>3, <3>1
  <2>4. CASE flight' = flight \cup {ourHash}
    <3>1. Cardinality(flight') = Cardinality(flight \cup {ourHash})
      BY <2>4
    <3>2. QED BY <2>1, <2>2, <3>1
  <2>5. QED BY <1>2, <2>3, <2>4
<1>5. RivalsSeen' = RivalsSeen
  BY <1>2 DEF RivalsSeen, Rivals, Blocks
<1>6. Paid = Cardinality(RivalsSeen) + trouble /\ Paid' = Cardinality(RivalsSeen) + trouble + 1
  BY <1>1, <1>2, <1>3, <1>5 DEF Paid
<1>7. QED BY <1>1, <1>3, <1>4, <1>6

LEMMA AccountsStep ==
    RaceInv /\ Accounts /\ RaceInv' /\ ChainsTyped' /\ [Next]_vars => Accounts'
<1> SUFFICES ASSUME RaceInv, Accounts, RaceInv', ChainsTyped', [Next]_vars PROVE Accounts'
  OBVIOUS
<1>1. TypeInv /\ ChainsTyped /\ trouble \in Nat /\ OneUnpaid /\ TipPaid /\ ContextPaid
      /\ Cardinality(flight) \in Nat /\ Cardinality(RivalsSeen) \in Nat /\ Paid \in Nat
  BY Counted, Numbers DEF RaceInv, Accounts, ChainsTyped
<1>2. Paid = Cardinality(RivalsSeen) + trouble
  BY DEF Paid
<1>3. best \in Blocks /\ ctx \in Blocks /\ labBest \in Blocks
  BY <1>1 DEF TypeInv
<1>4. CASE LabMines
  <2>1. /\ tree' = Append(tree, Child(labBest, FALSE))
        /\ UNCHANGED <<nodeHas, flight, trouble, best, ctx, phase, ourHash>>
    BY <1>4 DEF LabMines, script
  <2>2. OneUnpaid' /\ Paid' = Paid /\ \A c \in Blocks : Copies(c)' = Copies(c)
    BY <1>3, <2>1, BlockMore
  <2>3. (Copies(best))' = Copies(best) /\ (Copies(ctx))' = Copies(ctx)
    BY <1>3, <2>1, <2>2 DEF Copies, AnchorsOn
  <2>4. TipPaid' /\ ContextPaid'
    BY <1>1, <2>1, <2>2, <2>3 DEF TipPaid, ContextPaid
  <2>5. QED BY <2>2, <2>4 DEF Accounts
<1>5. ASSUME NEW b \in Blocks, LabRelays(b) \/ LateArrival(b) PROVE Accounts'
  <2>1. UNCHANGED tree
    BY <1>5 DEF LabRelays, LateArrival
  <2>2. QED BY <1>1, <1>5, <2>1, ArrivalAmount, PaymentMade
<1>6. CASE LabHears
  <2>1. UNCHANGED <<tree, nodeHas, flight, trouble, best, ctx, phase, ourHash>>
    BY <1>6 DEF LabHears, script
  <2>2. UNCHANGED <<Paid>> /\ (Copies(best))' = Copies(best) /\ (Copies(ctx))' = Copies(ctx)
        /\ OneUnpaid'
    BY <1>1, <2>1 DEF Paid, RivalsSeen, Rivals, Blocks, Copies, AnchorsOn, OneUnpaid
  <2>3. TipPaid' /\ ContextPaid'
    BY <1>1, <2>1, <2>2 DEF TipPaid, ContextPaid
  <2>4. QED BY <2>2, <2>3 DEF Accounts
<1>7. CASE Fetch
  <2>1. phase = "fetch" /\ ctx' = best /\ phase' = "mine"
        /\ UNCHANGED <<tree, nodeHas, flight, trouble, best>>
    BY <1>7 DEF Fetch, world
  <2>2. UNCHANGED <<Paid>> /\ (Copies(best))' = Copies(best) /\ (Copies(ctx))' = Copies(best)
        /\ OneUnpaid'
    BY <1>1, <2>1 DEF Paid, RivalsSeen, Rivals, Blocks, Copies, AnchorsOn, OneUnpaid
  <2>3. Copies(best) <= Paid
    BY <1>1, <2>1 DEF TipPaid
  <2>4. TipPaid' /\ ContextPaid'
    BY <2>2, <2>3 DEF TipPaid, ContextPaid
  <2>5. QED BY <2>2, <2>4 DEF Accounts
<1>8. CASE FetchFails \/ RoundFails \/ CheckBlind
  <2>1. UNCHANGED <<tree, nodeHas, flight>> /\ trouble' = trouble + 1
    BY <1>8 DEF FetchFails, RoundFails, CheckBlind, Trouble, Compare, world
  <2>2. RivalsSeen' = RivalsSeen
    BY <2>1 DEF RivalsSeen, Rivals, Blocks
  <2>3. Paid' = Cardinality(RivalsSeen) + trouble + 1
    BY <1>1, <2>1, <2>2 DEF Paid
  <2>4. Cardinality(flight') + Paid + 1 <= Cardinality(flight) + Paid'
    BY <1>1, <1>2, <2>1, <2>3
  <2>5. QED BY <2>1, <2>4, PaymentMade
<1>9. CASE Mine
  <2>1. /\ phase = "mine" /\ phase' = "submit" /\ tree' = Append(tree, Child(ctx, TRUE))
        /\ UNCHANGED <<nodeHas, flight, trouble, best>>
    BY <1>9 DEF Mine
  <2>2. Copies(ctx) <= Paid /\ Copies(best) <= Paid
    BY <1>1, <2>1 DEF ContextPaid, TipPaid
  <2>3. OneUnpaid' /\ Paid' = Paid /\ \A c \in Blocks : Copies(c)' = Copies(c)
    BY <1>3, <2>1, <2>2, BlockMore
  <2>4. (Copies(best))' = Copies(best)
    BY <1>3, <2>1, <2>3 DEF Copies, AnchorsOn
  <2>5. TipPaid' /\ ContextPaid'
    BY <2>1, <2>2, <2>3, <2>4 DEF TipPaid, ContextPaid
  <2>6. QED BY <2>3, <2>5 DEF Accounts
<1>10. CASE Submit
  <2>1. /\ phase = "submit" /\ phase' = "check" /\ ourHash \in Blocks
        /\ nodeHas' = nodeHas \cup {ourHash} /\ best' = Better(ourHash, best)
        /\ UNCHANGED <<tree, flight, trouble, ourHash>>
    BY <1>10 DEF Submit, Arrive, RaceInv, ContextIsOlder
  <2>2. Cardinality(flight') + Paid <= Cardinality(flight) + Paid'
    BY <1>1, <1>10, SubmitAmount
  <2>3. OneUnpaid' /\ \A b \in Blocks : Copies(b) <= Paid => Copies(b)' <= Paid'
    BY <2>1, <2>2, NothingPaid
  <2>4. Copies(best) <= Paid
    BY <1>1, <2>1 DEF TipPaid
  <2>5. TipPaid'
    <3>1. CASE best' = best
      <4>1. (Copies(best) <= Paid)'
        BY <1>3, <2>3, <2>4, <3>1 DEF Copies, AnchorsOn
      <4>2. QED BY <4>1 DEF TipPaid
    <3>2. CASE best' = ourHash
      BY <2>1, <3>2 DEF TipPaid
    <3>3. QED BY <2>1, <3>1, <3>2 DEF Better
  <2>6. ContextPaid'
    BY <2>1 DEF ContextPaid
  <2>7. QED BY <2>3, <2>5, <2>6 DEF Accounts
<1>11. CASE SubmitFails
  <2>1. /\ phase = "submit" /\ phase' = "check" /\ trouble' = trouble + 1
        /\ flight' \in {flight, flight \cup {ourHash}} /\ UNCHANGED <<tree, nodeHas, best>>
    BY <1>11 DEF SubmitFails, Trouble
  <2>2. Cardinality(flight') + Paid <= Cardinality(flight) + Paid'
    BY <1>1, <1>11, SubmitFailsAmount
  <2>3. OneUnpaid' /\ \A b \in Blocks : Copies(b) <= Paid => Copies(b)' <= Paid'
    BY <2>1, <2>2, NothingPaid
  <2>4. Copies(best) <= Paid
    BY <1>1, <2>1 DEF TipPaid
  <2>5. (Copies(best) <= Paid)'
    BY <1>3, <2>1, <2>3, <2>4 DEF Copies, AnchorsOn
  <2>6. TipPaid' /\ ContextPaid'
    BY <2>1, <2>5 DEF TipPaid, ContextPaid
  <2>7. QED BY <2>3, <2>6 DEF Accounts
<1>12. CASE Check
  <2>1. /\ phase = "check" /\ phase' \in {"success", "fetch", "gave up"}
        /\ phase' # "success" => best # ourHash
        /\ UNCHANGED <<tree, nodeHas, flight, trouble, best, ourHash>>
    BY <1>12 DEF Check, Compare, NextRound, world
  <2>2. UNCHANGED <<Paid>> /\ (Copies(best))' = Copies(best) /\ OneUnpaid'
    BY <1>1, <2>1 DEF Paid, RivalsSeen, Rivals, Blocks, Copies, AnchorsOn, OneUnpaid
  <2>3. TipPaid' /\ ContextPaid'
    BY <1>1, <2>1, <2>2 DEF TipPaid, ContextPaid
  <2>4. QED BY <2>2, <2>3 DEF Accounts
<1>13. CASE UNCHANGED vars
  <2>1. UNCHANGED <<tree, nodeHas, flight, trouble, best, ctx, phase, ourHash>>
    BY <1>13 DEF vars, world, script
  <2>2. UNCHANGED <<Paid>> /\ (Copies(best))' = Copies(best) /\ (Copies(ctx))' = Copies(ctx)
        /\ OneUnpaid'
    BY <1>1, <2>1 DEF Paid, RivalsSeen, Rivals, Blocks, Copies, AnchorsOn, OneUnpaid
  <2>3. TipPaid' /\ ContextPaid'
    BY <1>1, <2>1, <2>2 DEF TipPaid, ContextPaid
  <2>4. QED BY <2>2, <2>3 DEF Accounts
<1>14. QED
  BY <1>4, <1>5, <1>6, <1>7, <1>8, <1>9, <1>10, <1>11, <1>12, <1>13 DEF Next, World, Script

LEMMA AccountsInit == Init => Accounts
<1> SUFFICES ASSUME Init PROVE Accounts
  OBVIOUS
<1> DEFINE first == [parent |-> 0, height |-> 0, ours |-> FALSE, chain |-> {1}]
<1>0. first.ours = FALSE /\ first.chain = {1}
  OBVIOUS
<1> HIDE DEF first
<1>1. tree = <<first>>
  BY DEF Init, first
<1>2. Blocks = {1} /\ tree[1] = first
  BY <1>1 DEF Blocks
<1>3. /\ nodeHas = {1} /\ best = 1 /\ flight = {} /\ phase = "fetch" /\ lab = 0 /\ trouble = 0
  BY DEF Init
<1>4. Rivals = {} /\ RivalsSeen = {} /\ AnchorsOn(1) = {}
  BY <1>0, <1>2 DEF Rivals, RivalsSeen, AnchorsOn
<1>5. Cardinality({}) = 0
  BY FS_EmptySet
<1>6. ChainsTyped
  BY <1>0, <1>2, <1>3, <1>4, <1>5 DEF ChainsTyped
<1>7. Paid = 0 /\ Copies(1) = 0
  BY <1>3, <1>4, <1>5 DEF Paid, Copies
<1>8. QED BY <1>2, <1>3, <1>6, <1>7 DEF Accounts, OneUnpaid, TipPaid, ContextPaid

LEMMA AccountsAlways == Spec => []Accounts
<1>1. RaceInv /\ Accounts /\ [Next]_vars /\ RaceInv' => Accounts'
  <2>1. Accounts => ChainsTyped
    BY DEF Accounts
  <2>2. QED BY <2>1, ChainsStep, AccountsStep
<1>2. QED BY <1>1, AccountsInit, RaceAlways, PTL DEF Spec

\* race.sh:46-82: however rounds, rivals and failures interleave, and however late
\* the blocks sent arrive, the active chain carries at most one copy of the anchor
\* more than there were rival blocks and failures.
THEOREM CopiesHaveCauses == Spec => []DuplicateNeedsCause
<1>1. RaceInv /\ Accounts => DuplicateNeedsCause
  <2> SUFFICES ASSUME RaceInv, Accounts PROVE DuplicateNeedsCause
    OBVIOUS
  <2>1. TypeInv /\ ChainsTyped /\ best \in Blocks
    BY DEF RaceInv, Accounts, TypeInv
  <2>2. /\ Cardinality(flight) \in Nat /\ Cardinality(RivalsSeen) \in Nat
        /\ Cardinality(RivalsSeen) <= lab /\ Cardinality(AnchorsOn(best)) \in Nat
    BY <2>1, Counted
  <2>3. Copies(best) <= Paid + 1
    BY <2>1 DEF Accounts, OneUnpaid
  <2>4. Cardinality(AnchorsOn(best)) + Cardinality(flight)
          <= Cardinality(RivalsSeen) + trouble + 1
    BY <2>3 DEF Copies, Paid
  <2>5. lab \in Nat /\ trouble \in Nat
    BY <2>1, Counted, FS_CardinalityType DEF ChainsTyped
  <2>6. Cardinality(AnchorsOn(best)) <= 1 + lab + trouble
    BY <2>2, <2>4, <2>5
  <2>7. QED BY <2>6 DEF DuplicateNeedsCause
<1>2. QED BY <1>1, RaceAlways, AccountsAlways, PTL
-------------------------------------------------------------------------------
(***************************************************************************)
(* The rounds are accounted for in the same way, with a failure counted    *)
(* twice: once for its round, and once more for the round a block it left  *)
(* in flight may spoil.                                                    *)
(***************************************************************************)
Setbacks == Paid + trouble

Spent(rounds) == rounds + Cardinality(flight) <= Setbacks

RoundsInv ==
    /\ round \in Nat \ {0}
    /\ phase = "gave up" => Spent(MaxRounds)
    /\ phase # "gave up" => Spent(round - 1)
    /\ phase \in {"mine", "submit"} => best = ctx \/ Spent(round)
    /\ phase = "check" => best = ourHash \/ Spent(round)
    /\ phase = "submit" => tree[ourHash].height = tree[ctx].height + 1

\* Setbacks only become more, and what they cover stays covered.
LEMMA Covered ==
    ASSUME TypeInv, ChainsTyped, TypeInv', ChainsTyped', trouble <= trouble', NEW d \in Nat,
           Cardinality(flight') + Paid + d <= Cardinality(flight) + Paid',
           NEW n \in Nat, Spent(n)
    PROVE  Spent(n + d)'
<1>1. /\ Cardinality(flight) \in Nat /\ Cardinality(flight') \in Nat
      /\ Paid \in Nat /\ Paid' \in Nat /\ trouble \in Nat /\ trouble' \in Nat
  BY Numbers, NumbersThen DEF ChainsTyped
<1>2. n + Cardinality(flight) <= Paid + trouble
  BY DEF Spent, Setbacks
<1>3. n + d + Cardinality(flight') <= Paid' + trouble'
  BY <1>1, <1>2
<1>4. QED BY <1>3 DEF Spent, Setbacks

\* A failure is counted twice.
LEMMA Failure ==
    ASSUME TypeInv, ChainsTyped, TypeInv', ChainsTyped', trouble' = trouble + 1,
           Cardinality(flight') + Paid <= Cardinality(flight) + Paid',
           NEW n \in Nat, Spent(n)
    PROVE  Spent(n + 1)'
<1>1. /\ Cardinality(flight) \in Nat /\ Cardinality(flight') \in Nat
      /\ Paid \in Nat /\ Paid' \in Nat /\ trouble \in Nat
  BY Numbers, NumbersThen DEF ChainsTyped
<1>2. n + Cardinality(flight) <= Paid + trouble
  BY DEF Spent, Setbacks
<1>3. n + 1 + Cardinality(flight') <= Paid' + trouble'
  BY <1>1, <1>2
<1>4. QED BY <1>3 DEF Spent, Setbacks

\* The next round, or the last one over: the rounds before it are accounted for.
LEMMA RoundOver ==
    ASSUME NEW n \in Nat, n = round, RoundsInv, NextRound, Spent(n)', ChainsTyped', TypeInv'
    PROVE  RoundsInv'
<1>1. n # 0 /\ round' = n + 1 /\ MaxRounds \in Nat
  BY BoundsAssumption DEF RoundsInv, NextRound
<1>2. n < MaxRounds => phase' = "fetch"
  BY DEF NextRound
<1>3. ~(n < MaxRounds) => phase' = "gave up"
  BY DEF NextRound
<1>4. round' - 1 = n /\ round' \in Nat \ {0}
  BY <1>1
<1>5. n + Cardinality(flight') <= Setbacks' /\ Cardinality(flight') \in Nat /\ Setbacks' \in Nat
  BY NumbersThen DEF ChainsTyped, Spent, Setbacks
<1>6. ~(n < MaxRounds) => MaxRounds + Cardinality(flight') <= Setbacks'
  BY <1>1, <1>5
<1>7. Spent(round - 1)' /\ (~(n < MaxRounds) => Spent(MaxRounds)')
  BY <1>4, <1>5, <1>6 DEF Spent
<1>8. QED BY <1>2, <1>3, <1>4, <1>7 DEF RoundsInv

LEMMA RoundsStep ==
    RaceInv /\ Accounts /\ RaceInv' /\ Accounts' /\ RoundsInv /\ [Next]_vars => RoundsInv'
<1> SUFFICES ASSUME RaceInv, Accounts, RaceInv', Accounts', RoundsInv, [Next]_vars
             PROVE  RoundsInv'
  OBVIOUS
<1>1. /\ TypeInv /\ ChainsTyped /\ TypeInv' /\ ChainsTyped'
      /\ Cardinality(flight) \in Nat /\ Paid \in Nat /\ trouble \in Nat
  BY Numbers DEF RaceInv, Accounts, ChainsTyped
<1>2. PICK n \in Nat \ {0} : n = round
  BY DEF RoundsInv
<1>3. n - 1 \in Nat /\ n - 1 + 1 = n /\ MaxRounds \in Nat
  BY <1>2, BoundsAssumption
<1>4. best \in Blocks /\ ctx \in Blocks /\ labBest \in Blocks
  BY <1>1 DEF TypeInv
<1>5. /\ phase = "gave up" => Spent(MaxRounds)
      /\ phase # "gave up" => Spent(n - 1)
      /\ phase \in {"mine", "submit"} => best = ctx \/ Spent(n)
      /\ phase = "check" => best = ourHash \/ Spent(n)
      /\ phase = "submit" => tree[ourHash].height = tree[ctx].height + 1
  BY <1>2 DEF RoundsInv
<1>6. ASSUME UNCHANGED <<Paid, flight, trouble>>
      PROVE  \A m \in Nat : Spent(m) => Spent(m)'
  BY <1>6 DEF Spent, Setbacks
<1>7. ASSUME UNCHANGED <<tree, nodeHas>> PROVE RivalsSeen' = RivalsSeen
  BY <1>7 DEF RivalsSeen, Rivals, Blocks
\* Steps of which the script sees nothing.
<1>8. ASSUME UNCHANGED <<Paid, flight, trouble, script, best>>,
             phase = "submit" => tree'[ourHash] = tree[ourHash] /\ tree'[ctx] = tree[ctx]
      PROVE  RoundsInv'
  <2>1. UNCHANGED <<round, phase, ctx, ourHash>>
    BY <1>8 DEF script
  <2>2. Spent(n)' <=> Spent(n)
    BY <1>8 DEF Spent, Setbacks
  <2>3. (Spent(n - 1)' <=> Spent(n - 1)) /\ (Spent(MaxRounds)' <=> Spent(MaxRounds))
    BY <1>8 DEF Spent, Setbacks
  <2>4. (Spent(round)' <=> Spent(n)') /\ (Spent(round - 1)' <=> Spent(n - 1)')
    BY <1>2, <2>1 DEF Spent
  <2>5. QED BY <1>2, <1>5, <1>8, <2>1, <2>2, <2>3, <2>4 DEF RoundsInv
<1>9. CASE LabMines
  <2>1. /\ tree' = Append(tree, Child(labBest, FALSE))
        /\ UNCHANGED <<nodeHas, flight, trouble, best, script>>
    BY <1>9 DEF LabMines
  <2>2. Paid' = Paid
    BY <1>1, <1>4, <2>1, BlockMore
  <2>3. \A c \in Blocks : tree'[c] = tree[c]
    BY <1>1, <1>4, <2>1, Grown
  <2>4. phase = "submit" => ourHash \in Blocks
    BY DEF RaceInv, ContextIsOlder
  <2>5. QED BY <1>4, <1>8, <2>1, <2>2, <2>3, <2>4
<1>10. ASSUME NEW b \in Blocks, LabRelays(b) \/ LateArrival(b) PROVE RoundsInv'
  <2>1. UNCHANGED <<tree, round, phase, ctx, ourHash, trouble>>
    BY <1>10 DEF LabRelays, LateArrival, script
  <2>2. Cardinality(flight') + Paid + 1 <= Cardinality(flight) + Paid' /\ trouble <= trouble'
    BY <1>1, <1>10, <2>1, ArrivalAmount
  <2>3. Cardinality(flight') + Paid + 0 <= Cardinality(flight) + Paid'
    BY <1>1, <2>2, NumbersThen
  <2>4. phase # "gave up" => Spent(n)'
    <3>1. phase # "gave up" => Spent(n - 1 + 1)'
      BY <1>1, <1>3, <1>5, <2>1, <2>2, Covered
    <3>2. QED BY <1>3, <3>1
  <2>5. phase = "gave up" => Spent(MaxRounds)'
    <3>1. phase = "gave up" => Spent(MaxRounds + 0)'
      BY <1>1, <1>3, <1>5, <2>1, <2>2, <2>3, Covered
    <3>2. MaxRounds + 0 = MaxRounds
      BY <1>3
    <3>3. QED BY <3>1, <3>2
  <2>6. phase # "gave up" => Spent(n - 1)'
    <3>1. phase # "gave up" => Spent(n - 1 + 0)'
      BY <1>1, <1>3, <1>5, <2>1, <2>2, <2>3, Covered
    <3>2. n - 1 + 0 = n - 1
      BY <1>3
    <3>3. QED BY <3>1, <3>2
  <2>7. (Spent(round)' <=> Spent(n)') /\ (Spent(round - 1)' <=> Spent(n - 1)')
    BY <1>2, <2>1 DEF Spent
  <2>8. QED BY <1>2, <1>5, <2>1, <2>4, <2>5, <2>6, <2>7 DEF RoundsInv
<1>11. CASE LabHears
  <2>1. UNCHANGED <<tree, nodeHas, flight, trouble, best, script>>
    BY <1>11 DEF LabHears
  <2>2. Paid' = Paid
    BY <1>7, <2>1 DEF Paid
  <2>3. QED BY <1>8, <2>1, <2>2
<1>12. CASE Fetch
  <2>1. /\ phase = "fetch" /\ phase' = "mine" /\ ctx' = best
        /\ UNCHANGED <<tree, nodeHas, flight, trouble, best, round>>
    BY <1>12 DEF Fetch, world
  <2>2. Paid' = Paid
    BY <1>7, <2>1 DEF Paid
  <2>3. Spent(n - 1)' /\ (Spent(round - 1)' <=> Spent(n - 1)')
    BY <1>2, <1>3, <1>5, <1>6, <2>1, <2>2 DEF Spent
  <2>4. QED BY <1>2, <2>1, <2>3 DEF RoundsInv
<1>13. CASE FetchFails \/ RoundFails \/ CheckBlind
  <2>1. /\ phase # "gave up" /\ trouble' = trouble + 1 /\ NextRound
        /\ UNCHANGED <<tree, nodeHas, flight>>
    BY <1>13 DEF FetchFails, RoundFails, CheckBlind, Trouble, Compare, world, RaceInv, ContextIsOlder
  <2>2. Paid' = Paid + 1
    <3>1. RivalsSeen' = RivalsSeen /\ Cardinality(RivalsSeen) \in Nat
      BY <1>1, <1>7, <2>1, Counted
    <3>2. Paid = Cardinality(RivalsSeen) + trouble /\ Paid' = Cardinality(RivalsSeen) + (trouble + 1)
      BY <2>1, <3>1 DEF Paid
    <3>3. QED BY <1>1, <3>1, <3>2
  <2>3. Cardinality(flight') + Paid <= Cardinality(flight) + Paid'
    <3>1. Cardinality(flight') = Cardinality(flight)
      BY <2>1
    <3>2. QED BY <1>1, <2>2, <3>1
  <2>4. Spent(n - 1 + 1)'
    BY <1>1, <1>3, <1>5, <2>1, <2>3, Failure
  <2>5. Spent(n)'
    BY <1>3, <2>4
  <2>6. QED BY <1>1, <1>2, <2>1, <2>5, RoundOver
<1>14. CASE Mine
  <2>1. /\ phase = "mine" /\ phase' = "submit"
        /\ tree' = Append(tree, Child(ctx, TRUE)) /\ ourHash' = Len(tree')
        /\ UNCHANGED <<nodeHas, flight, trouble, best, round, ctx>>
    BY <1>14 DEF Mine
  <2>2. Copies(ctx) <= Paid
    BY <2>1 DEF Accounts, ContextPaid
  <2>3. Paid' = Paid
    BY <1>1, <1>4, <2>1, <2>2, BlockMore
  <2>4. tree'[ourHash'].height = tree'[ctx'].height + 1
    <3>1. PICK child : child = Child(ctx, TRUE)
      OBVIOUS
    <3>2. child.height = tree[ctx].height + 1
      BY <3>1 DEF Child
    <3>3. tree' = Append(tree, child) /\ tree \in Seq(BlockRecord) /\ ctx \in 1 .. Len(tree)
      BY <1>1, <1>4, <2>1, <3>1 DEF TypeInv, Blocks
    <3>4. tree'[Len(tree')] = child /\ tree'[ctx] = tree[ctx]
      BY <3>3
    <3>5. QED BY <2>1, <3>2, <3>4
  <2>5. Spent(n - 1)' /\ (best = ctx \/ Spent(n)')
    BY <1>3, <1>5, <1>6, <2>1, <2>3
  <2>6. (Spent(round)' <=> Spent(n)') /\ (Spent(round - 1)' <=> Spent(n - 1)')
    BY <1>2, <2>1 DEF Spent
  <2>7. QED BY <1>2, <2>1, <2>4, <2>5, <2>6 DEF RoundsInv
<1>15. CASE Submit
  <2>1. /\ phase = "submit" /\ phase' = "check" /\ best' = Better(ourHash, best)
        /\ UNCHANGED <<tree, flight, trouble, round, ctx, ourHash>>
    BY <1>15 DEF Submit, Arrive
  <2>2. /\ Cardinality(flight') + Paid + 0 <= Cardinality(flight) + Paid' /\ ourHash \in Blocks
        /\ trouble <= trouble'
    <3>1. Cardinality(flight') + Paid <= Cardinality(flight) + Paid' /\ ourHash \in Blocks
      BY <1>1, <1>15, SubmitAmount
    <3>2. Cardinality(flight') \in Nat /\ Paid' \in Nat
      BY <1>1, NumbersThen
    <3>3. QED BY <1>1, <2>1, <3>1, <3>2
  <2>3. \A m \in Nat : Spent(m) => Spent(m)'
    <3>1. ASSUME NEW m \in Nat, Spent(m) PROVE Spent(m)'
      <4>1. Spent(m + 0)'
        BY <1>1, <2>1, <2>2, <3>1, Covered
      <4>2. m + 0 = m
        OBVIOUS
      <4>3. QED BY <4>1, <4>2
    <3>2. QED BY <3>1
  <2>4. best = ctx => best' = ourHash
    <3>1. tree[ctx].height \in Nat /\ tree[ourHash].height = tree[ctx].height + 1
      <4>1. tree[ctx] \in BlockRecord
        BY <1>1, <1>4 DEF TypeInv, Blocks
      <4>2. tree[ctx].height \in Nat
        BY <4>1 DEF BlockRecord
      <4>3. QED BY <1>5, <2>1, <4>2
    <3>2. tree[ourHash].height > tree[ctx].height
      BY <3>1
    <3>3. QED BY <2>1, <3>2 DEF Better
  <2>5. Spent(n - 1)' /\ (best' = ourHash' \/ Spent(n)')
    BY <1>3, <1>5, <2>1, <2>3, <2>4
  <2>6. (Spent(round)' <=> Spent(n)') /\ (Spent(round - 1)' <=> Spent(n - 1)')
    BY <1>2, <2>1 DEF Spent
  <2>7. QED BY <1>2, <2>1, <2>5, <2>6 DEF RoundsInv
<1>16. CASE SubmitFails
  <2>1. /\ phase = "submit" /\ phase' = "check" /\ trouble' = trouble + 1
        /\ UNCHANGED round
    BY <1>16 DEF SubmitFails, Trouble
  <2>2. Cardinality(flight') + Paid <= Cardinality(flight) + Paid'
    BY <1>1, <1>16, SubmitFailsAmount
  <2>3. Spent(n - 1 + 1)'
    BY <1>1, <1>3, <1>5, <2>1, <2>2, Failure
  <2>4. Spent(n)'
    BY <1>3, <2>3
  <2>5. Spent(n - 1)'
    <3>1. Cardinality(flight') \in Nat /\ Setbacks' \in Nat
      BY <1>1, <2>1, NumbersThen DEF Setbacks
    <3>2. QED BY <1>2, <2>4, <3>1 DEF Spent
  <2>6. (Spent(round)' <=> Spent(n)') /\ (Spent(round - 1)' <=> Spent(n - 1)')
    BY <1>2, <2>1 DEF Spent
  <2>7. QED BY <1>2, <2>1, <2>4, <2>5, <2>6 DEF RoundsInv
<1>17. CASE Check
  <2>1. /\ phase = "check" /\ UNCHANGED <<tree, nodeHas, flight, trouble>>
        /\ \/ best = ourHash /\ phase' = "success" /\ UNCHANGED round
           \/ best # ourHash /\ NextRound
    BY <1>17 DEF Check, Compare, world
  <2>2. Paid' = Paid
    BY <1>7, <2>1 DEF Paid
  <2>3. \A m \in Nat : Spent(m) => Spent(m)'
    BY <1>6, <2>1, <2>2
  <2>4. CASE best = ourHash /\ phase' = "success" /\ UNCHANGED round
    <3>1. Spent(n - 1)' /\ (Spent(round - 1)' <=> Spent(n - 1)')
      BY <1>2, <1>3, <1>5, <2>1, <2>3, <2>4 DEF Spent
    <3>2. QED BY <1>2, <2>4, <3>1 DEF RoundsInv
  <2>5. CASE best # ourHash /\ NextRound
    <3>1. Spent(n)'
      BY <1>5, <2>1, <2>3, <2>5
    <3>2. QED BY <1>1, <1>2, <2>5, <3>1, RoundOver
  <2>6. QED BY <2>1, <2>4, <2>5
<1>18. CASE UNCHANGED vars
  <2>1. UNCHANGED <<tree, nodeHas, flight, trouble, best, script>>
    BY <1>18 DEF vars, world
  <2>2. Paid' = Paid
    BY <1>7, <2>1 DEF Paid
  <2>3. QED BY <1>8, <2>1, <2>2
<1>19. QED
  BY <1>9, <1>10, <1>11, <1>12, <1>13, <1>14, <1>15, <1>16, <1>17, <1>18 DEF Next, World, Script

LEMMA RoundsInit == Init => RoundsInv
<1> SUFFICES ASSUME Init PROVE RoundsInv
  OBVIOUS
<1>1. round = 1 /\ phase = "fetch" /\ flight = {}
  BY DEF Init
<1>2. Setbacks \in Nat
  BY RaceInit, AccountsInit, Numbers DEF RaceInv, Accounts, ChainsTyped, Setbacks
<1>3. Spent(round - 1)
  BY <1>1, <1>2, FS_EmptySet DEF Spent
<1>4. QED BY <1>1, <1>3 DEF RoundsInv

\* race.sh:27: the loop gives up only where for each of its rounds there was a rival
\* block, or a failure, a failure counting for two.
THEOREM LossesHaveCauses == Spec => []LossHasCauses
<1>1. Spec => []RoundsInv
  BY RoundsInit, RoundsStep, RaceAlways, AccountsAlways, PTL DEF Spec
<1>2. RaceInv /\ Accounts /\ RoundsInv => LossHasCauses
  <2> SUFFICES ASSUME RaceInv, Accounts, RoundsInv PROVE LossHasCauses
    OBVIOUS
  <2>1. TypeInv /\ ChainsTyped
    BY DEF RaceInv, Accounts
  <2>2. /\ Cardinality(flight) \in Nat /\ Cardinality(RivalsSeen) \in Nat
        /\ Cardinality(RivalsSeen) <= lab
    BY <2>1, Counted
  <2>3. lab \in Nat /\ trouble \in Nat /\ MaxRounds \in Nat
    BY <2>1, Counted, FS_CardinalityType, BoundsAssumption DEF ChainsTyped
  <2>4. Spent(MaxRounds) => MaxRounds <= lab + 2 * trouble
    <3>1. Spent(MaxRounds) =>
            MaxRounds + Cardinality(flight) <= Cardinality(RivalsSeen) + trouble + trouble
      BY DEF Spent, Setbacks, Paid
    <3>2. QED BY <2>2, <2>3, <3>1
  <2>5. QED BY <2>4 DEF RoundsInv, LossHasCauses
<1>3. QED BY <1>1, <1>2, RaceAlways, AccountsAlways, PTL
===============================================================================
