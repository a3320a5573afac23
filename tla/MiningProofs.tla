----------------------------- MODULE MiningProofs -----------------------------
(***************************************************************************)
(* Proofs about mining with the board for any nonce space, number of       *)
(* cores, headers, rounds and runs: what is saved, and which nonces are    *)
(* tried; and about the fetchers, one of which scripts/fpga_host.py runs   *)
(* for its tip, for any page sizes, blocks and branches.                   *)
(***************************************************************************)
EXTENDS FpgaMining, TipFetch, FiniteSetTheorems, SequenceTheorems,
        WellFoundedInduction, TLAPS

Symbols == Seq(Int)
Scanner == [busy : BOOLEAN, nonce : Nonce, under : Int, since : Int]

MineTypes ==
    /\ jobs \in Seq(Outcomes)
    /\ down \in Symbols /\ up \in Symbols /\ report \in Symbols
    /\ loading \in BOOLEAN /\ draining \in BOOLEAN /\ ping \in BOOLEAN
    /\ work \in Int /\ core \in [Core -> Scanner]
    /\ ticks \in Nat /\ tests \in Nat /\ tested \subseteq Nonce
    /\ ticks <= MaxTicks /\ runs \in Nat /\ round \in Nat

\* What is on disk was judged against its own header, and a header that gave a
\* block is not scanned again.
SavedInv ==
    /\ \A b \in saved : b.job \in DOMAIN jobs /\ b.nonce \in jobs[b.job].valid
    /\ \A a, b \in saved : a.job = b.job => a = b
    /\ host \in {"tag", "body"} => jobs # << >> /\ \A b \in saved : b.job < Len(jobs)

LEMMA BoardConstants ==
    /\ NonceCount \in Nat /\ NonceCount > 0
    /\ Cores \in Nat /\ Cores > 0 /\ Cores <= NonceCount
    /\ MaxTicks \in Nat /\ MaxTicks * Cores >= NonceCount
    /\ Core = 0 .. Cores - 1 /\ Nonce = 0 .. NonceCount - 1
BY BoardAssumption DEF Core, Nonce

\* The rest of a line of symbols, one symbol more, one symbol less.
LEMMA TailSymbols ==
    ASSUME NEW s \in Symbols, s # << >>
    PROVE  /\ Tail(s) \in Symbols /\ Head(s) = s[1] /\ s[1] \in Int
           /\ Len(s) \in Nat /\ Len(s) >= 1 /\ Len(Tail(s)) = Len(s) - 1
           /\ DOMAIN s = 1 .. Len(s) /\ DOMAIN Tail(s) = 1 .. Len(s) - 1
           /\ \A p \in DOMAIN Tail(s) : p + 1 \in DOMAIN s /\ Tail(s)[p] = s[p + 1]
BY DEF Symbols

LEMMA AppendSymbol ==
    ASSUME NEW s \in Symbols, NEW x \in Int
    PROVE  /\ Append(s, x) \in Symbols /\ Len(s) \in Nat /\ (s = << >> <=> Len(s) = 0)
           /\ Len(Append(s, x)) = Len(s) + 1
           /\ DOMAIN s = 1 .. Len(s) /\ DOMAIN Append(s, x) = 1 .. Len(s) + 1
           /\ \A p \in DOMAIN s : Append(s, x)[p] = s[p]
           /\ Append(s, x)[Len(s) + 1] = x
BY DEF Symbols

LEMMA SymbolsAre == P \in Int /\ S \in Int /\ W \in Int /\ K \in Int /\ Tag \in Int /\ Digest \in Int
BY DEF P, S, W, K, Tag, Digest

LEMMA ModUnique ==
    ASSUME NEW n \in Nat, n > 0, NEW x \in Int, NEW q \in Int, NEW r \in 0 .. n - 1, x = n * q + r
    PROVE  x % n = r
OBVIOUS

\* Steps around the space add up.
LEMMA ModSum ==
    ASSUME NEW n \in Nat, n > 0, NEW a \in Nat, NEW c \in Nat
    PROVE  ((a % n) + c) % n = (a + c) % n
<1> DEFINE q == a \div n   r == a % n   u == (r + c) \div n   v == (r + c) % n
<1>1. a = n * q + r /\ q \in Int /\ r \in 0 .. n - 1
  OBVIOUS
<1>2. r + c = n * u + v /\ u \in Int /\ v \in 0 .. n - 1
  BY <1>1
<1>3. a + c = n * (q + u) + v /\ q + u \in Int
  <2> HIDE DEF q, r, u, v
  <2>1. QED BY <1>1, <1>2
<1>4. (a + c) % n = v
  <2> HIDE DEF q, r, u, v
  <2>1. QED BY <1>2, <1>3, ModUnique
<1>5. QED BY <1>4

\* A nonce is one again after a step around the space.
LEMMA SteppedNonce == \A n \in Nonce : (n + Cores) % NonceCount \in Nonce
BY BoardConstants

LEMMA OutcomeIs ==
    ASSUME NEW o \in Outcomes
    PROVE  o.hits \subseteq Nonce /\ o.valid \subseteq Nonce
BY HostAssumption

-------------------------------------------------------------------------------
\* Types.
LEMMA MineTypesInit == Init => MineTypes
<1>1. \A i \in Core : Idle \in Scanner
  BY BoardConstants DEF Idle, Scanner
<1>2. << >> \in Symbols /\ << >> \in Seq(Outcomes)
  BY DEF Symbols
<1>3. QED BY <1>1, <1>2, BoardConstants DEF Init, InitBoard, MineTypes

LEMMA BoardTypesStep == ASSUME MineTypes, Board PROVE MineTypes'
<1>1. UNCHANGED <<runs, round, jobs>>
  BY DEF Board, program, Rx, Tick, Tx, Load, RxW, RxS, RxP, TxReport, TxK
<1>2. CASE Load
  <2>1. Head(down) \in Int /\ Tail(down) \in Symbols
    BY <1>2, TailSymbols DEF Load, MineTypes
  <2>2. \A i \in Core : Started(core[i], i, Head(down)) \in Scanner
    BY <2>1, BoardConstants DEF MineTypes, Started, Scanner
  <2>3. core' \in [Core -> Scanner]
    BY <1>2, <2>2 DEF Load
  <2>4. tested' \subseteq Nonce /\ tests' \in Nat /\ ticks' \in Nat /\ ticks' <= MaxTicks
    BY <1>2, BoardConstants DEF Load
  <2>5. QED BY <1>1, <1>2, <2>1, <2>3, <2>4 DEF MineTypes, Load
<1>3. CASE RxW \/ RxP
  <2>1. Tail(down) \in Symbols
    BY <1>3, TailSymbols DEF RxW, RxP, MineTypes
  <2>2. QED BY <1>1, <1>3, <2>1 DEF MineTypes, RxW, RxP
<1>4. CASE RxS
  <2>1. Tail(down) \in Symbols
    BY <1>4, TailSymbols DEF RxS, MineTypes
  <2>2. Idle \in Scanner
    BY BoardConstants DEF Idle, Scanner
  <2>3. QED BY <1>1, <1>4, <2>1, <2>2 DEF MineTypes, RxS
<1>5. CASE Tick
  <2>1. \A i \in Core : core[i] \in Scanner /\ core[i].nonce \in Nonce
    BY DEF MineTypes, Scanner
  <2>2. Idle \in Scanner
    BY BoardConstants DEF Idle, Scanner
  <2>3. \A i \in Core : Stepped(i) \in Scanner
    BY <2>1, <2>2, SteppedNonce DEF MineTypes, Stepped, Scanner
  <2>4. core' \in [Core -> Scanner]
    BY <1>5, <2>1, <2>3 DEF Tick
  <2>5. report' \in Symbols
    <3>1. \A i \in Core : <<Tag, core[i].nonce, Digest>> \in Symbols
      BY <2>1, SymbolsAre, BoardConstants DEF Symbols
    <3>2. Winners \subseteq Core
      BY DEF Winners, Hits, Busy
    <3>3. QED BY <1>5, <3>1, <3>2 DEF Tick, MineTypes
  <2>6. tested' \subseteq Nonce /\ tests' \in Nat
    <3>1. PICK now \in SUBSET Core : /\ tested' = tested \cup {core[i].nonce : i \in now}
                                    /\ tests' = tests + Cardinality(now)
      BY <1>5 DEF Tick, Busy
    <3>2. IsFiniteSet(Core)
      BY FS_Interval, BoardConstants
    <3>3. Cardinality(now) \in Nat
      BY <3>1, <3>2, FS_Subset, FS_CardinalityType
    <3>4. QED BY <2>1, <3>1, <3>3 DEF MineTypes
  <2>7. ticks' \in Nat /\ ticks' <= MaxTicks
    BY <1>5, BoardConstants DEF Tick, MineTypes
  <2>8. QED BY <1>1, <1>5, <2>4, <2>5, <2>6, <2>7 DEF MineTypes, Tick
<1>6. CASE Tx
  <2>1. CASE TxReport
    <3>1. Head(report) \in Int /\ Tail(report) \in Symbols
      BY <2>1, TailSymbols DEF TxReport, MineTypes
    <3>2. Append(up, Head(report)) \in Symbols
      BY <3>1, AppendSymbol DEF MineTypes
    <3>3. QED BY <1>1, <2>1, <3>1, <3>2 DEF MineTypes, TxReport
  <2>2. CASE TxK
    <3>1. Append(up, K) \in Symbols
      BY AppendSymbol, SymbolsAre DEF MineTypes
    <3>2. QED BY <1>1, <2>2, <3>1 DEF MineTypes, TxK
  <2>3. QED BY <1>6, <2>1, <2>2 DEF Tx
<1>7. QED BY <1>2, <1>3, <1>4, <1>5, <1>6 DEF Board, Rx


LEMMA GiveUpTypes == ASSUME MineTypes, NEW how, GiveUp(how) PROVE down' \in Symbols
BY AppendSymbol, SymbolsAre DEF GiveUp, MineTypes

LEMMA ProgramTypesStep ==
    ASSUME MineTypes, Run \/ Reads \/ Moves \/ Poke \/ RoundTimeout \/ Interrupt
    PROVE  MineTypes' /\ UNCHANGED board
<1>1. CASE Run
  <2>1. Append(down, P) \in Symbols /\ << >> \in Symbols /\ runs + 1 \in Nat
    BY AppendSymbol, SymbolsAre DEF MineTypes, Symbols
  <2>2. QED BY <1>1, <2>1 DEF Run, MineTypes, board
<1>2. CASE PingRead
  <2>1. Tail(up) \in Symbols
    BY <1>2, TailSymbols DEF PingRead, MineTypes
  <2>2. QED BY <1>2, <2>1 DEF PingRead, MineTypes, board
<1>3. CASE BeginRound
  <2>1. PICK o \in Outcomes : jobs' = Append(jobs, o)
    BY <1>3 DEF BeginRound
  <2>2. jobs' \in Seq(Outcomes) /\ Len(jobs') \in Nat
    BY <2>1 DEF MineTypes
  <2>3. <<W, Len(jobs')>> \in Symbols /\ << >> \in Symbols
    BY <2>2, SymbolsAre DEF Symbols
  <2>4. down' \in Symbols
    BY <1>3, <2>3 DEF BeginRound, MineTypes, Symbols
  <2>5. round' \in Nat
    BY <1>3 DEF BeginRound, MineTypes
  <2>6. QED BY <1>3, <2>2, <2>3, <2>4, <2>5 DEF BeginRound, MineTypes, board
<1>4. CASE Resume \/ Finish \/ Interrupt
  BY <1>4 DEF Resume, Finish, Interrupt, MineTypes, board
<1>5. CASE Poke
  <2>1. <<P>> \in Symbols
    BY SymbolsAre DEF Symbols
  <2>2. QED BY <1>5, <2>1 DEF Poke, MineTypes, board, program
<1>6. CASE RoundTimeout
  BY <1>6, GiveUpTypes DEF RoundTimeout, MineTypes, board
<1>7. CASE ReadTag
  <2>1. Tail(up) \in Symbols
    BY <1>7, TailSymbols DEF ReadTag, MineTypes
  <2>2. down' \in Symbols
    BY <1>7, GiveUpTypes DEF ReadTag, MineTypes
  <2>3. QED BY <1>7, <2>1, <2>2 DEF ReadTag, MineTypes, board
<1>8. CASE ReadBody
  <2>1. up' \in Symbols
    <3>1. up' = SubSeq(up, 3, Len(up)) /\ up \in Seq(Int)
      BY <1>8 DEF ReadBody, MineTypes, Symbols
    <3>2. QED BY <3>1, SubSeqProperties DEF Symbols
  <2>2. down' = down \/ down' = Append(down, S)
    BY <1>8 DEF ReadBody
  <2>3. down' \in Symbols
    <3>1. down \in Symbols /\ Append(down, S) \in Symbols
      BY AppendSymbol, SymbolsAre DEF MineTypes
    <3>2. QED BY <3>1, <2>2
  <2>4. QED BY <1>8, <2>1, <2>3 DEF ReadBody, MineTypes, board
<1>9. CASE ShortBody
  <2>1. << >> \in Symbols
    BY DEF Symbols
  <2>2. QED BY <1>9, <2>1, GiveUpTypes DEF ShortBody, MineTypes, board
<1>10. QED BY <1>1, <1>2, <1>3, <1>4, <1>5, <1>6, <1>7, <1>8, <1>9 DEF Reads, Moves

-------------------------------------------------------------------------------
\* What is saved.
LEMMA SavedInit == Init => SavedInv
BY DEF Init, SavedInv

\* A new header has a number of its own.
LEMMA BeginRoundSaved == ASSUME MineTypes, SavedInv, BeginRound PROVE SavedInv'
<1>1. PICK o \in Outcomes : jobs' = Append(jobs, o)
  BY DEF BeginRound
<1>2. /\ Len(jobs) \in Nat /\ Len(jobs') = Len(jobs) + 1 /\ jobs' # << >>
      /\ DOMAIN jobs = 1 .. Len(jobs) /\ DOMAIN jobs' = 1 .. Len(jobs) + 1
      /\ \A j \in DOMAIN jobs : j \in DOMAIN jobs' /\ jobs'[j] = jobs[j] /\ j < Len(jobs')
  BY <1>1 DEF MineTypes
<1>3. saved' = saved
  BY DEF BeginRound
<1>4. QED BY <1>2, <1>3 DEF SavedInv

\* The header under test is the last one, which gave no block before.
LEMMA ReadBodySaved == ASSUME MineTypes, SavedInv, ReadBody PROVE SavedInv'
<1>1. UNCHANGED jobs /\ host = "body" /\ host' \in {"stopped", "ready"}
  BY DEF ReadBody
<1>2. CASE saved' = saved
  BY <1>1, <1>2 DEF SavedInv
<1>3. CASE saved' # saved
  <2>1. PICK n : n \in jobs[Len(jobs)].valid
                 /\ saved' = saved \cup {[job |-> Len(jobs), nonce |-> n]}
    BY <1>3 DEF ReadBody, Meets, Job
  <2>2. /\ Len(jobs) \in Nat /\ Len(jobs) \in DOMAIN jobs
        /\ \A b \in saved : b.job # Len(jobs)
    BY <1>1 DEF MineTypes, SavedInv
  <2>3. QED BY <1>1, <2>1, <2>2 DEF SavedInv
<1>4. QED BY <1>2, <1>3

LEMMA SavedStep == MineTypes /\ SavedInv /\ [Next]_vars => SavedInv'
<1> SUFFICES ASSUME MineTypes, SavedInv, [Next]_vars PROVE SavedInv'
  OBVIOUS
<1>1. CASE UNCHANGED vars
  BY <1>1 DEF vars, program, SavedInv
<1>2. CASE Board
  <2>1. UNCHANGED jobs /\ UNCHANGED program
    BY <1>2 DEF Board, Rx, Tick, Tx, Load, RxW, RxS, RxP, TxReport, TxK
  <2>2. QED BY <2>1 DEF SavedInv, program
<1>3. CASE Run
  BY <1>3 DEF Run, SavedInv
<1>4. CASE PingRead
  BY <1>4 DEF PingRead, SavedInv
<1>5. CASE BeginRound
  BY <1>5, BeginRoundSaved
<1>6. CASE Resume \/ Finish \/ Interrupt
  BY <1>6 DEF Resume, Finish, Interrupt, SavedInv
<1>7. CASE Poke
  BY <1>7 DEF Poke, program, SavedInv
<1>8. CASE RoundTimeout
  BY <1>8 DEF RoundTimeout, GiveUp, SavedInv
<1>9. CASE ReadTag
  <2>1. UNCHANGED <<jobs, saved>> /\ host = "tag" /\ host' \in {"tag", "body", "pause"}
    BY <1>9 DEF ReadTag, GiveUp
  <2>2. QED BY <2>1 DEF SavedInv
<1>10. CASE ReadBody
  BY <1>10, ReadBodySaved
<1>11. CASE ShortBody
  <2>1. UNCHANGED <<jobs, saved>> /\ host' = "pause"
    BY <1>11 DEF ShortBody, GiveUp
  <2>2. QED BY <2>1 DEF SavedInv
<1>12. QED BY <1>1, <1>2, <1>3, <1>4, <1>5, <1>6, <1>7, <1>8, <1>9, <1>10, <1>11
           DEF Next, Reads, Moves

LEMMA MineTypesStep == MineTypes /\ [Next]_vars => MineTypes'
<1> SUFFICES ASSUME MineTypes, [Next]_vars PROVE MineTypes'
  OBVIOUS
<1>1. CASE UNCHANGED vars
  BY <1>1 DEF vars, board, program, MineTypes
<1>2. CASE Board
  BY <1>2, BoardTypesStep
<1>3. CASE Run \/ Reads \/ Moves \/ Poke \/ RoundTimeout \/ Interrupt
  BY <1>3, ProgramTypesStep
<1>4. QED BY <1>1, <1>2, <1>3 DEF Next

LEMMA MineAlways == Spec => [](MineTypes /\ SavedInv)
<1>1. Init => MineTypes /\ SavedInv
  BY MineTypesInit, SavedInit
<1>2. MineTypes /\ SavedInv /\ [Next]_vars => (MineTypes /\ SavedInv)'
  BY MineTypesStep, SavedStep
<1>3. QED BY <1>1, <1>2, PTL DEF Spec

\* SavedBlocksAreValid (scripts/fpga_host.py:6): whatever an earlier round or an
\* earlier run left on the board, every file holds a block whose own header meets
\* the target, and no header gives two.
THEOREM MinedAreValid == Spec => []SavedBlocksAreValid
<1>1. SavedInv => SavedBlocksAreValid
  BY DEF SavedInv, SavedBlocksAreValid
<1>2. QED BY <1>1, MineAlways, PTL

-------------------------------------------------------------------------------
\* Which nonces are tried for the work that no interrupted run spoils.
AllIdle == \A i \in Core : ~core[i].busy
IsWork(p) == down[p] > 0
StopIn(p, r) == \E q \in p .. r : down[q] = S
Cleared(p) == AllIdle \/ StopIn(1, p - 1)

\* The nonce a core is at after as many ticks.
At(i, t) == (i + t * Cores) % NonceCount

\* 'W' and its work stay together on the line.
Lines ==
    /\ \A p \in DOMAIN down : down[p] \in {P, S, W} \/ IsWork(p)
    /\ \A p \in DOMAIN down : IsWork(p) <=> IF p = 1 THEN loading ELSE down[p - 1] = W
    /\ down # << >> => down[Len(down)] # W
    /\ loading => down # << >>

\* The work of no job that has still to be made.
Known == work <= Job /\ \A p \in DOMAIN down : down[p] <= Job

\* Work finds the cores idle: they are, or an 'S' comes before it.
Reset ==
    /\ \A p \in DOMAIN down : IsWork(p) /\ down[p] > Spoiled => Cleared(p)
    /\ \A p, r \in DOMAIN down :
          p < r /\ IsWork(p) /\ IsWork(r) /\ down[r] > Spoiled => StopIn(p, r)

\* So will the next work, when the program may send some.
Quiet ==
    host \in {"ping", "ready", "pause"} /\ Job + 1 > Spoiled =>
        /\ Cleared(Len(down) + 1)
        /\ \A p \in DOMAIN down : IsWork(p) => StopIn(p, Len(down))

\* The cores that scan have the work of the registers and were started together.
InStep ==
    /\ work > Spoiled =>
          \A i \in Core : core[i].busy =>
             core[i].under = work /\ core[i].nonce = At(i, ticks)
    /\ loading /\ ~draining /\ down[1] > Spoiled => report = << >>

Counted ==
    work > Spoiled /\ ticks * Cores <= NonceCount =>
        tests = Cardinality(tested) /\ \A n \in tested : n < ticks * Cores

\* While the program listens, its work is still to be loaded, or a hit has been
\* reported that it has not read, or the sweep goes on without one.
Pending ==
    \E p \in DOMAIN down :
        IsWork(p) /\ down[p] = Job /\ \A q \in DOMAIN down : q > p => down[q] = P
TagComes == (\E i \in DOMAIN up : up[i] = Tag) \/ (\E i \in DOMAIN report : report[i] = Tag)
NoHit ==
    /\ report = << >>
    /\ \A i \in Core : core[i].busy
    /\ tested = {At(i, t) : i \in Core, t \in 0 .. ticks - 1}
Loaded ==
    /\ ~loading /\ work = Job
    /\ \A p \in DOMAIN down : down[p] = P
    /\ TagComes \/ NoHit
Listening == host = "tag" /\ Job > Spoiled => Pending \/ Loaded

TimedOut ==
    Job > Spoiled /\ status.how = "timeout" =>
        /\ tested = Nonce /\ host \in {"pause", "ready", "stopped"}
        /\ ~loading /\ \A p \in DOMAIN down : down[p] \in {P, S}

\* Before the first run.
Unused ==
    runs = 0 =>
        /\ host = "stopped" /\ AllIdle /\ ~loading /\ ~ping
        /\ down = << >> /\ up = << >> /\ report = << >>

Sweeps ==
    Lines /\ Known /\ Reset /\ Quiet /\ InStep /\ Counted /\ Listening /\ TimedOut /\ Unused

CoverInv == MineTypes /\ Sweeps

\* Only a new run spoils work, that of the jobs made so far and of the next one.
LEMMA SpoiledIs ==
    ASSUME MineTypes
    PROVE  /\ Job \in Nat /\ Spoiled \in Int
           /\ UNCHANGED <<runs, round, jobs>> => UNCHANGED <<Spoiled, Job>>
           /\ BeginRound => Spoiled' = Spoiled /\ Job' = Job + 1
           /\ Run /\ runs # 0 => Job' = Job /\ ~(Job + 1 > Spoiled')
<1>1. Job \in Nat /\ round \in Nat /\ runs \in Nat
  BY DEF MineTypes, Job
<1>2. Spoiled \in Int
  BY <1>1 DEF Spoiled
<1>3. UNCHANGED <<runs, round, jobs>> => UNCHANGED <<Spoiled, Job>>
  BY DEF Spoiled, Job
<1>4. ASSUME BeginRound PROVE Spoiled' = Spoiled /\ Job' = Job + 1
  <2>1. PICK o \in Outcomes : jobs' = Append(jobs, o)
    BY <1>4 DEF BeginRound
  <2>2. Job' = Job + 1
    BY <2>1 DEF MineTypes, Job
  <2>3. runs' = runs /\ round' = round + 1
    BY <1>4 DEF BeginRound
  <2>4. Job' - round' = Job - round
    BY <1>1, <2>2, <2>3
  <2>5. QED BY <2>2, <2>3, <2>4 DEF Spoiled
<1>5. ASSUME Run, runs # 0 PROVE Job' = Job /\ ~(Job + 1 > Spoiled')
  <2>1. Job' = Job /\ round' = 0 /\ runs' = runs + 1
    BY <1>5 DEF Run, Job
  <2>2. ~(runs' <= 1)
    BY <1>1, <1>5, <2>1
  <2>3. Spoiled' = Job - 0 + 1
    BY <2>1, <2>2 DEF Spoiled
  <2>4. QED BY <1>1, <2>1, <2>3
<1>6. QED BY <1>1, <1>2, <1>3, <1>4, <1>5

LEMMA CoverInit == Init => CoverInv
<1> SUFFICES ASSUME Init PROVE Sweeps
  BY MineTypesInit DEF CoverInv
<1>1. /\ down = << >> /\ up = << >> /\ report = << >> /\ ~loading /\ host = "stopped"
      /\ ~ping /\ ticks = 0 /\ tests = 0 /\ tested = {} /\ status.how # "timeout"
  BY DEF Init, InitBoard, None
<1>2. AllIdle
  BY DEF Init, InitBoard, Idle, AllIdle
<1>3. Lines /\ Reset /\ Quiet /\ Listening /\ TimedOut /\ Unused
  BY <1>1, <1>2 DEF Lines, Reset, Quiet, Listening, TimedOut, Unused
<1> Known
  BY <1>1 DEF Init, InitBoard, Known, Job
<1>4. InStep /\ Counted
  BY <1>1, <1>2, FS_EmptySet, BoardConstants DEF AllIdle, InStep, Counted
<1>5. QED BY <1>3, <1>4 DEF Sweeps

\* A symbol the board has read.
LEMMA ShorterLine ==
    ASSUME MineTypes, Lines, down # << >>, down' = Tail(down), loading' = (Head(down) = W)
    PROVE  Lines'
<1>1. /\ Head(down) = down[1] /\ Len(down) \in Nat /\ Len(down) >= 1
      /\ Len(down') = Len(down) - 1 /\ DOMAIN down = 1 .. Len(down)
      /\ DOMAIN down' = 1 .. Len(down) - 1
      /\ \A p \in DOMAIN down' : p + 1 \in DOMAIN down /\ down'[p] = down[p + 1]
  BY TailSymbols DEF MineTypes
<1>2. \A p \in DOMAIN down' : down'[p] \in {P, S, W} \/ down'[p] > 0
  BY <1>1 DEF Lines, IsWork
<1>3. \A p \in DOMAIN down' : down'[p] > 0 <=> IF p = 1 THEN loading' ELSE down'[p - 1] = W
  <2> SUFFICES ASSUME NEW p \in DOMAIN down'
               PROVE  down'[p] > 0 <=> IF p = 1 THEN loading' ELSE down'[p - 1] = W
    OBVIOUS
  <2>1. p + 1 \in DOMAIN down /\ down'[p] = down[p + 1] /\ p \in Nat /\ p + 1 # 1
    BY <1>1
  <2>2. down[p + 1] > 0 <=> down[p] = W
    BY <2>1 DEF Lines, IsWork
  <2>3. p # 1 => p - 1 \in DOMAIN down' /\ down'[p - 1] = down[p]
    BY <1>1
  <2>4. QED BY <1>1, <2>1, <2>2, <2>3
<1>4. down' # << >> => down'[Len(down')] # W
  <2>1. down' # << >> => Len(down') \in DOMAIN down' /\ down'[Len(down')] = down[Len(down)]
    BY <1>1
  <2>2. QED BY <2>1 DEF Lines
<1>5. loading' => down' # << >>
  <2>1. loading' => down[1] = W
    BY <1>1
  <2>2. Len(down) = 1 => down[1] # W
    BY DEF Lines
  <2>3. down' = << >> => Len(down') = 0
    OBVIOUS
  <2>4. QED BY <1>1, <2>1, <2>2, <2>3
<1>6. QED BY <1>2, <1>3, <1>4, <1>5 DEF Lines, IsWork

\* A symbol the program has sent.
LEMMA LongerLine ==
    ASSUME MineTypes, Lines, NEW x \in {P, S}, down' = Append(down, x), UNCHANGED loading
    PROVE  Lines'
<1> x \in Int
  BY SymbolsAre
<1>1. /\ Len(down) \in Nat /\ Len(down') = Len(down) + 1 /\ (down = << >> <=> Len(down) = 0)
      /\ DOMAIN down = 1 .. Len(down) /\ DOMAIN down' = 1 .. Len(down) + 1
      /\ (\A p \in DOMAIN down : down'[p] = down[p]) /\ down'[Len(down) + 1] = x
  BY AppendSymbol DEF MineTypes
<1>2. \A p \in DOMAIN down' : p \in DOMAIN down \/ p = Len(down) + 1
  BY <1>1
<1>3. ~(x > 0) /\ x # W
  BY DEF P, S, W
<1>4. \A p \in DOMAIN down' : down'[p] \in {P, S, W} \/ down'[p] > 0
  BY <1>1, <1>2 DEF Lines, IsWork
<1>5. \A p \in DOMAIN down' : down'[p] > 0 <=> IF p = 1 THEN loading' ELSE down'[p - 1] = W
  <2>1. \A p \in DOMAIN down : p # 1 => p - 1 \in DOMAIN down
    BY <1>1
  <2>2. \A p \in DOMAIN down : down'[p] > 0 <=> IF p = 1 THEN loading' ELSE down'[p - 1] = W
    BY <1>1, <2>1 DEF Lines, IsWork
  <2>3. Len(down) # 0 => down'[Len(down)] # W
    <3>1. Len(down) # 0 => Len(down) \in DOMAIN down /\ down # << >>
      BY <1>1
    <3>2. QED BY <1>1, <3>1 DEF Lines
  <2>4. Len(down) = 0 => ~loading'
    BY <1>1 DEF Lines
  <2>5. ~(down'[Len(down) + 1] > 0)
    BY <1>1, <1>3
  <2>6. SUFFICES ASSUME NEW p \in DOMAIN down', p = Len(down) + 1
                 PROVE  ~(IF p = 1 THEN loading' ELSE down'[p - 1] = W)
    BY <1>2, <2>2, <2>5
  <2>7. CASE Len(down) = 0
    BY <2>4, <2>6, <2>7
  <2>8. CASE Len(down) # 0
    <3>1. p # 1 /\ p - 1 = Len(down)
      BY <1>1, <2>6, <2>8
    <3>2. QED BY <2>3, <2>8, <3>1
  <2>9. QED BY <2>7, <2>8
<1>6. down'[Len(down')] # W /\ (loading' => down' # << >>)
  BY <1>1, <1>3
<1>7. QED BY <1>4, <1>5, <1>6 DEF Lines, IsWork

\* The two symbols of a new round.
LEMMA RoundLine ==
    ASSUME MineTypes, Lines, NEW j \in Nat, j > 0, down' = down \o <<W, j>>, UNCHANGED loading
    PROVE  /\ Lines' /\ Len(down') = Len(down) + 2 /\ DOMAIN down' = 1 .. Len(down) + 2
           /\ \A p \in DOMAIN down : down'[p] = down[p]
           /\ down'[Len(down) + 1] = W /\ down'[Len(down) + 2] = j
<1>1. down \in Seq(Int) /\ <<W, j>> \in Seq(Int)
  BY SymbolsAre DEF MineTypes, Symbols
<1>2. /\ Len(down) \in Nat /\ DOMAIN down = 1 .. Len(down) /\ (down = << >> <=> Len(down) = 0)
      /\ Len(down') = Len(down) + 2 /\ DOMAIN down' = 1 .. Len(down) + 2
      /\ \A p \in DOMAIN down : down'[p] = down[p]
      /\ down'[Len(down) + 1] = W /\ down'[Len(down) + 2] = j
  BY <1>1
<1>3. \A p \in DOMAIN down' : p \in DOMAIN down \/ p = Len(down) + 1 \/ p = Len(down) + 2
  BY <1>2
<1>4. ~(W > 0) /\ j # W
  BY DEF W
<1>5. \A p \in DOMAIN down' : down'[p] \in {P, S, W} \/ down'[p] > 0
  BY <1>2, <1>3 DEF Lines, IsWork
<1>6. \A p \in DOMAIN down' : down'[p] > 0 <=> IF p = 1 THEN loading' ELSE down'[p - 1] = W
  <2> SUFFICES ASSUME NEW p \in DOMAIN down'
               PROVE  down'[p] > 0 <=> IF p = 1 THEN loading' ELSE down'[p - 1] = W
    OBVIOUS
  <2>1. CASE p \in DOMAIN down
    <3>1. p # 1 => p - 1 \in DOMAIN down
      BY <1>2, <2>1
    <3>2. QED BY <1>2, <2>1, <3>1 DEF Lines, IsWork
  <2>2. CASE p = Len(down) + 1
    <3>1. ~(down'[p] > 0)
      BY <1>2, <1>4, <2>2
    <3>2. CASE Len(down) = 0
      <4>1. p = 1 /\ ~loading'
        BY <1>2, <2>2, <3>2 DEF Lines
      <4>2. QED BY <3>1, <4>1
    <3>3. CASE Len(down) # 0
      <4>1. p # 1 /\ p - 1 = Len(down) /\ Len(down) \in DOMAIN down
        BY <1>2, <2>2, <3>3
      <4>2. down'[Len(down)] # W
        BY <1>2, <4>1 DEF Lines
      <4>3. QED BY <3>1, <4>1, <4>2
    <3>4. QED BY <3>2, <3>3
  <2>3. CASE p = Len(down) + 2
    <3>1. p # 1 /\ p - 1 = Len(down) + 1
      BY <1>2, <2>3
    <3>2. QED BY <1>2, <2>3, <3>1
  <2>4. QED BY <1>3, <2>1, <2>2, <2>3
<1>7. down'[Len(down')] # W /\ (loading' => down' # << >>)
  BY <1>2, <1>4
<1>8. QED BY <1>2, <1>5, <1>6, <1>7 DEF Lines, IsWork

\* What the board has read leaves the rest of the line as it was, one place further on.
LEMMA FurtherOn ==
    ASSUME MineTypes, down # << >>, down' = Tail(down)
    PROVE  /\ Len(down) \in Nat /\ Len(down) >= 1 /\ DOMAIN down = 1 .. Len(down)
           /\ Head(down) = down[1] /\ Len(down') = Len(down) - 1
           /\ DOMAIN down' = 1 .. Len(down) - 1
           /\ \A p \in DOMAIN down' : p + 1 \in DOMAIN down /\ down'[p] = down[p + 1]
           /\ \A p, r \in Nat : r \in DOMAIN down /\ p >= 1 /\ StopIn(p, r) /\ down[1] # S =>
                 StopIn(IF p = 1 THEN 1 ELSE p - 1, r - 1)'
           /\ \A p, r \in Nat : p >= 2 /\ r \in DOMAIN down /\ StopIn(p, r) => StopIn(p - 1, r - 1)'
<1>1. /\ Len(down) \in Nat /\ Len(down) >= 1 /\ DOMAIN down = 1 .. Len(down)
      /\ Head(down) = down[1] /\ Len(down') = Len(down) - 1 /\ DOMAIN down' = 1 .. Len(down) - 1
      /\ \A p \in DOMAIN down' : p + 1 \in DOMAIN down /\ down'[p] = down[p + 1]
  BY TailSymbols DEF MineTypes
<1>2. ASSUME NEW p \in Nat, NEW r \in Nat, r \in DOMAIN down, p >= 1, StopIn(p, r), down[1] # S
      PROVE  StopIn(IF p = 1 THEN 1 ELSE p - 1, r - 1)'
  <2>1. PICK q \in p .. r : down[q] = S
    BY <1>2 DEF StopIn
  <2>2. q # 1
    BY <1>2, <2>1
  <2>3. q - 1 \in DOMAIN down' /\ down'[q - 1] = S
    BY <1>1, <1>2, <2>1, <2>2
  <2>4. q - 1 \in (IF p = 1 THEN 1 ELSE p - 1) .. r - 1
    BY <1>2, <2>1, <2>2
  <2>5. QED BY <2>3, <2>4 DEF StopIn
<1>3. ASSUME NEW p \in Nat, NEW r \in Nat, p >= 2, r \in DOMAIN down, StopIn(p, r)
      PROVE  StopIn(p - 1, r - 1)'
  <2>1. PICK q \in p .. r : down[q] = S
    BY <1>3 DEF StopIn
  <2>2. q - 1 \in DOMAIN down' /\ down'[q - 1] = S /\ q - 1 \in p - 1 .. r - 1
    BY <1>1, <1>3, <2>1
  <2>3. QED BY <2>2 DEF StopIn
<1>4. QED BY <1>1, <1>2, <1>3

\* Work still finds the cores idle when a symbol has been read: an 'S' stopped them.
LEMMA HeardReset ==
    ASSUME MineTypes, Reset, Quiet, down # << >>, down' = Tail(down),
           UNCHANGED <<host, Spoiled, Job>>,
           AllIdle' \/ (down[1] # S /\ (UNCHANGED core \/ IsWork(1)))
    PROVE  Reset' /\ Quiet'
<1>1. /\ Len(down) \in Nat /\ Len(down) >= 1 /\ DOMAIN down = 1 .. Len(down)
      /\ Len(down') = Len(down) - 1 /\ DOMAIN down' = 1 .. Len(down) - 1
      /\ \A p \in DOMAIN down' : p + 1 \in DOMAIN down /\ down'[p] = down[p + 1]
  BY FurtherOn
<1>2. \A r \in Nat : r \in DOMAIN down /\ StopIn(1, r) => AllIdle' \/ StopIn(1, r - 1)'
  <2> SUFFICES ASSUME NEW r \in Nat, r \in DOMAIN down, StopIn(1, r), ~AllIdle'
               PROVE  StopIn(1, r - 1)'
    OBVIOUS
  <2>1. StopIn(IF 1 = 1 THEN 1 ELSE 1 - 1, r - 1)'
    BY FurtherOn
  <2>2. QED BY <2>1
<1>3. \A p, r \in Nat : p >= 2 /\ r \in DOMAIN down /\ StopIn(p, r) => StopIn(p - 1, r - 1)'
  BY FurtherOn
<1>4. PICK n \in Nat : n = Len(down)
  BY <1>1
<1>5. \A p \in DOMAIN down' : p \in Nat /\ p + 1 \in Nat /\ p + 1 >= 2 /\ p \in DOMAIN down
  BY <1>1
<1>6. AllIdle => AllIdle' \/ IsWork(1)
  BY DEF AllIdle
<1>7. ASSUME NEW p \in DOMAIN down', IsWork(p)', down'[p] > Spoiled PROVE AllIdle' \/ StopIn(1, p - 1)'
  <2>1. p + 1 \in DOMAIN down /\ IsWork(p + 1) /\ (p + 1) - 1 = p /\ down[p + 1] > Spoiled
    BY <1>1, <1>5, <1>7 DEF IsWork
  <2>2. AllIdle' \/ StopIn(1, p)
    <3>1. CASE IsWork(1)
      <4>1. 1 \in DOMAIN down /\ 1 < p + 1
        BY <1>1, <1>5
      <4>2. PICK q \in 1 .. p + 1 : down[q] = S
        BY <2>1, <3>1, <4>1 DEF Reset, StopIn
      <4>3. q # p + 1
        BY <2>1, <4>2 DEF IsWork, S
      <4>4. q \in 1 .. p
        BY <1>5, <4>2, <4>3
      <4>5. QED BY <4>2, <4>4 DEF StopIn
    <3>2. CASE ~IsWork(1)
      BY <1>6, <2>1, <3>2 DEF Reset, Cleared
    <3>3. QED BY <3>1, <3>2
  <2>3. StopIn(1, p) => AllIdle' \/ StopIn(1, p - 1)'
    BY <1>2, <1>5
  <2>4. QED BY <2>2, <2>3
<1>8. ASSUME NEW p \in DOMAIN down', NEW r \in DOMAIN down', p < r, IsWork(p)', IsWork(r)',
             down'[r] > Spoiled
      PROVE  StopIn(p, r)'
  <2>1. /\ p + 1 \in DOMAIN down /\ r + 1 \in DOMAIN down /\ p + 1 < r + 1
        /\ IsWork(p + 1) /\ IsWork(r + 1) /\ down[r + 1] > Spoiled
        /\ (p + 1) - 1 = p /\ (r + 1) - 1 = r
    BY <1>1, <1>5, <1>8 DEF IsWork
  <2>2. StopIn(p + 1, r + 1)
    BY <2>1 DEF Reset
  <2>3. QED BY <1>3, <1>5, <2>1, <2>2
<1>9. ASSUME host \in {"ping", "ready", "pause"}, Job + 1 > Spoiled PROVE AllIdle' \/ StopIn(1, n - 1)'
  <2>1. n \in DOMAIN down /\ 1 \in DOMAIN down /\ (n + 1) - 1 = n
    BY <1>1, <1>4
  <2>2. AllIdle \/ StopIn(1, n)
    BY <1>4, <1>9, <2>1 DEF Quiet, Cleared
  <2>3. IsWork(1) => StopIn(1, n)
    BY <1>4, <1>9, <2>1 DEF Quiet
  <2>4. StopIn(1, n) => AllIdle' \/ StopIn(1, n - 1)'
    BY <1>2, <2>1
  <2>5. QED BY <1>6, <2>2, <2>3, <2>4
<1>10. ASSUME host \in {"ping", "ready", "pause"}, Job + 1 > Spoiled,
              NEW p \in DOMAIN down', IsWork(p)'
       PROVE  StopIn(p, n - 1)'
  <2>1. p + 1 \in DOMAIN down /\ n \in DOMAIN down /\ IsWork(p + 1) /\ (p + 1) - 1 = p
    BY <1>1, <1>4, <1>5, <1>10 DEF IsWork
  <2>2. StopIn(p + 1, n)
    BY <1>4, <1>10, <2>1 DEF Quiet
  <2>3. QED BY <1>3, <1>5, <2>1, <2>2
<1>11. Len(down') = n - 1 /\ (n - 1) + 1 - 1 = n - 1
  BY <1>1, <1>4
<1>12. Reset'
  BY <1>7, <1>8 DEF Reset, Cleared
<1>13. Quiet'
  BY <1>9, <1>10, <1>11 DEF Quiet, Cleared
<1>14. QED BY <1>12, <1>13

\* What the line held is still where it was.
LEMMA SentReset ==
    ASSUME MineTypes, Reset, NEW x \in {P, S}, down' = Append(down, x),
           UNCHANGED <<core, Spoiled>>
    PROVE  Reset' /\ (x = S => Quiet')
<1> x \in Int
  BY SymbolsAre
<1>1. PICK n \in Nat : n = Len(down)
  BY AppendSymbol DEF MineTypes
<1>2. /\ Len(down') = n + 1 /\ DOMAIN down = 1 .. n /\ DOMAIN down' = 1 .. n + 1
      /\ (\A p \in DOMAIN down : down'[p] = down[p]) /\ down'[n + 1] = x
  BY <1>1, AppendSymbol DEF MineTypes
<1>3. ~(x > 0)
  BY DEF P, S
<1>4. \A p \in DOMAIN down' : IsWork(p)' =>
         p \in DOMAIN down /\ IsWork(p) /\ p \in Nat /\ down'[p] = down[p]
  <2> SUFFICES ASSUME NEW p \in DOMAIN down', IsWork(p)' PROVE p \in DOMAIN down /\ IsWork(p)
    BY <1>2
  <2>1. p \in DOMAIN down \/ p = n + 1
    BY <1>2
  <2>2. QED BY <1>2, <1>3, <2>1 DEF IsWork
<1>5. ASSUME NEW p \in Nat, NEW r \in Nat, p >= 1, r <= n, StopIn(p, r) PROVE StopIn(p, r)'
  <2>1. PICK q \in p .. r : down[q] = S
    BY <1>5 DEF StopIn
  <2>2. q \in DOMAIN down
    BY <1>2, <1>5, <2>1
  <2>3. QED BY <1>2, <2>1, <2>2 DEF StopIn
<1>6. AllIdle => AllIdle'
  BY DEF AllIdle
<1>7. ASSUME NEW p \in DOMAIN down', IsWork(p)', down'[p] > Spoiled PROVE Cleared(p)'
  <2>1. p \in DOMAIN down /\ p \in Nat /\ p - 1 \in Nat /\ p - 1 <= n
    BY <1>2, <1>4, <1>7
  <2>2. AllIdle \/ StopIn(1, p - 1)
    BY <1>4, <1>7 DEF Reset, Cleared
  <2>3. QED BY <1>5, <1>6, <2>1, <2>2 DEF Cleared
<1>8. ASSUME NEW p \in DOMAIN down', NEW r \in DOMAIN down', p < r, IsWork(p)', IsWork(r)',
             down'[r] > Spoiled
      PROVE  StopIn(p, r)'
  <2>1. p \in Nat /\ r \in Nat /\ p >= 1 /\ r <= n
    BY <1>2, <1>4, <1>8
  <2>2. StopIn(p, r)
    BY <1>4, <1>8 DEF Reset
  <2>3. QED BY <1>5, <2>1, <2>2
<1>9. Reset'
  BY <1>7, <1>8 DEF Reset
<1>10. ASSUME x = S PROVE Quiet'
  <2>1. \A p \in DOMAIN down' : n + 1 \in p .. n + 1
    BY <1>2
  <2>2. n + 1 \in 1 .. (n + 1) + 1 - 1
    OBVIOUS
  <2>3. StopIn(1, (n + 1) + 1 - 1)' /\ \A p \in DOMAIN down' : StopIn(p, n + 1)'
    BY <1>2, <1>10, <2>1, <2>2 DEF StopIn
  <2>4. QED BY <1>2, <2>3 DEF Quiet, Cleared
<1>11. QED BY <1>9, <1>10

\* A round begins when the cores are idle, or will be before they hear of it.
LEMMA RoundReset ==
    ASSUME MineTypes, Lines, Reset, Quiet, host = "ready", NEW j \in Nat, j > 0,
           j = Job + 1, down' = down \o <<W, j>>, UNCHANGED <<core, loading, Spoiled>>
    PROVE  Reset'
<1>1. /\ Len(down') = Len(down) + 2 /\ DOMAIN down' = 1 .. Len(down) + 2
      /\ \A p \in DOMAIN down : down'[p] = down[p]
      /\ down'[Len(down) + 1] = W /\ down'[Len(down) + 2] = j
  BY RoundLine
<1>2. PICK n \in Nat : n = Len(down) /\ DOMAIN down = 1 .. n
  BY DEF MineTypes, Symbols
<1>3. \A p \in DOMAIN down' : IsWork(p)' => p \in Nat /\ ((p \in DOMAIN down /\ IsWork(p)) \/ p = n + 2)
  <2> SUFFICES ASSUME NEW p \in DOMAIN down', IsWork(p)'
               PROVE  p \in Nat /\ ((p \in DOMAIN down /\ IsWork(p)) \/ p = n + 2)
    OBVIOUS
  <2>1. p \in Nat /\ (p \in DOMAIN down \/ p = n + 1 \/ p = n + 2)
    BY <1>1, <1>2
  <2>2. p # n + 1
    BY <1>1, <1>2 DEF IsWork, W
  <2>3. QED BY <1>1, <2>1, <2>2 DEF IsWork
<1>4. ASSUME NEW p \in Nat, NEW r \in Nat, NEW u \in Nat, p >= 1, r <= n, r <= u, StopIn(p, r)
      PROVE  StopIn(p, u)'
  <2>1. PICK q \in p .. r : down[q] = S
    BY <1>4 DEF StopIn
  <2>2. q \in DOMAIN down /\ q \in p .. u
    BY <1>2, <1>4, <2>1
  <2>3. QED BY <1>1, <2>1, <2>2 DEF StopIn
<1>5. AllIdle => AllIdle'
  BY DEF AllIdle
<1>6. j > Spoiled => AllIdle \/ StopIn(1, n)
  <2>1. n + 1 - 1 = n
    OBVIOUS
  <2>2. QED BY <1>2, <2>1 DEF Quiet, Cleared
<1>7. ASSUME NEW p \in DOMAIN down', IsWork(p)', down'[p] > Spoiled PROVE AllIdle' \/ StopIn(1, p - 1)'
  <2>1. CASE p \in DOMAIN down /\ IsWork(p)
    <3>1. p - 1 \in Nat /\ p - 1 <= n
      BY <1>2, <2>1
    <3>2. AllIdle \/ StopIn(1, p - 1)
      BY <1>1, <1>7, <2>1 DEF Reset, Cleared
    <3>3. QED BY <1>4, <1>5, <3>1, <3>2
  <2>2. CASE p = n + 2
    <3>1. p - 1 \in Nat /\ n <= p - 1 /\ j > Spoiled
      BY <1>1, <1>2, <1>7, <2>2
    <3>2. QED BY <1>4, <1>5, <1>6, <3>1
  <2>3. QED BY <1>3, <1>7, <2>1, <2>2
<1>8. ASSUME NEW p \in DOMAIN down', NEW r \in DOMAIN down', p < r, IsWork(p)', IsWork(r)',
             down'[r] > Spoiled
      PROVE  StopIn(p, r)'
  <2>1. p \in Nat /\ r \in Nat /\ p >= 1 /\ r <= n + 2
    BY <1>1, <1>2, <1>3, <1>8
  <2>2. p \in DOMAIN down /\ IsWork(p)
    BY <1>3, <1>8, <2>1
  <2>3. CASE r \in DOMAIN down /\ IsWork(r)
    <3>1. StopIn(p, r) /\ r <= n
      BY <1>1, <1>2, <1>8, <2>2, <2>3 DEF Reset
    <3>2. QED BY <1>4, <2>1, <3>1
  <2>4. CASE r = n + 2
    <3>1. StopIn(p, n) /\ n <= r
      BY <1>1, <1>2, <1>8, <2>2, <2>4 DEF Quiet
    <3>2. QED BY <1>4, <2>1, <3>1
  <2>5. QED BY <1>3, <1>8, <2>3, <2>4
<1>9. QED BY <1>7, <1>8 DEF Reset, Cleared

-------------------------------------------------------------------------------
\* One nonce more of every core.
LEMMA LoadingIsIdle == MineTypes /\ Lines /\ Reset /\ loading /\ down[1] > Spoiled => AllIdle
<1> SUFFICES ASSUME MineTypes, Lines, Reset, loading, down[1] > Spoiled PROVE AllIdle
  OBVIOUS
<1>1. down # << >> /\ Len(down) >= 1 /\ DOMAIN down = 1 .. Len(down)
  BY TailSymbols DEF Lines, MineTypes
<1>2. 1 \in DOMAIN down /\ IsWork(1)
  BY <1>1, TailSymbols DEF Lines, MineTypes
<1>3. ~StopIn(1, 1 - 1)
  BY DEF StopIn
<1>4. QED BY <1>2, <1>3 DEF Reset, Cleared

LEMMA AtIs ==
    ASSUME NEW i \in Core, NEW t \in Nat
    PROVE  /\ At(i, t) \in Nonce
           /\ At(i, t + 1) = (At(i, t) + Cores) % NonceCount
           /\ i + t * Cores \in Nat /\ (t + 1) * Cores = t * Cores + Cores
           /\ i + t * Cores < NonceCount => At(i, t) = i + t * Cores
           /\ At(i, 0) = i
<1>1. t * Cores \in Nat /\ (t + 1) * Cores = t * Cores + Cores
  BY BoardConstants
<1>2. i \in Nat
  BY BoardConstants
<1> DEFINE a == i + t * Cores
<1>3. a \in Nat /\ i + (t + 1) * Cores = a + Cores
  BY <1>1, <1>2, BoardConstants
<1>4. a % NonceCount \in Nonce /\ (a < NonceCount => a % NonceCount = a)
  <2> HIDE DEF a
  <2>1. QED BY <1>3, BoardConstants
<1>5. (a + Cores) % NonceCount = ((a % NonceCount) + Cores) % NonceCount
  <2> HIDE DEF a
  <2>1. QED BY <1>3, BoardConstants, ModSum
<1>6. At(i, t + 1) = (At(i, t) + Cores) % NonceCount
  BY <1>3, <1>5 DEF At
<1>7. At(i, 0) = i
  BY BoardConstants DEF At
<1>8. QED BY <1>1, <1>3, <1>4, <1>6, <1>7 DEF At

\* Cores in step try nonces that none of them has tried, until the space is covered.
LEMMA TickCounted ==
    ASSUME MineTypes, InStep, Counted, Tick, work > Spoiled
    PROVE  /\ tested' = tested \cup {At(i, ticks) : i \in Busy}
           /\ ticks' * Cores <= NonceCount =>
                 tests' = Cardinality(tested') /\ \A n \in tested' : n < ticks' * Cores
<1>1. ticks \in Nat /\ ticks' = ticks + 1 /\ IsFiniteSet(Core) /\ Busy \subseteq Core
  BY FS_Interval, BoardConstants DEF MineTypes, Tick, Busy
<1>2. \A i \in Busy : core[i].under = work /\ core[i].nonce = At(i, ticks)
  BY DEF InStep, Busy
<1>3. {i \in Busy : core[i].under = work} = Busy
  BY <1>2
<1>4. tested' = tested \cup {At(i, ticks) : i \in Busy} /\ tests' = tests + Cardinality(Busy)
  <2>1. tested' = tested \cup {core[i].nonce : i \in Busy} /\ tests' = tests + Cardinality(Busy)
    BY <1>3 DEF Tick
  <2>2. {core[i].nonce : i \in Busy} = {At(i, ticks) : i \in Busy}
    BY <1>2
  <2>3. QED BY <2>1, <2>2
<1> DEFINE now == {At(i, ticks) : i \in Busy}
<1>5. IsFiniteSet(Busy) /\ IsFiniteSet(tested)
  <2>1. IsFiniteSet(Nonce)
    BY FS_Interval, BoardConstants
  <2>2. QED BY <1>1, <2>1, FS_Subset DEF MineTypes
<1>6. ASSUME ticks' * Cores <= NonceCount
      PROVE  tests' = Cardinality(tested') /\ \A n \in tested' : n < ticks' * Cores
  <2>1. ticks' * Cores = ticks * Cores + Cores /\ ticks * Cores \in Nat
    BY <1>1, BoardConstants
  <2>2. \A i \in Busy : /\ i \in Nat /\ At(i, ticks) = i + ticks * Cores
                        /\ At(i, ticks) >= ticks * Cores /\ At(i, ticks) < ticks' * Cores
    <3> SUFFICES ASSUME NEW i \in Busy
                 PROVE  /\ i \in Nat /\ At(i, ticks) = i + ticks * Cores
                        /\ At(i, ticks) >= ticks * Cores /\ At(i, ticks) < ticks' * Cores
      OBVIOUS
    <3>1. i \in Core /\ i \in Nat /\ i < Cores
      BY <1>1, BoardConstants
    <3>2. i + ticks * Cores < NonceCount
      BY <1>6, <2>1, <3>1, BoardConstants
    <3>3. At(i, ticks) = i + ticks * Cores
      BY <1>1, <3>1, <3>2, AtIs
    <3>4. QED BY <2>1, <3>1, <3>3, BoardConstants
  <2>3. ticks * Cores <= NonceCount
    BY <1>6, <2>1, BoardConstants
  <2>4. tests = Cardinality(tested) /\ \A n \in tested : n < ticks * Cores
    BY <2>3 DEF Counted
  <2>5. now \cap tested = {}
    <3> SUFFICES ASSUME NEW i \in Busy, At(i, ticks) \in tested PROVE FALSE
      OBVIOUS
    <3>1. At(i, ticks) < ticks * Cores /\ At(i, ticks) >= ticks * Cores
      BY <2>2, <2>4
    <3>2. At(i, ticks) \in Nat
      BY <1>1, BoardConstants, AtIs
    <3>3. QED BY <2>1, <3>1, <3>2
  <2>6. IsFiniteSet(now) /\ Cardinality(now) = Cardinality(Busy)
    <3> DEFINE f == [i \in Busy |-> At(i, ticks)]
    <3>1. f \in Surjection(Busy, now)
      BY DEF Surjection
    <3>2. \A i, j \in Busy : f[i] = f[j] => i = j
      BY <2>1, <2>2
    <3>3. f \in Bijection(Busy, now)
      BY <3>1, <3>2 DEF Bijection, Injection, IsInjective
    <3>4. QED BY <3>3, <1>5, FS_Bijection DEF ExistsBijection
  <2>7. Cardinality(tested') = Cardinality(tested) + Cardinality(now)
    <3>1. Cardinality(tested \cap now) = 0
      BY <2>5, FS_EmptySet
    <3>2. Cardinality(tested \cup now) = Cardinality(tested) + Cardinality(now) - Cardinality(tested \cap now)
      BY <1>5, <2>6, FS_Union
    <3>3. Cardinality(tested) \in Nat /\ Cardinality(now) \in Nat
      BY <1>5, <2>6, FS_CardinalityType
    <3> HIDE DEF now
    <3>4. Cardinality(tested \cup now) = Cardinality(tested) + Cardinality(now)
      BY <3>1, <3>2, <3>3
    <3>5. QED BY <3>4, <1>4 DEF now
  <2>8. \A n \in tested' : n < ticks' * Cores
    <3>1. \A n \in tested : n \in Nat
      BY BoardConstants DEF MineTypes
    <3>2. \A n \in tested : n < ticks' * Cores
      BY <2>1, <2>4, <3>1, BoardConstants
    <3>3. QED BY <1>4, <2>2, <3>2
  <2>9. QED BY <1>4, <2>4, <2>6, <2>7, <2>8
<1>7. QED BY <1>4, <1>6

\* A core that missed is at the next nonce of its own.
LEMMA TickInStep ==
    ASSUME MineTypes, Lines, Reset, InStep, Tick, UNCHANGED Spoiled
    PROVE  InStep'
<1>1. ~(loading /\ down[1] > Spoiled)
  <2>1. ~AllIdle
    BY DEF Tick, Busy, AllIdle
  <2>2. QED BY <2>1, LoadingIsIdle
<1>2. /\ work' = work /\ ticks \in Nat /\ ticks' = ticks + 1
      /\ UNCHANGED <<loading, draining, down>>
  BY DEF Tick, MineTypes
<1>3. ASSUME work > Spoiled, NEW i \in Core, core'[i].busy
      PROVE  core'[i].under = work' /\ core'[i].nonce = At(i, ticks + 1)
  <2>1. core'[i] = IF i \in Busy THEN Stepped(i) ELSE core[i]
    BY DEF Tick
  <2>2. i \in Busy /\ core[i].busy
    BY <1>3, <2>1 DEF Busy
  <2>3. i \notin Hits
    BY <1>3, <2>1, <2>2 DEF Stepped, Idle
  <2>4. core'[i] = [core[i] EXCEPT !.nonce = (@ + Cores) % NonceCount, !.under = work]
    BY <2>1, <2>2, <2>3 DEF Stepped
  <2>5. core[i] \in Scanner /\ core[i].nonce = At(i, ticks)
    BY <1>3, <2>2 DEF InStep, MineTypes
  <2>6. core'[i].under = work /\ core'[i].nonce = (At(i, ticks) + Cores) % NonceCount
    BY <2>4, <2>5 DEF Scanner
  <2>7. QED BY <1>2, <2>6, AtIs
<1>4. QED BY <1>1, <1>2, <1>3 DEF InStep

\* A hit of this tick is reported, or a report with one is being sent.
LEMMA TickListening ==
    ASSUME MineTypes, InStep, Counted, Listening, Tick, UNCHANGED <<host, Job, Spoiled>>
    PROVE  Listening'
<1>1. /\ UNCHANGED <<down, up, loading, work>> /\ ticks \in Nat /\ ticks' = ticks + 1
      /\ work > Spoiled => tested' = tested \cup {At(i, ticks) : i \in Busy}
  BY TickCounted DEF Tick, MineTypes
<1>2. Pending => Pending'
  BY <1>1 DEF Pending, IsWork
<1>3. TagComes => TagComes'
  <2>1. CASE \E i \in DOMAIN up : up[i] = Tag
    BY <1>1, <2>1 DEF TagComes
  <2>2. CASE \E i \in DOMAIN report : report[i] = Tag
    <3>1. report # << >>
      BY <2>2
    <3>2. report' = report
      BY <3>1 DEF Tick
    <3>3. QED BY <2>2, <3>2 DEF TagComes
  <2>3. QED BY <2>1, <2>2 DEF TagComes
<1>4. work > Spoiled /\ NoHit => TagComes' \/ NoHit'
  <2> SUFFICES ASSUME work > Spoiled, NoHit PROVE TagComes' \/ NoHit'
    OBVIOUS
  <2>1. report = << >> /\ Busy = Core
    BY DEF NoHit, Busy
  <2>2. CASE Hits # {}
    <3>1. \E i \in Winners : report' = <<Tag, core[i].nonce, Digest>>
      BY <2>1, <2>2 DEF Tick
    <3>2. 1 \in DOMAIN report' /\ report'[1] = Tag
      BY <3>1
    <3>3. QED BY <3>2 DEF TagComes
  <2>3. CASE Hits = {}
    <3>1. report' = << >>
      BY <2>1, <2>3 DEF Tick
    <3>2. ASSUME NEW i \in Core PROVE core'[i].busy
      <4>1. core'[i] = Stepped(i) /\ core[i].busy /\ core[i] \in Scanner
        BY <2>1 DEF Tick, Busy, MineTypes
      <4>2. Stepped(i) = [core[i] EXCEPT !.nonce = (@ + Cores) % NonceCount, !.under = work]
        BY <2>3 DEF Stepped
      <4>3. QED BY <4>1, <4>2 DEF Scanner
    <3>3. tested' = {At(i, t) : i \in Core, t \in 0 .. ticks' - 1}
      <4>1. tested = {At(i, t) : i \in Core, t \in 0 .. ticks - 1}
        BY DEF NoHit
      <4>2. 0 .. ticks' - 1 = (0 .. ticks - 1) \cup {ticks}
        BY <1>1
      <4>3. QED BY <1>1, <2>1, <4>1, <4>2
    <3>4. QED BY <3>1, <3>2, <3>3 DEF NoHit
  <2>4. QED BY <2>2, <2>3
<1>5. Job > Spoiled /\ Loaded => Loaded'
  BY <1>1, <1>3, <1>4 DEF Loaded
<1>6. QED BY <1>2, <1>5 DEF Listening

LEMMA TickStep == ASSUME MineTypes, Sweeps, Tick, UNCHANGED program PROVE Sweeps'
<1> USE DEF Sweeps
<1>1. UNCHANGED <<down, up, loading, work, host, status, runs, Spoiled, Job>>
  BY SpoiledIs DEF Tick, program
<1>2. ~AllIdle
  BY DEF Tick, Busy, AllIdle
<1>3. Lines' /\ Known'
  BY <1>1 DEF Lines, Known, IsWork
<1>4. Reset'
  BY <1>1, <1>2 DEF Reset, Cleared, StopIn, IsWork
<1>5. Quiet'
  BY <1>1, <1>2 DEF Quiet, Cleared, StopIn, IsWork
<1>6. InStep' /\ Listening'
  BY <1>1, TickInStep, TickListening
<1> Counted'
  BY <1>1, TickCounted DEF Counted
<1>7. TimedOut'
  <2>1. tested \subseteq tested' /\ tested' \subseteq Nonce
    <3>1. \A i \in Busy : core[i].nonce \in Nonce
      BY DEF Busy, MineTypes, Scanner
    <3>2. QED BY <3>1 DEF Tick, MineTypes
  <2>2. QED BY <1>1, <2>1 DEF TimedOut
<1>8. Unused'
  BY <1>1, <1>2 DEF Unused
<1>9. QED BY <1>3, <1>4, <1>5, <1>6, <1>7, <1>8

-------------------------------------------------------------------------------
\* A symbol read by the board.
LEMMA LoadStep == ASSUME MineTypes, Sweeps, Load, UNCHANGED program PROVE Sweeps'
<1> USE DEF Sweeps
<1>1. /\ loading /\ ~draining /\ down # << >> /\ down' = Tail(down) /\ ~loading'
      /\ ticks' = 0 /\ tested' = {} /\ tests' = 0 /\ work' = Head(down)
      /\ UNCHANGED <<up, report, host, status, runs, Spoiled, Job>>
  BY SpoiledIs DEF Load, program
<1>2. /\ Head(down) = down[1] /\ DOMAIN down = 1 .. Len(down) /\ Len(down) >= 1
      /\ Len(down) \in Nat /\ 1 \in DOMAIN down
      /\ \A p \in DOMAIN down' : p \in Nat /\ p + 1 \in DOMAIN down /\ down'[p] = down[p + 1]
  BY <1>1, FurtherOn
<1>3. /\ IsWork(1)
      /\ work' > Spoiled => AllIdle /\ report = << >>
  BY <1>1, <1>2, LoadingIsIdle DEF Lines, InStep
<1>4. down[1] # W /\ down[1] # S
  BY <1>3 DEF IsWork, W, S
<1>5. Lines' /\ Known'
  <2>1. loading' = (Head(down) = W)
    BY <1>2, <1>4 DEF Load
  <2>2. Lines'
    BY <1>1, <2>1, ShorterLine
  <2>3. QED BY <1>1, <1>2, <2>2 DEF Known
<1>6. Reset' /\ Quiet'
  BY <1>1, <1>3, <1>4, HeardReset
<1>7. work' > Spoiled =>
         \A i \in Core : core'[i].busy /\ core'[i].nonce = i /\ core'[i].under = work'
  <2> SUFFICES ASSUME work' > Spoiled, NEW i \in Core
               PROVE  core'[i].busy /\ core'[i].nonce = i /\ core'[i].under = work'
    OBVIOUS
  <2>1. core'[i] = [busy |-> TRUE, nonce |-> i, under |-> Head(down), since |-> Head(down)]
    BY <1>3 DEF Load, AllIdle, Started
  <2>2. QED BY <1>1, <2>1
<1>8. InStep'
  <2>1. \A i \in Core : At(i, ticks') = i
    BY <1>1, AtIs
  <2>2. work' > Spoiled =>
           \A i \in Core : core'[i].under = work' /\ core'[i].nonce = At(i, ticks')
    BY <1>1, <1>7, <2>1
  <2>3. QED BY <1>1, <2>2 DEF InStep
<1>9. Counted'
  <2>1. Cardinality({}) = 0
    BY FS_EmptySet
  <2>2. QED BY <1>1, <2>1 DEF Counted
<1>10. Listening'
  <2> SUFFICES ASSUME host = "tag", Job > Spoiled PROVE Pending' \/ Loaded'
    BY <1>1 DEF Listening
  <2>1. PICK p \in DOMAIN down :
           IsWork(p) /\ down[p] = Job /\ \A q \in DOMAIN down : q > p => down[q] = P
    BY <1>1 DEF Listening, Loaded, Pending
  <2>2. p \in Nat /\ p >= 1
    BY <1>2
  <2>3. CASE p = 1
    <3>1. /\ \A q \in DOMAIN down' : down'[q] = P
          /\ work' = Job /\ work' > Spoiled
      BY <1>1, <1>2, <2>1, <2>3
    <3>2. NoHit'
      <4>1. 0 .. ticks' - 1 = {}
        BY <1>1
      <4>2. {At(i, t) : i \in Core, t \in 0 .. ticks' - 1} = {}
        BY <4>1
      <4>3. QED BY <1>1, <1>3, <1>7, <3>1, <4>2 DEF NoHit
    <3>3. QED BY <1>1, <3>1, <3>2 DEF Loaded
  <2>4. CASE p # 1
    <3>1. p - 1 \in DOMAIN down' /\ (p - 1) + 1 = p
      BY <1>1, <1>2, <2>1, <2>2, <2>4, FurtherOn
    <3>2. /\ IsWork(p - 1)' /\ down'[p - 1] = Job'
          /\ \A q \in DOMAIN down' : q > p - 1 => down'[q] = P
      <4>1. \A q \in DOMAIN down' : q > p - 1 => q + 1 > p
        BY <1>2, <2>2
      <4>2. QED BY <1>1, <1>2, <2>1, <3>1, <4>1 DEF IsWork
    <3>3. QED BY <3>1, <3>2 DEF Pending
  <2>5. QED BY <2>3, <2>4
<1>11. TimedOut'
  BY <1>1 DEF TimedOut
<1>12. Unused'
  BY <1>1 DEF Unused, program
<1>13. QED BY <1>5, <1>6, <1>8, <1>9, <1>10, <1>11, <1>12

LEMMA ControlStep ==
    ASSUME MineTypes, Sweeps, RxW \/ RxS \/ RxP, UNCHANGED program
    PROVE  Sweeps'
<1> USE DEF Sweeps
<1>1. /\ ~loading /\ down # << >> /\ down' = Tail(down) /\ loading' = (Head(down) = W)
      /\ UNCHANGED <<up, report, work, ticks, tested, tests, host, status, runs, Spoiled, Job>>
  <2>1. UNCHANGED <<host, status, runs>> /\ UNCHANGED <<Spoiled, Job>>
    BY SpoiledIs DEF program, RxW, RxS, RxP
  <2>2. CASE RxW
    BY <2>1, <2>2 DEF RxW
  <2>3. CASE RxS \/ RxP
    <3>1. Head(down) # W /\ loading = FALSE
      BY <2>3 DEF RxS, RxP, S, P, W, MineTypes
    <3>2. loading' = (Head(down) = W)
      BY <2>3, <3>1 DEF RxS, RxP
    <3>3. QED BY <2>1, <2>3, <3>2 DEF RxS, RxP
  <2>4. QED BY <2>2, <2>3
<1>2. /\ Head(down) = down[1] /\ DOMAIN down = 1 .. Len(down) /\ Len(down) >= 1
      /\ Len(down) \in Nat /\ 1 \in DOMAIN down /\ Len(down') = Len(down) - 1
      /\ \A p \in DOMAIN down' : p \in Nat /\ p + 1 \in DOMAIN down /\ down'[p] = down[p + 1]
      /\ DOMAIN down' = 1 .. Len(down) - 1
  BY <1>1, FurtherOn
<1>3. ~IsWork(1)
  BY <1>1, <1>2 DEF Lines
<1>4. AllIdle' \/ (down[1] # S /\ UNCHANGED core)
  <2>1. CASE RxS
    BY <2>1 DEF RxS, Idle, AllIdle
  <2>2. CASE RxW \/ RxP
    BY <1>2, <2>2 DEF RxW, RxP, W, S, P
  <2>3. QED BY <2>1, <2>2
<1>5. Lines' /\ Known'
  BY <1>1, <1>2, ShorterLine DEF Known
<1>6. Reset' /\ Quiet'
  <2>1. UNCHANGED <<host, Spoiled, Job>>
    BY <1>1
  <2>2. QED BY <1>1, <1>4, <2>1, HeardReset
<1>7. InStep'
  <2>1. \A i \in Core : core'[i].busy => core'[i] = core[i]
    BY <1>4 DEF AllIdle
  <2>2. loading' /\ ~draining' => report' = << >>
    BY <1>1 DEF RxW, RxS, RxP, MineTypes
  <2>3. QED BY <1>1, <2>1, <2>2 DEF InStep
<1>8. Counted'
  BY <1>1 DEF Counted
<1>9. Listening'
  <2> SUFFICES ASSUME host = "tag", Job > Spoiled PROVE Pending' \/ Loaded'
    BY <1>1 DEF Listening
  <2>1. CASE Pending
    <3>1. PICK p \in DOMAIN down : IsWork(p) /\ down[p] = Job /\ \A q \in DOMAIN down : q > p => down[q] = P
      BY <2>1 DEF Pending
    <3>2. p \in Nat /\ p >= 1 /\ p # 1
      BY <1>2, <1>3, <3>1
    <3>3. p - 1 \in DOMAIN down' /\ (p - 1) + 1 = p
      BY <1>2, <3>1, <3>2
    <3>4. IsWork(p - 1)' /\ down'[p - 1] = Job' /\ \A q \in DOMAIN down' : q > p - 1 => down'[q] = P
      <4>1. \A q \in DOMAIN down' : q > p - 1 => q + 1 > p
        BY <1>2, <3>2
      <4>2. QED BY <1>1, <1>2, <3>1, <3>3, <4>1 DEF IsWork
    <3>5. QED BY <3>3, <3>4 DEF Pending
  <2>2. CASE Loaded
    <3>1. down[1] = P
      BY <1>2, <2>2 DEF Loaded
    <3>2. UNCHANGED <<core, loading>>
      BY <1>2, <3>1 DEF RxW, RxS, RxP, W, S, P
    <3>3. \A p \in DOMAIN down' : down'[p] = P
      BY <1>2, <2>2 DEF Loaded
    <3>4. TagComes \/ NoHit => (TagComes \/ NoHit)'
      BY <1>1, <3>2 DEF TagComes, NoHit
    <3>5. QED BY <1>1, <2>2, <3>2, <3>3, <3>4 DEF Loaded
  <2>3. QED BY <2>1, <2>2 DEF Listening
<1>10. TimedOut'
  <2> SUFFICES ASSUME Job > Spoiled, status.how = "timeout"
               PROVE  ~loading' /\ \A p \in DOMAIN down' : down'[p] \in {P, S}
    BY <1>1 DEF TimedOut
  <2>1. \A p \in DOMAIN down : down[p] \in {P, S}
    BY DEF TimedOut
  <2>2. Head(down) # W
    BY <1>2, <2>1 DEF P, S, W
  <2>3. QED BY <1>1, <1>2, <2>1, <2>2
<1>11. Unused'
  BY <1>1 DEF Unused
<1>12. QED BY <1>5, <1>6, <1>7, <1>8, <1>9, <1>10, <1>11

-------------------------------------------------------------------------------
\* A symbol sent by the board: the tag of a report reaches the program.
LEMMA SentStep == ASSUME MineTypes, Sweeps, Tx, UNCHANGED program PROVE Sweeps'
<1> USE DEF Sweeps
<1>1. UNCHANGED <<down, loading, work, core, ticks, tested, tests, host, status, runs, Spoiled, Job>>
  BY SpoiledIs DEF Tx, TxReport, TxK, program
<1>2. Lines' /\ Known' /\ Reset' /\ Quiet' /\ Counted' /\ TimedOut'
  BY <1>1 DEF Lines, Known, Reset, Quiet, Counted, TimedOut, IsWork, Cleared, StopIn, AllIdle
<1>3. Pending => Pending'
  BY <1>1 DEF Pending, IsWork
<1>4. CASE TxReport
  <2>1. /\ report # << >> /\ up' = Append(up, Head(report)) /\ report' = Tail(report)
        /\ draining' = (draining /\ report' # << >>)
    BY <1>4 DEF TxReport
  <2>2. InStep'
    <3>1. loading' /\ ~draining' /\ down'[1] > Spoiled' => report' = << >>
      BY <1>1, <2>1 DEF InStep, MineTypes
    <3>2. QED BY <1>1, <3>1 DEF InStep
  <2>3. Unused'
    BY <1>1, <2>1 DEF Unused
  <2>4. TagComes => TagComes'
    <3>1. /\ Head(report) = report[1] /\ DOMAIN report = 1 .. Len(report) /\ Len(report) \in Nat
          /\ DOMAIN Tail(report) = 1 .. Len(report) - 1 /\ Head(report) \in Int
          /\ \A i \in DOMAIN Tail(report) : Tail(report)[i] = report[i + 1]
      BY <2>1, TailSymbols DEF MineTypes
    <3>2. /\ DOMAIN up = 1 .. Len(up) /\ Len(up) \in Nat /\ DOMAIN up' = 1 .. Len(up) + 1
          /\ (\A i \in DOMAIN up : up'[i] = up[i]) /\ up'[Len(up) + 1] = Head(report)
      BY <2>1, <3>1, AppendSymbol DEF MineTypes
    <3>3. CASE \E i \in DOMAIN up : up[i] = Tag
      BY <3>2, <3>3 DEF TagComes
    <3>4. ASSUME NEW i \in DOMAIN report, report[i] = Tag PROVE TagComes'
      <4>1. CASE i = 1
        <5>1. Len(up) + 1 \in DOMAIN up' /\ up'[Len(up) + 1] = Tag
          BY <3>1, <3>2, <3>4, <4>1
        <5>2. QED BY <5>1 DEF TagComes
      <4>2. CASE i # 1
        <5>1. i - 1 \in DOMAIN report' /\ (i - 1) + 1 = i
          BY <2>1, <3>1, <4>2
        <5>2. report'[i - 1] = Tag
          BY <2>1, <3>1, <3>4, <5>1
        <5>3. QED BY <5>1, <5>2 DEF TagComes
      <4>3. QED BY <4>1, <4>2
    <3>5. QED BY <3>3, <3>4 DEF TagComes
  <2>5. Listening'
    BY <1>1, <1>3, <2>1, <2>4 DEF Listening, Loaded, NoHit
  <2>6. QED BY <1>2, <2>2, <2>3, <2>5
<1>5. CASE TxK
  <2>1. ping /\ up' = Append(up, K) /\ UNCHANGED <<report, draining>>
    BY <1>5 DEF TxK
  <2>2. InStep' /\ Unused'
    BY <1>1, <2>1 DEF InStep, Unused
  <2>3. TagComes => TagComes'
    <3>1. DOMAIN up \subseteq DOMAIN up' /\ \A i \in DOMAIN up : up'[i] = up[i]
      <4>1. /\ DOMAIN up = 1 .. Len(up) /\ DOMAIN up' = 1 .. Len(up) + 1 /\ Len(up) \in Nat
            /\ \A i \in DOMAIN up : up'[i] = up[i]
        <5>1. /\ up \in Symbols /\ K \in Int
          BY SymbolsAre DEF MineTypes
        <5>2. /\ Len(up) \in Nat /\ DOMAIN up = 1 .. Len(up) /\ DOMAIN Append(up, K) = 1 .. Len(up) + 1
              /\ \A i \in DOMAIN up : Append(up, K)[i] = up[i]
          BY <5>1, AppendSymbol
        <5>3. QED BY <2>1, <5>2
      <4>2. QED BY <4>1
    <3>2. QED BY <2>1, <3>1 DEF TagComes
  <2>4. NoHit => NoHit'
    BY <1>1, <2>1 DEF NoHit
  <2>5. Listening'
    BY <1>1, <1>3, <2>3, <2>4 DEF Listening, Loaded
  <2>6. QED BY <1>2, <2>2, <2>5
<1>6. QED BY <1>4, <1>5 DEF Tx

\* What a step of the program leaves as it was.
LEMMA BoardKept ==
    ASSUME MineTypes, Sweeps, UNCHANGED board, UNCHANGED Spoiled
    PROVE  /\ Counted'
           /\ UNCHANGED down => Lines' /\ Reset' /\ InStep'
           /\ \A x \in {P, S} : down' = Append(down, x) => InStep'
<1> USE DEF Sweeps
<1>1. UNCHANGED <<work, core, ticks, tested, tests, report, loading, draining>>
  BY DEF board
<1>2. Counted'
  BY <1>1 DEF Counted
<1>3. UNCHANGED down => Lines' /\ Reset' /\ InStep'
  BY <1>1 DEF InStep, Lines, Reset, IsWork, Cleared, StopIn, AllIdle
<1>4. ASSUME NEW x \in {P, S}, down' = Append(down, x) PROVE InStep'
  <2>1. loading => down'[1] = down[1]
    <3>1. loading => down # << >>
      BY DEF Lines
    <3>2. QED BY <1>4, <3>1, AppendSymbol, SymbolsAre DEF MineTypes
  <2>2. QED BY <1>1, <2>1 DEF InStep
<1>5. QED BY <1>2, <1>3, <1>4

\* The program gives up, and sends 'S'.
LEMMA StopSent ==
    ASSUME MineTypes, Sweeps, UNCHANGED board, down' = Append(down, S),
           UNCHANGED <<runs, Spoiled, Job>>, host # "stopped", host' # "tag", TimedOut'
    PROVE  Sweeps'
<1> USE DEF Sweeps
<1>1. UNCHANGED <<loading, core, work>>
  BY DEF board
<1>2. InStep' /\ Counted'
  BY BoardKept
<1>3. Lines' /\ Known'
  <2>1. Lines'
    BY <1>1, LongerLine
  <2>2. S <= Job /\ S \in Int
    BY SpoiledIs DEF S
  <2>3. \A p \in DOMAIN down' : (p \in DOMAIN down /\ down'[p] = down[p]) \/ down'[p] = S
    <3>1. /\ Len(down) \in Nat /\ DOMAIN down = 1 .. Len(down) /\ DOMAIN down' = 1 .. Len(down) + 1
          /\ (\A p \in DOMAIN down : down'[p] = down[p]) /\ down'[Len(down) + 1] = S
      BY <2>2, AppendSymbol DEF MineTypes
    <3>2. QED BY <3>1
  <2>4. QED BY <1>1, <2>1, <2>2, <2>3 DEF Known
<1>4. Reset' /\ Quiet'
  BY <1>1, SentReset
<1>5. Listening' /\ Unused'
  BY DEF Listening, Unused
<1>6. QED BY <1>2, <1>3, <1>4, <1>5

\* A first run finds the board idle; another spoils all work there is.
LEMMA RunStep == ASSUME MineTypes, Sweeps, Run PROVE Sweeps'
<1> USE DEF Sweeps
<1>1. /\ runs' # 0 /\ down' = Append(down, P) /\ host' = "ping" /\ status' = None
      /\ up' = << >> /\ UNCHANGED board /\ UNCHANGED <<jobs, Job>>
  BY DEF Run, MineTypes, Job
<1>2. UNCHANGED <<loading, core, work>>
  BY <1>1 DEF board
<1>3. Lines'
  BY <1>1, <1>2, LongerLine
<1>4. Known'
  <2>1. P <= Job /\ P \in Int
    BY SpoiledIs DEF P
  <2>2. \A p \in DOMAIN down' : (p \in DOMAIN down /\ down'[p] = down[p]) \/ down'[p] = P
    <3>1. /\ Len(down) \in Nat /\ DOMAIN down = 1 .. Len(down) /\ DOMAIN down' = 1 .. Len(down) + 1
          /\ (\A p \in DOMAIN down : down'[p] = down[p]) /\ down'[Len(down) + 1] = P
      BY <1>1, <2>1, AppendSymbol DEF MineTypes
    <3>2. QED BY <3>1
  <2>3. QED BY <1>1, <1>2, <2>1, <2>2 DEF Known
<1>5. Listening' /\ TimedOut' /\ Unused'
  BY <1>1 DEF Listening, TimedOut, Unused, None
<1>6. CASE runs = 0
  <2>1. down = << >> /\ AllIdle /\ ~loading /\ runs' = 1
    BY <1>6 DEF Unused, Run
  <2>2. down' = <<P>> /\ AllIdle'
    BY <1>1, <1>2, <2>1 DEF AllIdle
  <2>3. Spoiled' = Spoiled
    BY <1>6, <2>1 DEF Spoiled
  <2>4. InStep' /\ Counted'
    BY <1>1, <2>3, BoardKept
  <2>5. Reset'
    BY <1>1, <1>2, <2>3, SentReset
  <2>6. Quiet'
    <3>1. \A p \in DOMAIN down' : ~IsWork(p)'
      BY <2>2 DEF IsWork, P
    <3>2. QED BY <2>2, <3>1 DEF Quiet, Cleared
  <2>7. QED BY <1>3, <1>4, <1>5, <2>4, <2>5, <2>6
<1>7. CASE runs # 0
  <2>1. Job' = Job /\ ~(Job + 1 > Spoiled')
    BY <1>7, SpoiledIs
  <2>2. Job \in Nat /\ Spoiled' \in Int
    <3>1. MineTypes'
      BY MineTypesStep DEF Next
    <3>2. Job \in Nat /\ runs' \in Nat /\ round' \in Nat /\ Job' \in Nat
      BY <2>1, <3>1, SpoiledIs DEF MineTypes
    <3>3. QED BY <3>2 DEF Spoiled
  <2>3. ~(work' > Spoiled') /\ \A p \in DOMAIN down' : ~(down'[p] > Spoiled')
    <3>1. work' <= Job /\ \A p \in DOMAIN down' : down'[p] <= Job
      BY <1>4, <2>1 DEF Known
    <3>2. work' \in Int /\ \A p \in DOMAIN down' : down'[p] \in Int
      <4>1. MineTypes'
        BY MineTypesStep DEF Next
      <4>2. QED BY <4>1 DEF MineTypes, Symbols
    <3>3. QED BY <2>1, <2>2, <3>1, <3>2
  <2>4. Reset' /\ Quiet' /\ Counted'
    BY <2>1, <2>3 DEF Reset, Quiet, Counted
  <2>5. InStep'
    <3>1. loading' => 1 \in DOMAIN down'
      <4>1. loading' => down' # << >> /\ down' \in Symbols
        BY <1>3, MineTypesStep DEF Lines, Next, MineTypes
      <4>2. QED BY <4>1, TailSymbols
    <3>2. QED BY <2>3, <3>1 DEF InStep
  <2>6. QED BY <1>3, <1>4, <1>5, <2>4, <2>5
<1>8. QED BY <1>6, <1>7

LEMMA PingStep == ASSUME MineTypes, Sweeps, PingRead PROVE Sweeps'
<1> USE DEF Sweeps
<1>1. /\ host = "ping" /\ host' \in {"ready", "stopped"} /\ UNCHANGED board
      /\ UNCHANGED <<down, runs, status, Spoiled, Job>>
  BY SpoiledIs DEF PingRead
<1>2. InStep' /\ Counted' /\ Lines' /\ Known' /\ Reset'
  BY <1>1, BoardKept DEF Known, board
<1>3. Quiet'
  BY <1>1 DEF Quiet, Cleared, StopIn, IsWork, AllIdle, board
<1>4. Listening' /\ TimedOut' /\ Unused'
  BY <1>1 DEF Listening, TimedOut, Unused
<1>5. QED BY <1>2, <1>3, <1>4

LEMMA BeginRoundStep == ASSUME MineTypes, Sweeps, BeginRound PROVE Sweeps'
<1> USE DEF Sweeps
<1>1. /\ host = "ready" /\ host' = "tag" /\ status' = None /\ up' = << >>
      /\ down' = down \o <<W, Job + 1>> /\ UNCHANGED board /\ UNCHANGED <<runs, Spoiled>>
      /\ Job' = Job + 1
  BY SpoiledIs DEF BeginRound, Job
<1>2. UNCHANGED <<loading, core, work, report, draining>>
  BY <1>1 DEF board
<1>3. Job \in Nat
  BY SpoiledIs
<1>4. PICK j \in Nat : j = Job + 1 /\ j > 0
  BY <1>3
<1>5. /\ Lines' /\ DOMAIN down' = 1 .. Len(down) + 2 /\ down'[Len(down) + 2] = j
      /\ down'[Len(down) + 1] = W /\ \A p \in DOMAIN down : down'[p] = down[p]
  BY <1>1, <1>2, <1>4, RoundLine
<1>6. Reset'
  BY <1>1, <1>2, <1>4, RoundReset
<1>7. InStep' /\ Counted'
  <2>1. loading => down # << >>
    BY DEF Lines
  <2>2. down # << >> => 1 \in DOMAIN down
    BY TailSymbols DEF MineTypes
  <2>3. InStep'
    BY <1>1, <1>2, <1>5, <2>1, <2>2 DEF InStep, board
  <2>4. QED BY <1>1, <2>3, BoardKept
<1> Known'
  <2>1. Len(down) \in Nat /\ DOMAIN down = 1 .. Len(down) /\ \A p \in DOMAIN down : down[p] \in Int
    BY DEF MineTypes, Symbols
  <2>2. \A p \in DOMAIN down : down'[p] <= Job + 1
    BY <1>3, <1>5, <2>1 DEF Known
  <2>3. W <= Job + 1 /\ work <= Job + 1
    BY <1>3 DEF W, Known, MineTypes
  <2>4. \A p \in DOMAIN down' : p \in DOMAIN down \/ p = Len(down) + 1 \/ p = Len(down) + 2
    BY <1>5, <2>1
  <2>5. QED BY <1>1, <1>2, <1>3, <1>4, <1>5, <2>2, <2>3, <2>4 DEF Known
<1>8. Pending'
  <2>1. Len(down) \in Nat
    BY DEF MineTypes, Symbols
  <2>2. Len(down) + 2 \in DOMAIN down' /\ \A q \in DOMAIN down' : ~(q > Len(down) + 2)
    BY <1>5, <2>1
  <2>3. \E p \in DOMAIN down' : down'[p] > 0 /\ down'[p] = j /\ \A q \in DOMAIN down' : q > p => down'[q] = P
    BY <1>4, <1>5, <2>2
  <2>4. QED BY <1>1, <1>4, <2>3 DEF Pending, IsWork
<1>9. Quiet' /\ Listening' /\ TimedOut' /\ Unused'
  BY <1>1, <1>8 DEF Quiet, Listening, TimedOut, Unused, None
<1>10. QED BY <1>5, <1>6, <1>7, <1>9

\* A ping does not take the work's place.
LEMMA PokeStep == ASSUME MineTypes, Sweeps, Poke PROVE Sweeps'
<1> USE DEF Sweeps
<1>1. /\ host = "tag" /\ down = << >> /\ down' = <<P>> /\ UNCHANGED board
      /\ UNCHANGED <<up, host, status, runs, Spoiled, Job>>
  BY SpoiledIs DEF Poke, program
<1>2. UNCHANGED <<loading, core, work, report, ticks, tested>> /\ down' = Append(down, P)
  BY <1>1 DEF board
<1>3. Lines' /\ Reset' /\ Known'
  <2>1. P <= Job
    BY SpoiledIs DEF P
  <2>2. Known'
    BY <1>1, <1>2, <2>1 DEF Known
  <2>3. QED BY <1>1, <1>2, <2>2, LongerLine, SentReset
<1>4. InStep' /\ Counted'
  BY <1>1, BoardKept
<1>5. Listening'
  <2>1. Job > Spoiled => Loaded
    BY <1>1 DEF Listening, Pending
  <2>2. \A p \in DOMAIN down' : down'[p] = P
    BY <1>1
  <2>3. TagComes \/ NoHit => (TagComes \/ NoHit)'
    BY <1>1, <1>2 DEF TagComes, NoHit
  <2>4. QED BY <1>1, <1>2, <2>1, <2>2, <2>3 DEF Listening, Loaded
<1>6. Quiet' /\ TimedOut' /\ Unused'
  BY <1>1 DEF Quiet, TimedOut, Unused
<1>7. QED BY <1>3, <1>4, <1>5, <1>6

\* When every core has had its ticks without a hit, the space is covered.
LEMMA Covered ==
    ASSUME {At(i, t) : i \in Core, t \in 0 .. MaxTicks - 1} = tested
    PROVE  Nonce \subseteq tested
<1> SUFFICES ASSUME NEW n \in Nonce PROVE \E i \in Core, t \in 0 .. MaxTicks - 1 : n = At(i, t)
  OBVIOUS
<1> DEFINE i == n % Cores   t == n \div Cores
<1>1. /\ n \in Nat /\ n < NonceCount /\ Cores \in Nat /\ Cores > 0 /\ NonceCount \in Nat
      /\ MaxTicks \in Nat /\ MaxTicks * Cores >= NonceCount
  BY BoardConstants
<1>2. n = t * Cores + i /\ t \in Nat /\ i \in 0 .. Cores - 1
  BY <1>1
<1> HIDE DEF i, t
<1>3. t < MaxTicks
  <2> SUFFICES ASSUME t >= MaxTicks PROVE FALSE
    BY <1>1, <1>2
  <2>1. PICK d \in Nat : t = MaxTicks + d
    BY <1>1, <1>2
  <2>2. t * Cores = MaxTicks * Cores + d * Cores /\ d * Cores \in Nat /\ MaxTicks * Cores \in Nat
    BY <1>1, <2>1
  <2>3. QED BY <1>1, <1>2, <2>2
<1>4. i \in Core /\ t \in 0 .. MaxTicks - 1
  BY <1>1, <1>2, <1>3, BoardConstants
<1>5. At(i, t) = n
  <2>1. i + t * Cores = n
    BY <1>1, <1>2
  <2>2. QED BY <1>1, <1>2, <1>4, <2>1, AtIs
<1>6. QED BY <1>4, <1>5

LEMMA TimeoutStep == ASSUME MineTypes, Sweeps, RoundTimeout PROVE Sweeps'
<1> USE DEF Sweeps
<1>1. /\ host = "tag" /\ host' = "pause" /\ up = << >> /\ down = << >> /\ report = << >>
      /\ down' = Append(down, S) /\ UNCHANGED board /\ UNCHANGED <<up, runs, Spoiled, Job>>
      /\ ticks = MaxTicks \/ Busy = {}
  BY SpoiledIs DEF RoundTimeout, GiveUp
<1>2. Job > Spoiled => ~loading /\ NoHit
  BY <1>1 DEF Listening, Pending, Loaded, TagComes
<1>3. Job > Spoiled => ticks = MaxTicks
  <2>1. 0 \in Core
    BY BoardConstants
  <2>2. Job > Spoiled => Busy # {}
    BY <1>2, <2>1 DEF NoHit, Busy
  <2>3. QED BY <1>1, <2>2
<1>4. Job > Spoiled => Nonce \subseteq tested
  BY <1>2, <1>3, Covered DEF NoHit
<1>5. (Job > Spoiled => tested' = Nonce /\ ~loading') /\ down' = <<S>>
  <2>1. tested' = tested /\ loading' = loading
    BY <1>1 DEF board
  <2>2. Job > Spoiled => tested = Nonce
    BY <1>4 DEF MineTypes
  <2>3. QED BY <1>1, <1>2, <2>1, <2>2
<1>6. TimedOut'
  BY <1>1, <1>5 DEF TimedOut
<1>7. QED BY <1>1, <1>6, StopSent

LEMMA ReadTagStep == ASSUME MineTypes, Sweeps, ReadTag PROVE Sweeps'
<1> USE DEF Sweeps
<1>1. /\ host = "tag" /\ up # << >> /\ up' = Tail(up) /\ UNCHANGED board
      /\ UNCHANGED <<runs, Spoiled, Job>>
  BY SpoiledIs DEF ReadTag
<1>2. (Job > Spoiled => status.how # "timeout") /\ runs # 0
  BY <1>1 DEF TimedOut, Unused
<1>3. PICK t \in TagOf(Head(up)) :
         \/ t = "ignored" /\ UNCHANGED <<host, status, down>>
         \/ t = "F" /\ host' = "body" /\ UNCHANGED <<status, down>>
         \/ t = "E" /\ GiveUp("exhausted")
  BY DEF ReadTag
<1>4. CASE t = "ignored" /\ UNCHANGED <<host, status, down>>
  <2>1. Lines' /\ Known' /\ Reset' /\ InStep' /\ Counted'
    BY <1>1, <1>4, BoardKept DEF Known, board
  <2>2. Quiet' /\ TimedOut' /\ Unused'
    BY <1>1, <1>2, <1>4 DEF Quiet, TimedOut, Unused
  <2>3. UNCHANGED <<loading, core, work, report, ticks, tested>>
    BY <1>1 DEF board
  <2>4. TagComes => TagComes'
    <3>1. Head(up) # Tag
      BY <1>3, <1>4 DEF TagOf, K, Tag
    <3>2. /\ Head(up) = up[1] /\ DOMAIN up = 1 .. Len(up) /\ Len(up) \in Nat
          /\ DOMAIN up' = 1 .. Len(up) - 1 /\ \A i \in DOMAIN up' : up'[i] = up[i + 1]
      BY <1>1, TailSymbols DEF MineTypes
    <3>3. ASSUME NEW i \in DOMAIN up, up[i] = Tag PROVE TagComes'
      <4>1. i - 1 \in DOMAIN up' /\ (i - 1) + 1 = i
        BY <3>1, <3>2, <3>3
      <4>2. up'[i - 1] = Tag
        BY <3>2, <3>3, <4>1
      <4>3. QED BY <4>1, <4>2 DEF TagComes
    <3>4. QED BY <2>3, <3>3 DEF TagComes
  <2>5. Pending => Pending'
    BY <1>1, <1>4 DEF Pending, IsWork
  <2>6. NoHit => NoHit'
    BY <2>3 DEF NoHit
  <2>7. Listening'
    BY <1>1, <1>4, <2>3, <2>4, <2>5, <2>6 DEF Listening, Loaded
  <2>8. QED BY <2>1, <2>2, <2>7
<1>5. CASE t = "F" /\ host' = "body" /\ UNCHANGED <<status, down>>
  <2>1. Lines' /\ Known' /\ Reset' /\ InStep' /\ Counted'
    BY <1>1, <1>5, BoardKept DEF Known, board
  <2>2. Quiet' /\ TimedOut' /\ Unused' /\ Listening'
    BY <1>1, <1>2, <1>5 DEF Quiet, TimedOut, Unused, Listening
  <2>3. QED BY <2>1, <2>2
<1>6. CASE GiveUp("exhausted")
  <2>1. down' = Append(down, S) /\ host' = "pause" /\ TimedOut'
    BY <1>6 DEF GiveUp, Ended, TimedOut
  <2>2. QED BY <1>1, <2>1, StopSent
<1>7. QED BY <1>3, <1>4, <1>5, <1>6

\* How a body ends a scan.
LEMMA BodyEnds ==
    ASSUME ReadBody
    PROVE  /\ host = "body" /\ UNCHANGED board /\ UNCHANGED <<runs, round, jobs>>
           /\ status'.how # "timeout"
           /\ \/ host' = "stopped" /\ UNCHANGED down
              \/ host' = "ready" /\ down' = Append(down, S)
<1>1. host = "body" /\ UNCHANGED board /\ UNCHANGED <<runs, round, jobs>>
  BY Zenon DEF ReadBody
<1>2. \E n : \/ status' = [how |-> "valid", nonce |-> n] /\ host' = "stopped" /\ UNCHANGED down
             \/ /\ status' = [how |-> "false positive", nonce |-> n]
                /\ host' = "ready" /\ down' = Append(down, S)
  BY Zenon DEF ReadBody
<1>3. "valid" # "timeout" /\ "false positive" # "timeout"
  BY Zenon
<1>4. PICK n : \/ status' = [how |-> "valid", nonce |-> n] /\ host' = "stopped" /\ UNCHANGED down
               \/ /\ status' = [how |-> "false positive", nonce |-> n]
                  /\ host' = "ready" /\ down' = Append(down, S)
  BY <1>2, Zenon
<1>5. status'.how = "valid" \/ status'.how = "false positive"
  <2>1. \A h : [how |-> h, nonce |-> n].how = h
    OBVIOUS
  <2>2. QED BY <1>4, <2>1, Zenon
<1>6. QED BY <1>1, <1>3, <1>4, <1>5, Zenon

LEMMA ReadBodyStep == ASSUME MineTypes, Sweeps, ReadBody PROVE Sweeps'
<1> UNCHANGED <<Spoiled, Job>>
  BY BodyEnds, SpoiledIs
<1>1. CASE host' = "stopped" /\ UNCHANGED down
  <2>1. Lines' /\ Known' /\ Reset' /\ InStep' /\ Counted'
    BY <1>1, BodyEnds, BoardKept DEF Sweeps, Known, board
  <2>2. Quiet' /\ TimedOut' /\ Unused' /\ Listening'
    BY <1>1, BodyEnds DEF Sweeps, Quiet, TimedOut, Unused, Listening
  <2>3. QED BY <2>1, <2>2 DEF Sweeps
<1>2. CASE host' = "ready" /\ down' = Append(down, S)
  <2>1. TimedOut'
    BY BodyEnds DEF TimedOut
  <2>2. QED BY <1>2, <2>1, BodyEnds, StopSent
<1>3. QED BY <1>1, <1>2, BodyEnds

LEMMA ShortEnds ==
    ASSUME ShortBody
    PROVE  /\ host = "body" /\ host' = "pause" /\ UNCHANGED board /\ UNCHANGED <<runs, round, jobs>>
           /\ status'.how # "timeout" /\ down' = Append(down, S)
BY DEF ShortBody, GiveUp, Ended

LEMMA ShortBodyStep == ASSUME MineTypes, Sweeps, ShortBody PROVE Sweeps'
<1> UNCHANGED <<Spoiled, Job>>
  BY ShortEnds, SpoiledIs
<1>1. TimedOut'
  BY ShortEnds DEF TimedOut
<1>2. QED BY <1>1, ShortEnds, StopSent

LEMMA MoveStep ==
    ASSUME MineTypes, Sweeps, Resume \/ Finish \/ Interrupt
    PROVE  Sweeps'
<1> USE DEF Sweeps
<1>1. /\ UNCHANGED board /\ UNCHANGED <<down, runs, status, Spoiled, Job>>
      /\ \/ host \in {"pause", "ready"} /\ host' \in {"ready", "stopped"}
         \/ host \in {"tag", "body"} /\ host' = "stopped"
  BY SpoiledIs DEF Resume, Finish, Interrupt
<1>2. Lines' /\ Known' /\ Reset' /\ InStep' /\ Counted'
  BY <1>1, BoardKept DEF Known, board
<1>3. Quiet'
  BY <1>1 DEF Quiet, Cleared, StopIn, IsWork, AllIdle, board
<1>4. Listening' /\ TimedOut' /\ Unused'
  BY <1>1 DEF Listening, TimedOut, Unused, board
<1>5. QED BY <1>2, <1>3, <1>4

LEMMA CoverStep == CoverInv /\ [Next]_vars => CoverInv'
<1> SUFFICES ASSUME MineTypes, Sweeps, [Next]_vars PROVE Sweeps'
  BY MineTypesStep DEF CoverInv
<1>1. CASE UNCHANGED vars
  <2>1. UNCHANGED <<Spoiled, Job>>
    BY <1>1, SpoiledIs DEF vars, program
  <2>2. QED
    BY <1>1, <2>1 DEF vars, board, program, Sweeps, Lines, Known, Reset, Quiet, InStep, Counted,
                      Listening, TimedOut, Unused, IsWork, Cleared, StopIn, AllIdle, Pending,
                      Loaded, TagComes, NoHit
<1>2. CASE Board
  BY <1>2, LoadStep, ControlStep, TickStep, SentStep DEF Board, Rx
<1>3. CASE Reads
  BY <1>3, PingStep, ReadTagStep, ReadBodyStep, ShortBodyStep DEF Reads
<1>4. CASE Moves \/ Interrupt
  BY <1>4, BeginRoundStep, MoveStep DEF Moves
<1>5. CASE Poke \/ RoundTimeout \/ Run
  BY <1>5, PokeStep, TimeoutStep, RunStep
<1>6. QED BY <1>1, <1>2, <1>3, <1>4, <1>5 DEF Next

\* EveryNonceOnce (miner_top.v:31): no nonce is tried twice before the space is
\* covered, and a round that times out has covered it, for any number of cores and
\* any order of rounds, hits and interruptions; an interrupted run costs the next
\* one its first round and no other.
THEOREM NoncesAreCovered == Spec => []EveryNonceOnce
<1>1. Spec => []CoverInv
  BY CoverInit, CoverStep, PTL DEF Spec
<1>2. CoverInv => EveryNonceOnce
  <2> SUFFICES ASSUME MineTypes, Sweeps PROVE EveryNonceOnce
    BY DEF CoverInv
  <2>1. ticks \in Nat
    BY DEF MineTypes
  <2>2. ticks <= NonceCount \div Cores => ticks * Cores <= NonceCount
    <3>1. PICK q \in Nat : q = NonceCount \div Cores /\ q * Cores <= NonceCount
      BY BoardConstants
    <3> SUFFICES ASSUME ticks <= q PROVE ticks * Cores <= NonceCount
      BY <3>1
    <3>2. PICK d \in Nat : q = ticks + d
      BY <2>1
    <3>3. q * Cores = ticks * Cores + d * Cores /\ d * Cores \in Nat /\ ticks * Cores \in Nat
      BY <2>1, <3>2, BoardConstants
    <3>4. QED BY <3>1, <3>3, BoardConstants
  <2>3. QED BY <2>1, <2>2 DEF EveryNonceOnce, Sweeps, Counted, TimedOut
<1>3. QED BY <1>1, <1>2, PTL

-------------------------------------------------------------------------------
\* A set of numbers has a least.
LEMMA LeastNumber ==
    ASSUME NEW nn, nn \subseteq Nat, nn # {}
    PROVE  \E x \in nn : \A y \in nn : x <= y
<1> DEFINE less == {ss \in Nat \X Nat : ss[1] < ss[2]}
<1>1. IsWellFoundedOn(less, Nat)
  BY NatLessThanWellFounded DEF OpToRel
<1>2. PICK x \in nn : \A y \in nn : ~(<<y, x>> \in less)
  <2> HIDE DEF less
  <2>1. QED BY <1>1, WFMin
<1>3. \A y \in nn : <<y, x>> \in less <=> y < x
  OBVIOUS
<1> HIDE DEF less
<1>4. \A y \in nn : x \in Nat /\ y \in Nat /\ ~(y < x)
  BY <1>2, <1>3
<1>5. QED BY <1>4

-------------------------------------------------------------------------------
\* Fetching the chain: the blocks there are.
BlockRecord == [parent : Nat, branch : Seq(Nat), payload : Nat]

\* Blocks from the first up, each of which fixes those below it.
IsBranch(t, blocks) ==
    \A i \in 1 .. Len(blocks) :
        /\ blocks[i] \in DOMAIN t /\ Len(t[blocks[i]].branch) = i
        /\ \A j \in 1 .. i : t[blocks[i]].branch[j] = blocks[j]

\* Every block has a branch, which ends in it and starts in the one first block.
Grown(t) ==
    \A b \in DOMAIN t :
        /\ Len(t[b].branch) # 0 /\ t[b].branch[Len(t[b].branch)] = b
        /\ IsBranch(t, t[b].branch)
        /\ Len(t[b].branch) = 1 <=> b = Genesis
        /\ t[b].parent = IF b = Genesis THEN 0 ELSE t[b].branch[Len(t[b].branch) - 1]

TreeInv == tree \in Seq(BlockRecord) /\ Grown(tree) /\ best \in DOMAIN tree /\ Genesis \in DOMAIN tree

LEMMA TreeInit == FetchInit => TreeInv
<1> SUFFICES ASSUME FetchInit PROVE TreeInv
  OBVIOUS
<1>1. PICK n \in 1 .. MaxStart :
         /\ tree = [b \in 1..n |-> [parent |-> b - 1, branch |-> [i \in 1..b |-> i], payload |-> 0]]
         /\ best = n
  BY DEF FetchInit
<1>2. n \in Nat /\ n >= 1
  BY FetchAssumption
<1>3. ASSUME NEW b \in 1 .. n
      PROVE  /\ tree[b] \in BlockRecord /\ tree[b].parent = b - 1 /\ tree[b].branch \in Seq(Nat)
             /\ Len(tree[b].branch) = b /\ \A i \in 1 .. b : tree[b].branch[i] = i
  <2> DEFINE br == [i \in 1 .. b |-> i]
  <2>1. br \in Seq(Nat) /\ Len(br) = b /\ \A i \in 1 .. b : br[i] = i
    BY <1>2
  <2> HIDE DEF br
  <2>2. tree[b] = [parent |-> b - 1, branch |-> br, payload |-> 0]
    BY <1>1 DEF br
  <2>3. b - 1 \in Nat
    BY <1>2
  <2>4. QED BY <2>1, <2>2, <2>3 DEF BlockRecord
<1>4. DOMAIN tree = 1 .. n
  BY <1>1
<1>5. tree \in Seq(BlockRecord)
  <2>1. tree \in [1 .. n -> BlockRecord]
    BY <1>1, <1>3
  <2>2. QED BY <1>2, <2>1
<1>6. Grown(tree)
  <2> SUFFICES ASSUME NEW b \in 1 .. n
               PROVE  /\ Len(tree[b].branch) # 0 /\ tree[b].branch[Len(tree[b].branch)] = b
                      /\ IsBranch(tree, tree[b].branch)
                      /\ Len(tree[b].branch) = 1 <=> b = Genesis
                      /\ tree[b].parent =
                            IF b = Genesis THEN 0 ELSE tree[b].branch[Len(tree[b].branch) - 1]
    BY <1>4 DEF Grown
  <2>1. IsBranch(tree, tree[b].branch)
    <3> SUFFICES ASSUME NEW i \in 1 .. b
                 PROVE  /\ tree[b].branch[i] \in DOMAIN tree
                        /\ Len(tree[tree[b].branch[i]].branch) = i
                        /\ \A j \in 1 .. i : tree[tree[b].branch[i]].branch[j] = tree[b].branch[j]
      BY <1>3 DEF IsBranch
    <3>1. i \in 1 .. n /\ \A j \in 1 .. i : j \in 1 .. b
      BY <1>2
    <3>2. tree[b].branch[i] = i
      BY <1>3
    <3>3. Len(tree[i].branch) = i /\ \A j \in 1 .. i : tree[i].branch[j] = j /\ tree[b].branch[j] = j
      BY <1>3, <3>1
    <3>4. QED BY <1>4, <3>1, <3>2, <3>3
  <2>2. Len(tree[b].branch) = b /\ tree[b].branch[b] = b /\ tree[b].parent = b - 1 /\ b # 0
    BY <1>2, <1>3
  <2>3. b # 1 => tree[b].branch[b - 1] = b - 1
    <3>1. b # 1 => b - 1 \in 1 .. b
      BY <1>2
    <3>2. QED BY <1>3, <3>1
  <2>4. b = 1 => b - 1 = 0
    OBVIOUS
  <2>5. QED BY <2>1, <2>2, <2>3, <2>4 DEF Genesis
<1>7. QED BY <1>1, <1>2, <1>4, <1>5, <1>6 DEF TreeInv, Genesis

\* The branch of a block: its type, its length and what is on it.
LEMMA BranchOfBlock ==
    ASSUME TreeInv, NEW b \in DOMAIN tree
    PROVE  /\ BranchOf(b) \in Seq(Nat) /\ Height(b) = Len(BranchOf(b)) /\ Height(b) \in Nat \ {0}
           /\ DOMAIN BranchOf(b) = 1 .. Height(b)
           /\ BranchOf(b)[Height(b)] = b /\ BranchOf(b)[1] = Genesis
           /\ Height(b) = 1 <=> b = Genesis
           /\ tree[b].parent = IF b = Genesis THEN 0 ELSE BranchOf(b)[Height(b) - 1]
           /\ \A i \in 1 .. Height(b) :
                 /\ BranchOf(b)[i] \in DOMAIN tree /\ Height(BranchOf(b)[i]) = i
                 /\ i > 1 => BranchOf(b)[i] \in 2 .. Len(tree)
                 /\ \A j \in 1 .. i : BranchOf(BranchOf(b)[i])[j] = BranchOf(b)[j]
<1>1. tree[b].branch \in Seq(Nat) /\ DOMAIN tree = 1 .. Len(tree) /\ Len(tree) \in Nat
  <2>1. tree[b] \in BlockRecord /\ tree \in Seq(BlockRecord)
    BY DEF TreeInv
  <2>2. QED BY <2>1 DEF BlockRecord
<1>2. Len(tree[b].branch) \in Nat /\ DOMAIN tree[b].branch = 1 .. Len(tree[b].branch)
  BY <1>1
<1>3. /\ Len(tree[b].branch) # 0 /\ tree[b].branch[Len(tree[b].branch)] = b
      /\ IsBranch(tree, tree[b].branch)
      /\ Len(tree[b].branch) = 1 <=> b = Genesis
      /\ tree[b].parent = IF b = Genesis THEN 0 ELSE tree[b].branch[Len(tree[b].branch) - 1]
  BY DEF TreeInv, Grown
<1>4. \A i \in 1 .. Height(b) :
         /\ BranchOf(b)[i] \in DOMAIN tree /\ Height(BranchOf(b)[i]) = i
         /\ \A j \in 1 .. i : BranchOf(BranchOf(b)[i])[j] = BranchOf(b)[j]
  BY <1>3 DEF IsBranch, BranchOf, Height
<1>5. \A a \in DOMAIN tree : Height(a) = 1 <=> a = Genesis
  BY DEF TreeInv, Grown, Height
<1>6. BranchOf(b)[1] = Genesis
  <2>1. 1 \in 1 .. Height(b)
    BY <1>2, <1>3 DEF Height
  <2>2. QED BY <1>4, <1>5, <2>1
<1>7. \A i \in 1 .. Height(b) : i > 1 => BranchOf(b)[i] \in 2 .. Len(tree)
  <2> SUFFICES ASSUME NEW i \in 1 .. Height(b), i > 1 PROVE BranchOf(b)[i] \in 2 .. Len(tree)
    OBVIOUS
  <2>1. BranchOf(b)[i] \in 1 .. Len(tree) /\ BranchOf(b)[i] # Genesis
    <3>1. BranchOf(b)[i] \in DOMAIN tree /\ Height(BranchOf(b)[i]) = i
      BY <1>4
    <3>2. i # 1
      OBVIOUS
    <3>3. QED BY <1>1, <1>5, <3>1, <3>2
  <2>2. QED BY <1>1, <2>1 DEF Genesis
<1>8. QED BY <1>1, <1>2, <1>3, <1>4, <1>6, <1>7 DEF BranchOf, Height

\* A block more, found on one there was: the others stay as they are.
LEMMA GrowTree ==
    ASSUME TreeInv, NEW parent \in DOMAIN tree, Grow(parent, 0)
    PROVE  /\ TreeInv' /\ Len(tree) \in Nat /\ Len(tree') = Len(tree) + 1
           /\ best' = best \/ best' = Len(tree) + 1
           /\ \A b \in DOMAIN tree : b \in DOMAIN tree' /\ tree'[b] = tree[b]
<1>1. PICK found \in Nat : found = Len(tree) + 1
  BY DEF TreeInv
<1> DEFINE below == tree[parent].branch
           grown == Append(below, found)
           block == [parent |-> parent, payload |-> 0, branch |-> grown]
<1>2. tree' = Append(tree, block) /\ (best' = best \/ best' = found)
  BY <1>1 DEF Grow
<1>3. /\ below \in Seq(Nat) /\ Len(below) # 0 /\ below[Len(below)] = parent /\ IsBranch(tree, below)
      /\ parent \in Nat
  <2>1. tree[parent] \in BlockRecord /\ parent \in Nat
    BY DEF TreeInv
  <2>2. QED BY <2>1 DEF BlockRecord, TreeInv, Grown
<1>4. /\ grown \in Seq(Nat) /\ Len(below) \in Nat /\ Len(grown) = Len(below) + 1
      /\ grown[Len(below) + 1] = found /\ \A i \in 1 .. Len(below) : grown[i] = below[i]
  BY <1>1, <1>3
<1>5. block \in BlockRecord /\ block.branch = grown /\ block.parent = parent
  BY <1>3, <1>4 DEF BlockRecord
<1> HIDE DEF block, grown
<1>6. /\ tree' \in Seq(BlockRecord) /\ Len(tree') = Len(tree) + 1 /\ DOMAIN tree' = DOMAIN tree \cup {found}
      /\ found \notin DOMAIN tree /\ tree'[found] = block /\ \A b \in DOMAIN tree : tree'[b] = tree[b]
  BY <1>1, <1>2, <1>5 DEF TreeInv
<1>7. \A blocks : IsBranch(tree, blocks) => IsBranch(tree', blocks)
  BY <1>6 DEF IsBranch
<1>8. IsBranch(tree', grown)
  <2> SUFFICES ASSUME NEW i \in 1 .. Len(grown)
               PROVE  /\ grown[i] \in DOMAIN tree' /\ Len(tree'[grown[i]].branch) = i
                      /\ \A j \in 1 .. i : tree'[grown[i]].branch[j] = grown[j]
    BY DEF IsBranch
  <2>1. CASE i = Len(below) + 1
    BY <2>1, <1>4, <1>5, <1>6
  <2>2. CASE i \in 1 .. Len(below)
    <3>1. /\ grown[i] \in DOMAIN tree /\ Len(tree[grown[i]].branch) = i
          /\ \A j \in 1 .. i : tree[grown[i]].branch[j] = below[j]
      <4>1. /\ below[i] \in DOMAIN tree /\ Len(tree[below[i]].branch) = i
            /\ \A j \in 1 .. i : tree[below[i]].branch[j] = below[j]
        <5>1. IsBranch(tree, below)
          BY <1>3
        <5> HIDE DEF below
        <5>2. QED BY <2>2, <5>1 DEF IsBranch
      <4>2. grown[i] = below[i]
        BY <2>2, <1>4
      <4>3. QED BY <4>1, <4>2
    <3>2. \A j \in 1 .. i : grown[j] = below[j]
      BY <2>2, <1>4
    <3>3. QED BY <3>1, <3>2, <1>6
  <2>3. QED BY <2>1, <2>2, <1>4
<1>9. ASSUME NEW b \in DOMAIN tree'
      PROVE  /\ Len(tree'[b].branch) # 0 /\ tree'[b].branch[Len(tree'[b].branch)] = b
             /\ IsBranch(tree', tree'[b].branch)
             /\ Len(tree'[b].branch) = 1 <=> b = Genesis
             /\ tree'[b].parent =
                   IF b = Genesis THEN 0 ELSE tree'[b].branch[Len(tree'[b].branch) - 1]
  <2>1. CASE b \in DOMAIN tree
    <3>1. tree'[b] = tree[b]
      BY <2>1, <1>6
    <3>2. QED BY <2>1, <3>1, <1>7 DEF TreeInv, Grown
  <2>2. CASE b = found
    <3>1. tree'[b].branch = grown /\ tree'[b].parent = parent
      BY <2>2, <1>5, <1>6
    <3>2. Len(grown) # 0 /\ Len(grown) # 1 /\ grown[Len(grown)] = found /\ grown[Len(grown) - 1] = parent
      <4>1. Len(below) \in 1 .. Len(below) /\ Len(grown) - 1 = Len(below)
        BY <1>3, <1>4
      <4>2. grown[Len(below)] = below[Len(below)]
        BY <1>4, <4>1
      <4>3. QED BY <1>3, <1>4, <4>1, <4>2
    <3>3. found # Genesis
      BY <1>6 DEF TreeInv
    <3>4. QED BY <2>2, <3>1, <3>2, <3>3, <1>8
  <2>3. QED BY <2>1, <2>2, <1>6
<1>10. TreeInv'
  BY <1>2, <1>6, <1>9 DEF TreeInv, Grown
<1>11. QED BY <1>1, <1>2, <1>6, <1>10 DEF TreeInv

\* Blocks that follow one another are the end of the branch of the last.
LEMMA LinkedIsBranch ==
    ASSUME TreeInv, NEW s \in Seq(Nat), s # << >>, \A i \in DOMAIN s : s[i] \in 2 .. Len(tree),
           Linked(s)
    PROVE  /\ s[Len(s)] \in DOMAIN tree /\ Len(s) < Height(s[Len(s)])
           /\ \A i \in 1 .. Len(s) :
                 s[i] = BranchOf(s[Len(s)])[Height(s[Len(s)]) - Len(s) + i]
<1>1. PICK n \in Nat, b \in DOMAIN tree, h \in Nat : n = Len(s) /\ n >= 1 /\ b = s[n] /\ h = Height(b)
  <2>1. Len(s) \in DOMAIN s /\ Len(s) \in Nat /\ Len(s) >= 1 /\ DOMAIN tree = 1 .. Len(tree)
    BY DEF TreeInv
  <2>2. s[Len(s)] \in 2 .. Len(tree) /\ Len(tree) \in Nat
    BY <2>1 DEF TreeInv
  <2>3. s[Len(s)] \in DOMAIN tree
    BY <2>1, <2>2
  <2>4. QED BY <2>1, <2>3, BranchOfBlock
<1> DEFINE br == BranchOf(b)
           Holds(k) == k < h /\ s[n - k] = br[h - k]
           bad == {k \in 0 .. n - 1 : ~Holds(k)}
<1>2. /\ h >= 1 /\ br[h] = b
      /\ \A i \in 1 .. h : br[i] \in DOMAIN tree /\ Height(br[i]) = i
                           /\ \A j \in 1 .. i : BranchOf(br[i])[j] = br[j]
  <2>1. PICK r : r = BranchOf(b)
    OBVIOUS
  <2>2. h >= 1 /\ r[h] = b
        /\ \A i \in 1 .. h : r[i] \in DOMAIN tree /\ Height(r[i]) = i
                             /\ \A j \in 1 .. i : BranchOf(r[i])[j] = r[j]
    <3>1. /\ Height(b) \in Nat \ {0} /\ BranchOf(b)[Height(b)] = b
          /\ \A i \in 1 .. Height(b) :
                /\ BranchOf(b)[i] \in DOMAIN tree /\ Height(BranchOf(b)[i]) = i
                /\ \A j \in 1 .. i : BranchOf(BranchOf(b)[i])[j] = BranchOf(b)[j]
      BY ONLY TreeInv, b \in DOMAIN tree, BranchOfBlock
    <3>2. QED BY ONLY <1>1, <2>1, <3>1
  <2>3. QED BY <2>1, <2>2
<1>3. ASSUME bad # {} PROVE FALSE
  <2>1. PICK k \in bad : \A m \in bad : k <= m
    <3>1. bad \subseteq Nat
      BY <1>1
    <3> HIDE DEF bad
    <3>2. QED BY <1>3, <3>1, LeastNumber
  <2>2. k \in Nat /\ k < n /\ ~Holds(k)
    BY <1>1, <2>1
  <2>3. k # 0
    BY <1>1, <1>2, <2>2
  <2>4. k - 1 \in 0 .. n - 1 /\ k - 1 < k
    BY <1>1, <2>2, <2>3
  <2>5. Holds(k - 1)
    <3>1. k - 1 \notin bad
      <4> HIDE DEF bad
      <4>1. k - 1 \in bad => k <= k - 1
        BY <2>1
      <4>2. QED BY <2>2, <4>1
    <3>2. QED BY <2>4, <3>1
  <2>6. PICK i \in 1 .. h, p \in 2 .. n : i = h - (k - 1) /\ p = n - (k - 1) /\ s[p] = br[i]
    <3>1. k - 1 < h /\ s[n - (k - 1)] = br[h - (k - 1)]
      BY <2>5
    <3>2. h - (k - 1) \in 1 .. h /\ n - (k - 1) \in 2 .. n
      <4>1. k \in Nat /\ k < n /\ n \in Nat /\ h \in Nat /\ k - 1 < h /\ k # 0
        BY <1>1, <2>2, <2>3, <3>1
      <4> HIDE DEF br, bad, Holds
      <4>2. QED BY ONLY <4>1
    <3>3. QED BY <3>1, <3>2
  <2>7. tree[s[p]].parent = s[p - 1] /\ s[p - 1] \in 2 .. Len(tree)
    <3>1. p \in 2 .. Len(s) /\ p - 1 \in DOMAIN s
      BY <1>1, <2>6
    <3>2. QED BY <3>1 DEF Linked
  <2>8. br[i] # Genesis /\ tree[br[i]].parent = BranchOf(br[i])[i - 1]
    <3>1. br[i] \in DOMAIN tree /\ Height(br[i]) = i
      BY <1>2, <2>6
    <3>2. tree[br[i]].parent = IF br[i] = Genesis THEN 0 ELSE BranchOf(br[i])[Height(br[i]) - 1]
      BY <3>1, BranchOfBlock
    <3>3. s[p - 1] \in Int /\ s[p - 1] >= 2 /\ s[p - 1] # 0
      BY ONLY <2>7
    <3>4. tree[br[i]].parent = s[p - 1]
      BY <2>6, <2>7
    <3>5. br[i] # Genesis
      BY ONLY <3>2, <3>3, <3>4
    <3>6. tree[br[i]].parent = BranchOf(br[i])[Height(br[i]) - 1] /\ Height(br[i]) - 1 = i - 1
      BY ONLY <3>1, <3>2, <3>5
    <3>7. QED BY ONLY <3>5, <3>6
  <2>9. i # 1
    BY <1>2, <2>6, <2>8, BranchOfBlock
  <2>10. BranchOf(br[i])[i - 1] = br[i - 1]
    <3>1. i - 1 \in 1 .. i
      <4>1. i \in Nat /\ i >= 1
        BY <2>6
      <4>2. QED BY ONLY <2>9, <4>1
    <3>2. QED BY <1>2, <2>6, <3>1
  <2>11. n - k = p - 1 /\ h - k = i - 1 /\ k < h
    <3>1. /\ n \in Nat /\ h \in Nat /\ k \in Nat
          /\ i \in 1 .. h /\ p \in 2 .. n /\ i = h - (k - 1) /\ p = n - (k - 1)
      BY <2>2, <2>6
    <3>2. QED BY ONLY <2>9, <3>1
  <2>12. QED BY <2>2, <2>6, <2>7, <2>8, <2>10, <2>11
<1>4. \A k \in 0 .. n - 1 : Holds(k)
  BY <1>3
<1>5. n <= h /\ \A i \in 1 .. n : s[i] = br[h - n + i]
  <2>1. n - 1 \in 0 .. n - 1 /\ \A i \in 1 .. n : n - i \in 0 .. n - 1 /\ n - (n - i) = i /\ h - (n - i) = h - n + i
    BY <1>1
  <2> HIDE DEF br
  <2>2. n - 1 < h /\ \A i \in 1 .. n : s[n - (n - i)] = br[h - (n - i)]
    BY <1>4, <2>1
  <2>3. QED BY <1>1, <2>1, <2>2
<1>6. n # h
  <2> SUFFICES ASSUME n = h PROVE FALSE
    OBVIOUS
  <2>1. 1 \in 1 .. n /\ h - n + 1 = 1
    BY <1>1
  <2>2. s[1] = br[1]
    BY <1>5, <2>1
  <2>3. br[1] = Genesis /\ 1 \in DOMAIN s
    BY <1>1, BranchOfBlock
  <2>4. QED BY <2>2, <2>3 DEF Genesis
<1>7. QED BY <1>1, <1>5, <1>6

-------------------------------------------------------------------------------
\* Messages name blocks above the first one, and a request or its answer some.
Kinds == {"version", "getblocks", "getdata", "inv", "blocks"}
Msg == [kind : Kinds, blocks : Seq(Nat)]
Asked(s) == \A i \in DOMAIN s : s[i] \in 2 .. Len(tree)
Sound(m) ==
    m.kind \in {"inv", "getdata", "blocks"} => Asked(m.blocks) /\ (m.kind # "inv" => m.blocks # << >>)
Post(q) == q \in Seq(Msg) /\ \A i \in DOMAIN q : Sound(q[i])

\* A file is written once.
FileInv ==
    file # NoFile =>
        phase = "done" /\ file.blocks \in Seq(Nat) /\ file.blocks # << >> /\ Asked(file.blocks)
        /\ FileIsOneBranch

FetchInv ==
    /\ TreeInv /\ client \in {"tip", "full"}
    /\ Post(toNode) /\ Post(toHost)
    /\ inv \in Seq(Nat) /\ Asked(inv)
    /\ FileInv

LEMMA MessageIs ==
    ASSUME NEW kind \in Kinds, NEW blocks \in Seq(Nat)
    PROVE  /\ Message(kind, blocks) \in Msg /\ Message(kind, blocks).kind = kind
           /\ Message(kind, blocks).blocks = blocks
BY DEF Message, Msg

LEMMA PostMore ==
    ASSUME NEW q, Post(q), NEW m \in Msg, Sound(m)
    PROVE  Post(Append(q, m))
<1>1. /\ q \in Seq(Msg) /\ DOMAIN Append(q, m) = 1 .. Len(q) + 1 /\ Append(q, m) \in Seq(Msg)
      /\ (\A i \in 1 .. Len(q) : Append(q, m)[i] = q[i]) /\ Append(q, m)[Len(q) + 1] = m
      /\ DOMAIN q = 1 .. Len(q) /\ Len(q) \in Nat
  BY DEF Post
<1>2. \A i \in 1 .. Len(q) + 1 : i \in 1 .. Len(q) \/ i = Len(q) + 1
  BY <1>1
<1>3. QED BY <1>1, <1>2 DEF Post

LEMMA PostLess ==
    ASSUME NEW q, Post(q), q # << >>
    PROVE  /\ Post(Tail(q)) /\ Head(q) \in Msg /\ Sound(Head(q)) /\ Head(q) = q[1]
           /\ Head(q).blocks \in Seq(Nat) /\ 1 \in DOMAIN q
           /\ Len(q) \in Nat /\ DOMAIN q = 1 .. Len(q) /\ DOMAIN Tail(q) = 1 .. Len(q) - 1
           /\ \A i \in 1 .. Len(q) - 1 : Tail(q)[i] = q[i + 1]
<1>1. /\ q \in Seq(Msg) /\ Tail(q) \in Seq(Msg) /\ Head(q) = q[1] /\ 1 \in DOMAIN q
      /\ Len(q) \in Nat /\ DOMAIN q = 1 .. Len(q)
      /\ DOMAIN Tail(q) = 1 .. Len(q) - 1 /\ \A i \in 1 .. Len(q) - 1 : Tail(q)[i] = q[i + 1]
  BY DEF Post
<1>2. \A i \in 1 .. Len(q) - 1 : i + 1 \in DOMAIN q
  BY <1>1
<1>3. Post(Tail(q))
  BY <1>1, <1>2 DEF Post
<1>4. q[1] \in Msg /\ Sound(q[1])
  BY <1>1 DEF Post
<1>5. QED BY <1>1, <1>3, <1>4 DEF Msg

\* A sequence of requests is sound after the tree has grown.
LEMMA StillSound ==
    ASSUME Len(tree) \in Nat, Len(tree') \in Nat, Len(tree) <= Len(tree')
    PROVE  /\ \A s : Asked(s) => Asked(s)'
           /\ \A q : Post(q) => Post(q)'
<1>1. ASSUME NEW s, Asked(s) PROVE Asked(s)'
  BY <1>1 DEF Asked
<1>2. ASSUME NEW q, Post(q) PROVE Post(q)'
  BY <1>1, <1>2 DEF Post, Sound
<1>3. QED BY <1>1, <1>2

\* A part of the node's chain above the first block.
LEMMA PartOfChain ==
    ASSUME TreeInv, NEW lo \in Nat, NEW hi \in Nat, 2 <= lo, hi <= Len(chain)
    PROVE  /\ SubSeq(chain, lo, hi) \in Seq(Nat) /\ Asked(SubSeq(chain, lo, hi))
           /\ Len(SubSeq(chain, lo, hi)) = IF lo <= hi THEN hi - lo + 1 ELSE 0
           /\ DOMAIN SubSeq(chain, lo, hi) = 1 .. hi - lo + 1
           /\ \A i \in 1 .. hi - lo + 1 : SubSeq(chain, lo, hi)[i] = chain[lo + i - 1]
<1>1. /\ chain \in Seq(Nat) /\ Len(chain) \in Nat
      /\ \A i \in 1 .. Len(chain) : chain[i] \in Nat /\ (i > 1 => chain[i] \in 2 .. Len(tree))
  <2>1. best \in DOMAIN tree
    BY DEF TreeInv
  <2>2. chain \in Seq(Nat) /\ DOMAIN chain = 1 .. Len(chain) /\ Len(chain) \in Nat
        /\ \A i \in 1 .. Len(chain) : i > 1 => chain[i] \in 2 .. Len(tree)
    BY <2>1, BranchOfBlock DEF chain
  <2>3. QED BY <2>2
<1>2. \A i \in lo .. hi : i \in 1 .. Len(chain) /\ i > 1
  BY <1>1
<1>3. \A i \in lo .. hi : chain[i] \in Nat
  BY <1>1, <1>2
<1>4. /\ SubSeq(chain, lo, hi) \in Seq(Nat)
      /\ Len(SubSeq(chain, lo, hi)) = IF lo <= hi THEN hi - lo + 1 ELSE 0
      /\ \A i \in 1 .. hi - lo + 1 : SubSeq(chain, lo, hi)[i] = chain[lo + i - 1]
  BY <1>3, SubSeqProperties
<1>5. DOMAIN SubSeq(chain, lo, hi) = 1 .. hi - lo + 1
  BY <1>4
<1>6. \A i \in 1 .. hi - lo + 1 : lo + i - 1 \in lo .. hi
  OBVIOUS
<1>7. Asked(SubSeq(chain, lo, hi))
  BY <1>1, <1>2, <1>4, <1>5, <1>6 DEF Asked
<1>8. QED BY <1>4, <1>5, <1>7

LEMMA FirstOf ==
    ASSUME NEW s \in Seq(Nat), NEW m \in Nat, m <= Len(s)
    PROVE  /\ SubSeq(s, 1, m) \in Seq(Nat) /\ Len(SubSeq(s, 1, m)) = m
           /\ \A i \in 1 .. m : SubSeq(s, 1, m)[i] = s[i]
OBVIOUS

LEMMA LastOf ==
    ASSUME NEW s \in Seq(Nat), NEW lo \in 1 .. Len(s)
    PROVE  /\ SubSeq(s, lo, Len(s)) \in Seq(Nat) /\ Len(SubSeq(s, lo, Len(s))) = Len(s) - lo + 1
           /\ DOMAIN SubSeq(s, lo, Len(s)) = 1 .. Len(s) - lo + 1
           /\ \A i \in 1 .. Len(s) - lo + 1 : SubSeq(s, lo, Len(s))[i] = s[lo + i - 1]
OBVIOUS

\* What the node answers is the part of its chain that follows, or the first of it.
PageOf(s, n) == SubSeq(s, 1, IF n < Len(s) THEN n ELSE Len(s))

LEMMA PageIs ==
    ASSUME TreeInv, NEW n \in Nat, n > 0, NEW lo \in Nat, 2 <= lo, lo <= Len(chain) + 1, NEW rest,
           rest = SubSeq(chain, lo, Len(chain))
    PROVE  /\ PageOf(rest, n) \in Seq(Nat) /\ Asked(PageOf(rest, n))
           /\ \/ PageOf(rest, n) # << >> /\ \E hi \in lo .. Len(chain) : PageOf(rest, n) = SubSeq(chain, lo, hi)
              \/ PageOf(rest, n) = << >> /\ lo = Len(chain) + 1
<1>0. PICK page : page = PageOf(rest, n) /\ page = SubSeq(rest, 1, IF n < Len(rest) THEN n ELSE Len(rest))
  BY DEF PageOf
<1>1. PICK top \in Nat : top = Len(chain)
  BY BranchOfBlock DEF TreeInv, chain
<1>2. /\ rest \in Seq(Nat) /\ Len(rest) = top - lo + 1 /\ Len(rest) \in Nat
      /\ \A i \in 1 .. Len(rest) : rest[i] = chain[lo + i - 1]
  BY SMTT(30), <1>1, PartOfChain
<1>3. PICK m \in Nat : m = (IF n < Len(rest) THEN n ELSE Len(rest))
  BY <1>2
<1>4. m <= Len(rest) /\ (m = 0 => Len(rest) = 0)
  BY <1>2, <1>3
<1>5. \A i \in 1 .. m : i \in 1 .. Len(rest) /\ rest[i] \in Nat
  BY <1>2, <1>4
<1>6. page \in Seq(Nat) /\ Len(page) = m /\ \A i \in 1 .. m : page[i] = rest[i]
  <2>1. page = SubSeq(rest, 1, m)
    BY <1>0, <1>3
  <2>2. QED BY <1>2, <1>4, <2>1, FirstOf
<1>7. PICK hi \in Nat : hi = lo + m - 1 /\ hi <= top /\ hi - lo + 1 = m
  BY <1>1, <1>2, <1>4
<1>8. page = SubSeq(chain, lo, hi) /\ Asked(page)
  <2>1. /\ SubSeq(chain, lo, hi) \in Seq(Nat) /\ Len(SubSeq(chain, lo, hi)) = m
        /\ Asked(SubSeq(chain, lo, hi))
        /\ \A i \in 1 .. m : SubSeq(chain, lo, hi)[i] = chain[lo + i - 1]
    BY <1>1, <1>7, PartOfChain
  <2>2. \A i \in 1 .. m : page[i] = SubSeq(chain, lo, hi)[i]
    BY <1>2, <1>4, <1>6, <2>1
  <2>3. page = SubSeq(chain, lo, hi)
    BY <1>6, <2>1, <2>2, SeqEqual
  <2>4. QED BY <2>1, <2>3
<1>9. CASE m = 0
  <2>1. page = << >> /\ lo = top + 1
    BY <1>2, <1>4, <1>6, <1>9
  <2>2. QED BY <1>0, <1>1, <1>6, <1>8, <2>1
<1>10. CASE m # 0
  <2>1. page # << >>
    BY <1>6, <1>10
  <2>2. hi \in lo .. top
    BY <1>1, <1>7, <1>10
  <2>3. QED BY <1>0, <1>1, <1>6, <1>8, <2>1, <2>2
<1>11. QED BY <1>0, <1>9, <1>10

LEMMA FollowingIs ==
    ASSUME TreeInv, NEW b
    PROVE  \E lo \in Nat :
              /\ 2 <= lo /\ lo <= Len(chain) + 1 /\ Following(b) = SubSeq(chain, lo, Len(chain))
              /\ \A i \in 1 .. Len(chain) : b = chain[i] => lo = i + 1
<1>1. /\ chain = BranchOf(best) /\ best \in DOMAIN tree /\ Len(chain) \in Nat \ {0}
      /\ DOMAIN chain = 1 .. Len(chain)
      /\ \A i \in 1 .. Len(chain) : Height(chain[i]) = i
  BY BranchOfBlock DEF TreeInv, chain
<1>2. CASE b \in Range(chain)
  <2>1. PICK i \in 1 .. Len(chain) : b = chain[i]
    BY <1>1, <1>2 DEF Range
  <2>2. Following(b) = SubSeq(chain, i + 1, Len(chain)) /\ Height(b) = i
    BY <1>1, <1>2, <2>1 DEF Following
  <2>3. \A j \in 1 .. Len(chain) : b = chain[j] => j = i
    BY <1>1, <2>2
  <2>4. i + 1 \in Nat /\ 2 <= i + 1 /\ i + 1 <= Len(chain) + 1
    BY <1>1
  <2>5. QED BY <2>2, <2>3, <2>4
<1>3. CASE b \notin Range(chain)
  <2>1. Following(b) = SubSeq(chain, 2, Len(chain)) /\ \A i \in 1 .. Len(chain) : b # chain[i]
    BY <1>1, <1>3 DEF Following, Range
  <2>2. 2 <= Len(chain) + 1
    BY <1>1
  <2>3. QED BY <2>1, <2>2
<1>4. QED BY <1>2, <1>3

LEMMA FetchInvInit == FetchInit => FetchInv
<1> SUFFICES ASSUME FetchInit PROVE FetchInv
  OBVIOUS
<1>1. Post(<< >>) /\ << >> \in Seq(Nat) /\ Asked(<< >>)
  BY DEF Post, Asked
<1>2. Message("version", << >>) \in Msg /\ Sound(Message("version", << >>))
  BY <1>1, MessageIs DEF Sound, Kinds
<1>3. Post(<<Message("version", << >>)>>)
  BY <1>2 DEF Post
<1>4. QED BY <1>1, <1>3, TreeInit DEF FetchInit, FetchInv, FileInv

\* The node's steps.
LEMMA FindKeeps == ASSUME FetchInv, NEW b \in DOMAIN tree, Find(b) PROVE FetchInv'
<1>1. /\ TreeInv' /\ Len(tree) \in Nat /\ Len(tree') = Len(tree) + 1
      /\ best' = best \/ best' = Len(tree) + 1
      /\ \A c \in DOMAIN tree : c \in DOMAIN tree' /\ tree'[c] = tree[c]
  BY GrowTree DEF FetchInv, Find
<1>2. Len(tree') \in Nat /\ Len(tree) <= Len(tree') /\ DOMAIN tree = 1 .. Len(tree) /\ 1 \in DOMAIN tree
  BY <1>1 DEF FetchInv, TreeInv, Genesis
<1>3. UNCHANGED <<toNode, inv, file, phase, client>>
  BY DEF Find, script
<1>4. (\A s : Asked(s) => Asked(s)') /\ (\A q : Post(q) => Post(q)')
  BY <1>1, <1>2, StillSound
<1>5. PICK hs, node1, asked, fb : hs = toHost /\ node1 = toNode /\ asked = inv /\ fb = file.blocks
  OBVIOUS
<1>6. Post(hs)' /\ Post(node1)' /\ Asked(asked)'
  BY <1>4, <1>5 DEF FetchInv
<1>7. Post(toHost)'
  <2>1. CASE toHost' = hs
    BY <1>6, <2>1 DEF Post
  <2>2. CASE toHost' = Append(hs, Message("inv", <<best'>>)) /\ best' # best
    <3>1. best' \in 2 .. Len(tree') /\ best' \in Nat
      BY <1>1, <1>2, <2>2
    <3>2. <<best'>> \in Seq(Nat) /\ Asked(<<best>>)'
      BY <3>1 DEF Asked
    <3>3. PICK m : m = Message("inv", <<best'>>)
      OBVIOUS
    <3>4. m \in Msg /\ m.kind = "inv" /\ m.blocks = <<best'>>
      BY <3>2, <3>3, MessageIs DEF Kinds
    <3>5. Sound(m)'
      BY <3>2, <3>4 DEF Sound
    <3>6. hs \in Seq(Msg) /\ Append(hs, m) \in Seq(Msg) /\ \A i \in DOMAIN Append(hs, m) :
             (i \in DOMAIN hs /\ Append(hs, m)[i] = hs[i]) \/ Append(hs, m)[i] = m
      BY <1>6, <3>4 DEF Post
    <3>7. toHost' = Append(hs, m)
      BY <2>2, <3>3
    <3>8. QED BY <1>6, <3>5, <3>6, <3>7 DEF Post, Sound, Asked
  <2>3. QED BY <1>5, <2>1, <2>2 DEF Find
<1>8. Post(toNode)' /\ Asked(inv)'
  BY <1>3, <1>5, <1>6 DEF Post, Asked, Sound
<1>9. FileInv'
  <2> SUFFICES ASSUME file # NoFile
               PROVE  phase = "done" /\ file.blocks \in Seq(Nat) /\ file.blocks # << >>
                      /\ Asked(fb)' /\ FileIsOneBranch'
    BY <1>3, <1>5 DEF FileInv, Asked
  <2>1. /\ phase = "done" /\ fb \in Seq(Nat) /\ fb # << >> /\ Asked(fb) /\ FileIsOneBranch
    BY <1>5 DEF FetchInv, FileInv
  <2>2. Len(fb) \in DOMAIN fb
    BY <2>1
  <2>3. PICK last : last = Last(file.blocks) /\ last \in DOMAIN tree
    <3>1. fb[Len(fb)] \in 2 .. Len(tree)
      BY <2>1, <2>2 DEF Asked
    <3>2. fb[Len(fb)] \in 1 .. Len(tree)
      BY <1>1, <3>1
    <3>3. QED BY <1>2, <1>5, <3>2 DEF Last
  <2>4. BranchOf(last)' = BranchOf(last)
    BY <1>1, <2>3 DEF BranchOf
  <2>5. FileIsOneBranch'
    BY <1>3, <2>1, <2>3, <2>4 DEF FileIsOneBranch
  <2>6. QED BY <1>4, <1>5, <2>1, <2>5
<1>10. QED BY <1>1, <1>3, <1>7, <1>8, <1>9 DEF FetchInv

\* Between two blocks found.
LEMMA NoneFound ==
    ASSUME FetchInv, UNCHANGED <<tree, best>>
    PROVE  /\ TreeInv'
           /\ \A q : Post(q) => (toHost' = q => Post(toHost)') /\ (toNode' = q => Post(toNode)')
           /\ \A s : s \in Seq(Nat) /\ Asked(s) /\ inv' = s => (inv \in Seq(Nat) /\ Asked(inv))'
           /\ file' = file /\ (file = NoFile \/ UNCHANGED <<phase, client>>) => FileInv'
<1>1. TreeInv'
  BY DEF FetchInv, TreeInv
<1>2. ASSUME NEW q, Post(q)
      PROVE  (toHost' = q => Post(toHost)') /\ (toNode' = q => Post(toNode)')
  BY <1>2 DEF Post, Sound, Asked
<1>3. \A s : s \in Seq(Nat) /\ Asked(s) /\ inv' = s => (inv \in Seq(Nat) /\ Asked(inv))'
  BY DEF Asked
<1>4. file' = file /\ (file = NoFile \/ UNCHANGED <<phase, client>>) => FileInv'
  BY DEF FetchInv, FileInv, Asked, FileIsOneBranch, BranchOf
<1>5. QED BY <1>1, <1>2, <1>3, <1>4

LEMMA AnswerKeeps == ASSUME FetchInv, Answer PROVE FetchInv'
<1>1. /\ toNode # << >> /\ toNode' = Tail(toNode) /\ UNCHANGED <<tree, best, inv, file, phase, client>>
  BY DEF Answer, chainVars, script
<1>2. PICK m : m = Head(toNode)
  OBVIOUS
<1>3. m \in Msg /\ Sound(m) /\ Post(Tail(toNode)) /\ Post(toHost) /\ m.blocks \in Seq(Nat)
  BY <1>1, <1>2, PostLess DEF FetchInv
<1>4. \E q : toHost' = q /\ Post(q)
  <2>1. CASE m.kind = "version" /\ toHost' = Append(toHost, m)
    BY <2>1, <1>3, PostMore
  <2>2. CASE m.kind = "getblocks" /\ AnswerGetblocks(m.blocks[1])
    <3>1. PICK rest : rest = Following(m.blocks[1])
      OBVIOUS
    <3>2. PICK n \in PageSizes :
             LET pg == SubSeq(rest, 1, IF n < Len(rest) THEN n ELSE Len(rest))
             IN  toHost' = IF pg = << >> THEN toHost ELSE Append(toHost, Message("inv", pg))
      BY <2>2, <3>1 DEF AnswerGetblocks
    <3>3. PICK page : page = SubSeq(rest, 1, IF n < Len(rest) THEN n ELSE Len(rest))
      OBVIOUS
    <3>4. page \in Seq(Nat) /\ Asked(page)
      <4>1. n \in Nat /\ n > 0
        BY FetchAssumption
      <4>2. PICK lo \in Nat : 2 <= lo /\ lo <= Len(chain) + 1 /\ rest = SubSeq(chain, lo, Len(chain))
        BY <3>1, FollowingIs DEF FetchInv
      <4>3. TreeInv
        BY DEF FetchInv
      <4>4. page = PageOf(rest, n)
        BY <3>3 DEF PageOf
      <4>5. QED BY <4>1, <4>2, <4>3, <4>4, PageIs
    <3>5. Message("inv", page) \in Msg /\ Sound(Message("inv", page))
      BY <3>4, MessageIs DEF Sound, Kinds
    <3>6. toHost' = toHost \/ toHost' = Append(toHost, Message("inv", page))
      BY <3>2, <3>3
    <3>7. QED BY <1>3, <3>5, <3>6, PostMore
  <2>3. CASE m.kind = "getdata" /\ toHost' = Append(toHost, Message("blocks", m.blocks))
    <3>1. Message("blocks", m.blocks) \in Msg /\ Sound(Message("blocks", m.blocks))
      BY <2>3, <1>3, MessageIs DEF Sound, Kinds
    <3>2. QED BY <2>3, <1>3, <3>1, PostMore
  <2>4. QED BY <1>2, <2>1, <2>2, <2>3 DEF Answer
<1>5. Post(toHost)' /\ Post(toNode)'
  BY <1>1, <1>3, <1>4, NoneFound
<1>6. TreeInv' /\ FileInv' /\ (inv \in Seq(Nat) /\ Asked(inv))'
  BY <1>1, NoneFound DEF FetchInv
<1>7. QED BY <1>1, <1>5, <1>6 DEF FetchInv

LEMMA TransactKeeps == ASSUME FetchInv, Transact PROVE FetchInv'
<1>1. /\ toHost' = Append(toHost, Message("inv", << >>))
      /\ UNCHANGED <<tree, best, toNode, inv, file, phase, client>>
  BY DEF Transact, node, chainVars, script
<1>2. Message("inv", << >>) \in Msg /\ Sound(Message("inv", << >>))
  <2>1. << >> \in Seq(Nat) /\ Asked(<< >>)
    BY DEF Asked
  <2>2. QED BY <2>1, MessageIs DEF Sound, Kinds
<1>3. Post(Append(toHost, Message("inv", << >>)))
  BY <1>2, PostMore DEF FetchInv
<1>4. QED BY <1>1, <1>3, NoneFound DEF FetchInv

\* The programs' steps.
LEMMA TailOfIs ==
    ASSUME NEW s \in Seq(Nat), s # << >>
    PROVE  /\ TailOf(s) \in Seq(Nat) /\ TailOf(s) # << >>
           /\ \A i \in DOMAIN TailOf(s) : \E j \in DOMAIN s : TailOf(s)[i] = s[j]
<1>1. TailLen \in Nat /\ TailLen > 0 /\ Len(s) \in Nat /\ Len(s) > 0 /\ DOMAIN s = 1 .. Len(s)
  BY FetchAssumption
<1>2. PICK lo \in 1 .. Len(s) : lo = IF Len(s) > TailLen THEN Len(s) - TailLen + 1 ELSE 1
  <2>1. CASE Len(s) > TailLen
    <3>1. Len(s) - TailLen + 1 \in 1 .. Len(s)
      BY <1>1, <2>1
    <3>2. QED BY <2>1, <3>1
  <2>2. CASE ~(Len(s) > TailLen)
    <3>1. 1 \in 1 .. Len(s)
      BY <1>1
    <3>2. QED BY <2>2, <3>1
  <2>3. QED BY <2>1, <2>2
<1>3. TailOf(s) = SubSeq(s, lo, Len(s))
  BY <1>2 DEF TailOf
<1>4. /\ TailOf(s) \in Seq(Nat) /\ Len(TailOf(s)) = Len(s) - lo + 1
      /\ DOMAIN TailOf(s) = 1 .. Len(s) - lo + 1
      /\ \A i \in 1 .. Len(s) - lo + 1 : TailOf(s)[i] = s[lo + i - 1]
  BY <1>3, LastOf
<1>5. Len(s) - lo + 1 >= 1 /\ \A i \in 1 .. Len(s) - lo + 1 : lo + i - 1 \in DOMAIN s
  BY <1>1
<1>6. TailOf(s) # << >>
  BY <1>4, <1>5
<1>7. QED BY <1>4, <1>5, <1>6

LEMMA ProgramKeeps ==
    ASSUME FetchInv, ReadVersion \/ ReadPage \/ StopAsking \/ ReadInventory \/ Ignore \/ Fail
    PROVE  FetchInv'
<1>1. UNCHANGED <<tree, best, file, client>> /\ phase \in {"inv", "blocks"}
  BY DEF ReadVersion, ReadPage, StopAsking, ReadInventory, Ignore, Fail, node, chainVars, script
<1>2. TreeInv' /\ FileInv'
  <2>1. file = NoFile
    BY <1>1 DEF FetchInv, FileInv
  <2>2. QED BY <1>1, <2>1, NoneFound
<1>3. /\ Post(toHost) /\ Post(toNode) /\ inv \in Seq(Nat) /\ Asked(inv)
      /\ toHost # << >> => /\ Post(Tail(toHost)) /\ Head(toHost).blocks \in Seq(Nat)
                           /\ Head(toHost).kind = "inv" => Asked(Head(toHost).blocks)
  BY PostLess DEF FetchInv, Sound
<1>4. Post(toHost)'
  <2>1. toHost' = toHost \/ (toHost # << >> /\ toHost' = Tail(toHost))
    BY DEF ReadVersion, ReadPage, StopAsking, ReadInventory, Ignore, Fail, Read, node, script
  <2>2. QED BY <1>1, <1>3, <2>1, NoneFound
<1>5. (inv \in Seq(Nat) /\ Asked(inv))'
  <2>1. CASE inv' = inv
    BY <1>1, <1>3, <2>1, NoneFound
  <2>2. CASE ReadPage \/ ReadInventory
    <3>1. PICK page \in Seq(Nat) : Asked(page) /\ (inv' = inv \o page \/ inv' = page)
      BY <1>3, <2>2 DEF ReadPage, ReadInventory, Read
    <3>2. inv \o page \in Seq(Nat) /\ Asked(inv \o page)
      <4>1. \A i \in DOMAIN (inv \o page) :
               \/ i \in DOMAIN inv /\ (inv \o page)[i] = inv[i]
               \/ i - Len(inv) \in DOMAIN page /\ (inv \o page)[i] = page[i - Len(inv)]
        BY <1>3
      <4>2. QED BY <1>3, <3>1, <4>1 DEF Asked
    <3>3. QED BY <1>1, <3>1, <3>2, NoneFound
  <2>3. QED BY <2>1, <2>2 DEF ReadVersion, StopAsking, Ignore, Fail, script
<1>6. Post(toNode)'
  <2>1. CASE toNode' = toNode
    BY <1>1, <1>3, <2>1, NoneFound
  <2>2. CASE \E blocks \in Seq(Nat) : toNode' = Append(toNode, Message("getblocks", blocks))
    <3>1. PICK blocks \in Seq(Nat) : toNode' = Append(toNode, Message("getblocks", blocks))
      BY <2>2
    <3>2. Message("getblocks", blocks) \in Msg /\ Sound(Message("getblocks", blocks))
      BY MessageIs DEF Sound, Kinds
    <3>3. QED BY <1>1, <1>3, <3>1, <3>2, PostMore, NoneFound
  <2>3. CASE \E blocks \in Seq(Nat) : /\ toNode' = Append(toNode, Message("getdata", blocks))
                                     /\ blocks # << >> /\ Asked(blocks)
    <3>1. PICK blocks \in Seq(Nat) : /\ toNode' = Append(toNode, Message("getdata", blocks))
                                     /\ blocks # << >> /\ Asked(blocks)
      BY <2>3
    <3>2. Message("getdata", blocks) \in Msg /\ Sound(Message("getdata", blocks))
      BY <3>1, MessageIs DEF Sound, Kinds
    <3>3. QED BY <1>1, <1>3, <3>1, <3>2, PostMore, NoneFound
  <2>4. CASE ReadVersion
    <3>1. <<Genesis>> \in Seq(Nat)
      BY DEF Genesis
    <3>2. QED BY <2>2, <2>4, <3>1 DEF ReadVersion, Ask
  <2>5. CASE ReadPage
    <3>1. inv' \in Seq(Nat) /\ inv' # << >>
      BY <1>3, <1>5, <2>5 DEF ReadPage, Read
    <3>2. Last(inv') \in Nat
      BY <3>1 DEF Last
    <3>3. <<Last(inv')>> \in Seq(Nat)
      BY <3>2
    <3>4. QED BY <2>2, <2>5, <3>3 DEF ReadPage, Ask
  <2>6. CASE StopAsking
    <3>1. inv # << >> /\ toNode' = Append(toNode, Message("getdata", TailOf(inv)))
      BY <2>6 DEF StopAsking, Ask
    <3>2. TailOf(inv) \in Seq(Nat) /\ TailOf(inv) # << >> /\ Asked(TailOf(inv))
      BY <1>3, <3>1, TailOfIs DEF Asked
    <3>3. QED BY <2>3, <3>1, <3>2
  <2>7. CASE ReadInventory
    <3>1. inv' = Head(toHost).blocks /\ toHost # << >> /\ Head(toHost).kind = "inv"
      BY <2>7 DEF ReadInventory, Read
    <3>2. inv' \in Seq(Nat) /\ Asked(Head(toHost).blocks)
      BY <1>3, <3>1
    <3>3. toNode' = toNode \/ (inv' # << >> /\ toNode' = Append(toNode, Message("getdata", inv')))
      BY <2>7 DEF ReadInventory, Ask
    <3>4. QED BY <2>1, <2>3, <3>1, <3>2, <3>3
  <2>8. QED BY <2>1, <2>4, <2>5, <2>6, <2>7 DEF Ignore, Fail
<1>7. QED BY <1>1, <1>2, <1>4, <1>5, <1>6 DEF FetchInv

\* What is acceptable is the end of a branch, and for the full chain all of it
\* above the first block.
LEMMA AcceptableIsBranch ==
    ASSUME TreeInv, client \in {"tip", "full"},
           NEW s \in Seq(Nat), s # << >>, Asked(s), Acceptable(s)
    PROVE  LET branch == BranchOf(Last(s))
               from == IF client = "full" THEN 2 ELSE Len(branch) - Len(s) + 1
           IN  from > 1 /\ s = SubSeq(branch, from, Len(branch))
<1>1. PICK n \in Nat, b \in DOMAIN tree, br \in Seq(Nat) :
         /\ n = Len(s) /\ n >= 1 /\ b = Last(s) /\ br = BranchOf(b) /\ n < Len(br)
         /\ \A i \in 1 .. n : s[i] = br[Len(br) - n + i]
  <2>1. /\ s[Len(s)] \in DOMAIN tree /\ Len(s) < Height(s[Len(s)])
        /\ \A i \in 1 .. Len(s) :
              s[i] = BranchOf(s[Len(s)])[Height(s[Len(s)]) - Len(s) + i]
    BY LinkedIsBranch DEF Acceptable, Asked
  <2>2. Len(s) \in Nat /\ Len(s) >= 1
    OBVIOUS
  <2>3. BranchOf(s[Len(s)]) \in Seq(Nat) /\ Height(s[Len(s)]) = Len(BranchOf(s[Len(s)]))
    BY <2>1, BranchOfBlock
  <2>4. QED BY <2>1, <2>2, <2>3 DEF Last
<1>2. PICK h \in Nat : h = Len(br) /\ h > n /\ DOMAIN br = 1 .. h
  BY <1>1
<1>3. PICK from \in Nat : from = h - n + 1 /\ from > 1 /\ from <= h /\ h - from + 1 = n
  BY <1>1, <1>2
<1>4. s = SubSeq(br, from, h)
  <2>1. from \in 1 .. Len(br)
    BY <1>2, <1>3
  <2>2. /\ SubSeq(br, from, h) \in Seq(Nat) /\ Len(SubSeq(br, from, h)) = n
        /\ \A i \in 1 .. n : SubSeq(br, from, h)[i] = br[from + i - 1]
    BY <1>2, <1>3, <2>1, LastOf
  <2>3. \A i \in 1 .. n : from + i - 1 = h - n + i
    BY <1>3
  <2>4. \A i \in 1 .. n : s[i] = SubSeq(br, from, h)[i]
    <3> SUFFICES ASSUME NEW i \in 1 .. n PROVE s[i] = SubSeq(br, from, h)[i]
      OBVIOUS
    <3>1. s[i] = br[h - n + i]
      BY <1>1, <1>2
    <3>2. SubSeq(br, from, h)[i] = br[h - n + i]
      BY <2>2, <2>3, Zenon
    <3>3. QED BY <3>1, <3>2
  <2>5. QED BY <1>1, <2>2, <2>4, SeqEqual
<1>5. client = "full" => from = 2
  <2> SUFFICES ASSUME client = "full" PROVE from = 2
    OBVIOUS
  <2>1. s[1] = br[from] /\ 1 \in DOMAIN s /\ from \in 1 .. h
    <3>1. 1 \in 1 .. n /\ h - n + 1 = from
      BY <1>1, <1>3
    <3>2. s[1] = br[from]
      BY <1>1, <1>2, <3>1
    <3>3. QED BY <1>1, <1>3, <3>2
  <2>2. s[1] \in DOMAIN tree /\ Height(s[1]) = from /\ s[1] # Genesis
        /\ BranchOf(s[1])[from - 1] = br[from - 1]
    <3>1. \A i \in 1 .. h : /\ br[i] \in DOMAIN tree /\ Height(br[i]) = i
                             /\ \A j \in 1 .. i : BranchOf(br[i])[j] = br[j]
      <4>1. h = Height(b)
        BY <1>1, <1>2, BranchOfBlock
      <4>2. QED BY SMTT(30), <1>1, <4>1, BranchOfBlock
    <3>2. from - 1 \in 1 .. from
      BY <1>3
    <3>3. s[1] # Genesis
      BY <2>1 DEF Asked, Genesis
    <3>4. QED BY <2>1, <3>1, <3>2, <3>3
  <2>3. tree[s[1]].parent = BranchOf(s[1])[from - 1]
    BY <2>2, BranchOfBlock
  <2>4. br[from - 1] = Genesis
    BY <2>2, <2>3 DEF Acceptable
  <2>5. Height(br[from - 1]) = from - 1 /\ br[from - 1] \in DOMAIN tree
    <3>1. from - 1 \in 1 .. h /\ h = Height(b)
      <4>1. h = Height(b)
        BY <1>1, <1>2, BranchOfBlock
      <4>2. from - 1 \in 1 .. h
        BY <1>3
      <4>3. QED BY <4>1, <4>2
    <3>2. QED BY <1>1, <3>1, BranchOfBlock
  <2>6. from - 1 = 1
    BY <2>4, <2>5, BranchOfBlock
  <2>7. QED BY <1>3, <2>6
<1>6. (IF client = "full" THEN 2 ELSE Len(BranchOf(Last(s))) - Len(s) + 1) = from
  BY <1>1, <1>2, <1>3, <1>5
<1>7. QED BY <1>1, <1>2, <1>3, <1>4, <1>6

LEMMA ReadBlocksKeeps == ASSUME FetchInv, ReadBlocks PROVE FetchInv'
<1>1. /\ UNCHANGED <<tree, best, toNode, client, inv>> /\ phase = "blocks"
      /\ toHost # << >> /\ toHost' = Tail(toHost) /\ Head(toHost).kind = "blocks"
  BY DEF ReadBlocks, Read, node, chainVars
<1>2. PICK s : s = Head(toHost).blocks
  OBVIOUS
<1>3. Post(Tail(toHost)) /\ s \in Seq(Nat) /\ Asked(s) /\ s # << >>
  BY <1>1, <1>2, PostLess DEF FetchInv, Sound
<1>4. TreeInv' /\ Post(toHost)' /\ Post(toNode)' /\ (inv \in Seq(Nat) /\ Asked(inv))'
  BY <1>1, <1>3, NoneFound DEF FetchInv
<1>5. FileInv'
  <2>1. CASE file' = file
    <3>1. file = NoFile
      BY <1>1 DEF FetchInv, FileInv
    <3>2. QED BY <1>1, <2>1, <3>1, NoneFound
  <2>2. CASE Acceptable(s) /\ file' = [blocks |-> s, height |-> Len(inv)] /\ phase' = "done"
    <3>1. file'.blocks = s
      BY <2>2
    <3>2. LET branch == BranchOf(Last(s))
              from == IF client = "full" THEN 2 ELSE Len(branch) - Len(s) + 1
          IN  from > 1 /\ s = SubSeq(branch, from, Len(branch))
      BY <1>3, <2>2, AcceptableIsBranch DEF FetchInv
    <3>3. BranchOf(Last(s))' = BranchOf(Last(s)) /\ Asked(s)'
      BY <1>1, <1>3 DEF BranchOf, Asked
    <3>4. FileIsOneBranch'
      BY <1>1, <3>1, <3>2, <3>3 DEF FileIsOneBranch
    <3>5. QED BY <1>3, <2>2, <3>1, <3>3, <3>4 DEF FileInv
  <2>3. QED BY <1>2, <2>1, <2>2 DEF ReadBlocks
<1>6. QED BY <1>1, <1>4, <1>5 DEF FetchInv

LEMMA FetchInvStep == FetchInv /\ [FetchNext]_fetchVars => FetchInv'
<1> SUFFICES ASSUME FetchInv, [FetchNext]_fetchVars PROVE FetchInv'
  OBVIOUS
<1>1. CASE \E b \in DOMAIN tree : Find(b)
  BY <1>1, FindKeeps
<1>2. CASE Answer \/ Transact
  BY <1>2, AnswerKeeps, TransactKeeps
<1>3. CASE ReadVersion \/ ReadPage \/ StopAsking \/ ReadInventory \/ Ignore \/ Fail
  BY <1>3, ProgramKeeps
<1>4. CASE ReadBlocks
  BY <1>4, ReadBlocksKeeps
<1>5. CASE UNCHANGED fetchVars
  <2>1. UNCHANGED <<tree, best, toNode, toHost, client, inv, file, phase>>
    BY <1>5 DEF fetchVars, node, chainVars, script
  <2>2. QED BY <2>1, NoneFound DEF FetchInv
<1>6. QED BY <1>1, <1>2, <1>3, <1>4, <1>5 DEF FetchNext

\* A file holds the end of one branch, and the full chain all of it, whatever
\* the node found, answered or announced while it was fetched
\* (fetch_tip_context.py:113-131, fetch_full_chain.py:86-107).
THEOREM FilesAreOneBranch == FetchSpec => []FileIsOneBranch
<1>1. FetchInv => FileIsOneBranch
  BY DEF FetchInv, FileInv, FileIsOneBranch
<1>2. QED BY <1>1, FetchInvInit, FetchInvStep, PTL DEF FetchSpec

-------------------------------------------------------------------------------
\* While the tip stands still: what is under way is one thing the program waits
\* for, among inventories that name no block.
Noise == Message("inv", << >>)
Version == Message("version", << >>)
Silent(q) == \A i \in DOMAIN q : q[i] = Noise
Alone(m, q) == \E i \in DOMAIN q : q[i] = m /\ \A j \in DOMAIN q : j # i => q[j] = Noise
Names(q, kind, s) == \A i \in DOMAIN q : q[i].kind = kind => q[i].blocks = s

\* The hashes reach up to the g-th of the chain c: the greeting or its answer is
\* under way, or the question for what follows, or its answer, or there is none.
Asking(tn, th, c, g) ==
    \/ tn = <<Version>> /\ Silent(th) /\ g = 1
    \/ tn = << >> /\ Alone(Version, th) /\ g = 1
    \/ tn = <<Message("getblocks", <<c[g]>>)>> /\ Silent(th)
    \/ tn = << >> /\ \E n \in g + 1 .. Len(c) : Alone(Message("inv", SubSeq(c, g + 1, n)), th)
    \/ tn = << >> /\ Silent(th) /\ g = Len(c)

Enough(v, c, e) == v # << >> /\ (e \/ Len(v) + 1 = Len(c))

OnTheWay(ph, tn, th, c, v, e, f) ==
    /\ Len(v) + 1 <= Len(c) /\ v = SubSeq(c, 2, Len(v) + 1)
    /\ ph = "inv" => Asking(tn, th, c, Len(v) + 1)
    /\ ph = "blocks" => /\ Enough(v, c, e)
                        /\ Names(tn, "getdata", TailOf(v)) /\ Names(th, "blocks", TailOf(v))
    /\ ph = "done" => Enough(v, c, e) /\ f = [blocks |-> TailOf(v), height |-> Len(v)]

QuietInv ==
    client = "tip" /\ ~moved => OnTheWay(phase, toNode, toHost, chain, inv, early, file)

LEMMA NoiseIs ==
    /\ Noise \in Msg /\ Noise.kind = "inv" /\ Noise.blocks = << >>
    /\ Version \in Msg /\ Version.kind = "version" /\ Version.blocks = << >>
<1>1. << >> \in Seq(Nat)
  OBVIOUS
<1>2. QED BY <1>1, MessageIs DEF Noise, Version, Kinds

LEMMA AloneMore ==
    ASSUME NEW q \in Seq(Msg), NEW m \in Msg
    PROVE  /\ Silent(q) => Silent(Append(q, Noise)) /\ Alone(m, Append(q, m))
           /\ Alone(m, q) => Alone(m, Append(q, Noise))
<1>1. ASSUME NEW x \in Msg
      PROVE  /\ DOMAIN Append(q, x) = 1 .. Len(q) + 1 /\ Append(q, x)[Len(q) + 1] = x
             /\ \A i \in 1 .. Len(q) : Append(q, x)[i] = q[i]
  OBVIOUS
<1>2. DOMAIN q = 1 .. Len(q) /\ Len(q) \in Nat
  OBVIOUS
<1>3. \A i \in 1 .. Len(q) + 1 : i \in 1 .. Len(q) \/ i = Len(q) + 1
  BY <1>2
<1>4. /\ DOMAIN Append(q, Noise) = 1 .. Len(q) + 1 /\ Append(q, Noise)[Len(q) + 1] = Noise
      /\ \A i \in 1 .. Len(q) : Append(q, Noise)[i] = q[i]
  BY <1>1, NoiseIs
<1>5. Silent(q) => Silent(Append(q, Noise))
  BY <1>2, <1>3, <1>4 DEF Silent
<1>6. ASSUME Silent(q) PROVE Alone(m, Append(q, m))
  <2>1. Len(q) + 1 \in DOMAIN Append(q, m) /\ Append(q, m)[Len(q) + 1] = m
    BY <1>1, <1>2
  <2>2. \A j \in DOMAIN Append(q, m) : j # Len(q) + 1 => Append(q, m)[j] = Noise
    BY <1>1, <1>2, <1>3, <1>6 DEF Silent
  <2>3. QED BY <2>1, <2>2 DEF Alone
<1>7. ASSUME Alone(m, q) PROVE Alone(m, Append(q, Noise))
  <2>1. PICK i \in DOMAIN q : q[i] = m /\ \A j \in DOMAIN q : j # i => q[j] = Noise
    BY <1>7 DEF Alone
  <2>2. i \in DOMAIN Append(q, Noise) /\ Append(q, Noise)[i] = m
    BY <1>2, <1>4, <2>1
  <2>3. \A j \in DOMAIN Append(q, Noise) : j # i => Append(q, Noise)[j] = Noise
    BY <1>2, <1>3, <1>4, <2>1
  <2>4. QED BY <2>2, <2>3 DEF Alone
<1>8. QED BY <1>5, <1>6, <1>7

LEMMA AloneLess ==
    ASSUME NEW q, Post(q), q # << >>, NEW m
    PROVE  /\ Silent(q) => Head(q) = Noise /\ Silent(Tail(q))
           /\ Alone(m, q) => \/ Head(q) = m /\ Silent(Tail(q))
                             \/ Head(q) = Noise /\ Alone(m, Tail(q))
<1>1. /\ Head(q) = q[1] /\ 1 \in DOMAIN q /\ Len(q) \in Nat /\ DOMAIN q = 1 .. Len(q)
      /\ DOMAIN Tail(q) = 1 .. Len(q) - 1 /\ \A i \in 1 .. Len(q) - 1 : Tail(q)[i] = q[i + 1]
  BY PostLess
<1>2. \A i \in 1 .. Len(q) - 1 : i + 1 \in DOMAIN q /\ i + 1 # 1
  BY <1>1
<1>3. Silent(q) => Head(q) = Noise /\ Silent(Tail(q))
  BY <1>1, <1>2 DEF Silent
<1>4. ASSUME Alone(m, q)
      PROVE  \/ Head(q) = m /\ Silent(Tail(q))
             \/ Head(q) = Noise /\ Alone(m, Tail(q))
  <2>1. PICK i \in DOMAIN q : q[i] = m /\ \A j \in DOMAIN q : j # i => q[j] = Noise
    BY <1>4 DEF Alone
  <2>2. CASE i = 1
    <3>1. \A j \in DOMAIN Tail(q) : Tail(q)[j] = Noise
      BY <1>1, <1>2, <2>1, <2>2
    <3>2. QED BY <1>1, <2>1, <2>2, <3>1 DEF Silent
  <2>3. CASE i # 1
    <3>1. i - 1 \in DOMAIN Tail(q) /\ Tail(q)[i - 1] = m
      <4>1. i - 1 \in 1 .. Len(q) - 1 /\ i - 1 + 1 = i
        BY <1>1, <2>3
      <4>2. QED BY <1>1, <2>1, <4>1
    <3>2. \A j \in DOMAIN Tail(q) : j # i - 1 => Tail(q)[j] = Noise
      <4>1. \A j \in 1 .. Len(q) - 1 : j # i - 1 => j + 1 # i
        BY <1>1
      <4>2. QED BY <1>1, <1>2, <2>1, <4>1
    <3>3. Head(q) = Noise
      BY <1>1, <2>1, <2>3
    <3>4. QED BY <3>1, <3>2, <3>3 DEF Alone
  <2>4. QED BY <2>2, <2>3
<1>5. QED BY <1>3, <1>4

\* Names survives what is taken off and what does not break it.
LEMMA NamesKept ==
    ASSUME NEW q, Post(q), NEW kind, NEW s, Names(q, kind, s)
    PROVE  /\ q # << >> => Names(Tail(q), kind, s) /\ (Head(q).kind = kind => Head(q).blocks = s)
           /\ \A m \in Msg : (m.kind = kind => m.blocks = s) => Names(Append(q, m), kind, s)
<1>1. ASSUME q # << >>
      PROVE  Names(Tail(q), kind, s) /\ (Head(q).kind = kind => Head(q).blocks = s)
  <2>1. /\ Head(q) = q[1] /\ 1 \in DOMAIN q /\ Len(q) \in Nat /\ DOMAIN q = 1 .. Len(q)
        /\ DOMAIN Tail(q) = 1 .. Len(q) - 1 /\ \A i \in 1 .. Len(q) - 1 : Tail(q)[i] = q[i + 1]
    BY <1>1, PostLess
  <2>2. \A i \in 1 .. Len(q) - 1 : i + 1 \in DOMAIN q
    BY <2>1
  <2>3. QED BY <2>1, <2>2 DEF Names
<1>2. ASSUME NEW m \in Msg, m.kind = kind => m.blocks = s
      PROVE  Names(Append(q, m), kind, s)
  <2>1. /\ DOMAIN Append(q, m) = 1 .. Len(q) + 1 /\ Append(q, m)[Len(q) + 1] = m
        /\ \A i \in 1 .. Len(q) : Append(q, m)[i] = q[i]
        /\ DOMAIN q = 1 .. Len(q) /\ Len(q) \in Nat
    BY DEF Post
  <2>2. \A i \in 1 .. Len(q) + 1 : i \in 1 .. Len(q) \/ i = Len(q) + 1
    BY <2>1
  <2>3. QED BY <1>2, <2>1, <2>2 DEF Names
<1>3. QED BY <1>1, <1>2

LEMMA ChainIs ==
    ASSUME TreeInv
    PROVE  /\ chain \in Seq(Nat) /\ Len(chain) \in Nat \ {0} /\ chain[1] = Genesis
           /\ DOMAIN chain = 1 .. Len(chain) /\ \A i \in 1 .. Len(chain) : chain[i] \in Nat
<1>1. best \in DOMAIN tree
  BY DEF TreeInv
<1>2. chain \in Seq(Nat) /\ Len(chain) \in Nat \ {0} /\ chain[1] = Genesis /\ DOMAIN chain = 1 .. Len(chain)
  BY <1>1, BranchOfBlock DEF chain
<1>3. QED BY <1>2

LEMMA QuietInit == FetchInit => QuietInv
<1> SUFFICES ASSUME FetchInit PROVE QuietInv
  OBVIOUS
<1>1. PICK c : c = chain /\ c \in Seq(Nat) /\ Len(c) \in Nat \ {0}
  BY TreeInit, ChainIs
<1>2. toNode = <<Version>> /\ toHost = << >> /\ inv = << >> /\ phase = "inv"
  BY DEF FetchInit, Version
<1>3. Silent(<< >>)
  BY DEF Silent
<1>4. PICK v : v = << >> /\ Len(v) + 1 = 1
  OBVIOUS
<1>5. SubSeq(c, 2, 1) = << >>
  BY <1>1
<1>6. OnTheWay("inv", <<Version>>, << >>, c, v, early, file)
  BY <1>1, <1>3, <1>4, <1>5 DEF OnTheWay, Asking
<1>7. QED BY <1>1, <1>2, <1>4, <1>6 DEF QuietInv

\* The answer to the question for what follows the last hash is the next page.
LEMMA NextPage ==
    ASSUME TreeInv, NEW g \in 1 .. Len(chain), AnswerGetblocks(chain[g])
    PROVE  \/ toHost' = toHost /\ g = Len(chain)
           \/ \E hi \in g + 1 .. Len(chain) :
                 toHost' = Append(toHost, Message("inv", SubSeq(chain, g + 1, hi)))
<1>1. PICK rest : rest = Following(chain[g])
  OBVIOUS
<1>2. PICK n \in PageSizes :
         LET pg == SubSeq(rest, 1, IF n < Len(rest) THEN n ELSE Len(rest))
         IN  toHost' = IF pg = << >> THEN toHost ELSE Append(toHost, Message("inv", pg))
  BY <1>1 DEF AnswerGetblocks
<1>3. PICK page : page = PageOf(rest, n)
  OBVIOUS
<1>4. toHost' = IF page = << >> THEN toHost ELSE Append(toHost, Message("inv", page))
  BY <1>2, <1>3 DEF PageOf
<1>5. n \in Nat /\ n > 0
  BY FetchAssumption
<1>6. PICK lo \in Nat : 2 <= lo /\ lo <= Len(chain) + 1 /\ rest = SubSeq(chain, lo, Len(chain)) /\ lo = g + 1
  BY <1>1, FollowingIs
<1>7. \/ page # << >> /\ \E hi \in lo .. Len(chain) : page = SubSeq(chain, lo, hi)
      \/ page = << >> /\ lo = Len(chain) + 1
  <2>1. \/ PageOf(rest, n) # << >> /\ \E hi \in lo .. Len(chain) : PageOf(rest, n) = SubSeq(chain, lo, hi)
        \/ PageOf(rest, n) = << >> /\ lo = Len(chain) + 1
    <3>1. TreeInv /\ n \in Nat /\ n > 0
      BY <1>5
    <3>2. lo \in Nat /\ 2 <= lo /\ lo <= Len(chain) + 1 /\ rest = SubSeq(chain, lo, Len(chain))
      BY <1>6
    <3>3. QED BY ONLY <3>1, <3>2, PageIs, Zenon
  <2>2. QED BY <1>3, <2>1
<1>8. CASE page = << >> /\ lo = Len(chain) + 1
  <2>1. Len(chain) \in Nat
    BY ChainIs
  <2>2. g = Len(chain)
    BY <1>6, <1>8, <2>1
  <2>3. QED BY <1>4, <1>8, <2>2
<1>9. CASE page # << >> /\ \E hi \in lo .. Len(chain) : page = SubSeq(chain, lo, hi)
  BY <1>4, <1>6, <1>9
<1>10. QED BY <1>7, <1>8, <1>9

\* A part of a sequence, and one part after another.
LEMMA PartOf ==
    ASSUME NEW s \in Seq(Nat), NEW lo \in Nat, NEW hi \in Nat, lo >= 1, hi <= Len(s), lo <= hi + 1
    PROVE  /\ SubSeq(s, lo, hi) \in Seq(Nat) /\ Len(SubSeq(s, lo, hi)) = hi - lo + 1
           /\ \A i \in 1 .. hi - lo + 1 : SubSeq(s, lo, hi)[i] = s[lo + i - 1]
<1>1. \A i \in lo .. hi : i \in DOMAIN s /\ s[i] \in Nat
  OBVIOUS
<1>2. lo > hi => hi - lo + 1 = 0
  OBVIOUS
<1>3. PICK part : part = SubSeq(s, lo, hi)
  OBVIOUS
<1>4. /\ part \in Seq(Nat) /\ Len(part) = (IF lo <= hi THEN hi - lo + 1 ELSE 0)
      /\ \A i \in 1 .. hi - lo + 1 : part[i] = s[lo + i - 1]
  <2>1. lo \in Int /\ hi \in Int /\ \A i \in lo .. hi : s[i] \in Nat
    BY <1>1
  <2>2. /\ SubSeq(s, lo, hi) \in Seq(Nat)
        /\ Len(SubSeq(s, lo, hi)) = (IF lo <= hi THEN hi - lo + 1 ELSE 0)
        /\ \A i \in 1 .. hi - lo + 1 : SubSeq(s, lo, hi)[i] = s[lo + i - 1]
    BY ONLY <2>1, SubSeqProperties
  <2>3. QED BY <1>3, <2>2, Zenon
<1>5. (IF lo <= hi THEN hi - lo + 1 ELSE 0) = hi - lo + 1
  BY <1>2
<1>6. QED BY <1>3, <1>4, <1>5, Zenon

LEMMA Joined ==
    ASSUME NEW s \in Seq(Nat), NEW q \in Seq(Nat), NEW w \in Seq(Nat), Len(w) = Len(s) + Len(q),
           \A i \in 1 .. Len(s) : s[i] = w[i],
           \A i \in 1 .. Len(q) : q[i] = w[Len(s) + i]
    PROVE  s \o q = w
<1>1. s \o q \in Seq(Nat) /\ Len(s \o q) = Len(s) + Len(q)
  OBVIOUS
<1>2. \A i \in 1 .. Len(s) : (s \o q)[i] = s[i]
  OBVIOUS
<1>3. \A i \in 1 .. Len(q) : (s \o q)[Len(s) + i] = q[i]
  OBVIOUS
<1>4. \A i \in 1 .. Len(s) + Len(q) :
         i \in 1 .. Len(s) \/ \E k \in 1 .. Len(q) : i = Len(s) + k
  <2>1. \A i \in 1 .. Len(s) + Len(q) :
           i \in 1 .. Len(s) \/ (i - Len(s) \in 1 .. Len(q) /\ i = Len(s) + (i - Len(s)))
    OBVIOUS
  <2>2. QED BY <2>1
<1>5. \A i \in 1 .. Len(s) + Len(q) : (s \o q)[i] = w[i]
  <2> SUFFICES ASSUME NEW i \in 1 .. Len(s) + Len(q) PROVE (s \o q)[i] = w[i]
    OBVIOUS
  <2>1. CASE i \in 1 .. Len(s)
    BY <1>2, <2>1, Zenon
  <2>2. CASE \E k \in 1 .. Len(q) : i = Len(s) + k
    BY <1>3, <2>2, Zenon
  <2>3. QED BY <1>4, <2>1, <2>2
<1>6. QED BY <1>1, <1>5, SeqEqual

\* A page carried on from the g-th block reaches to the n-th, and names some.
LEMMA PageJoins ==
    ASSUME NEW c \in Seq(Nat), NEW g \in 1 .. Len(c), NEW n \in g + 1 .. Len(c)
    PROVE  /\ SubSeq(c, g + 1, n) \in Seq(Nat) /\ SubSeq(c, g + 1, n) # << >>
           /\ SubSeq(c, 2, g) \o SubSeq(c, g + 1, n) = SubSeq(c, 2, n)
           /\ SubSeq(c, 2, n) \in Seq(Nat) /\ Len(SubSeq(c, 2, n)) = n - 1
           /\ SubSeq(c, 2, n)[n - 1] = c[n]
<1>1. PICK v \in Seq(Nat) : /\ v = SubSeq(c, 2, g) /\ Len(v) = g - 2 + 1
                           /\ \A i \in 1 .. g - 2 + 1 : v[i] = c[2 + i - 1]
  <2>1. 2 \in Nat /\ g \in Nat /\ 2 >= 1 /\ g <= Len(c) /\ 2 <= g + 1
    OBVIOUS
  <2>2. QED BY <2>1, PartOf, Zenon
<1>2. PICK page \in Seq(Nat) : /\ page = SubSeq(c, g + 1, n) /\ Len(page) = n - (g + 1) + 1
                              /\ \A i \in 1 .. n - (g + 1) + 1 : page[i] = c[(g + 1) + i - 1]
  <2>1. g + 1 \in Nat /\ n \in Nat /\ g + 1 >= 1 /\ n <= Len(c) /\ g + 1 <= n + 1
    OBVIOUS
  <2>2. QED BY <2>1, PartOf, Zenon
<1>3. PICK w \in Seq(Nat) : /\ w = SubSeq(c, 2, n) /\ Len(w) = n - 2 + 1
                           /\ \A i \in 1 .. n - 2 + 1 : w[i] = c[2 + i - 1]
  <2>1. 2 \in Nat /\ n \in Nat /\ 2 >= 1 /\ n <= Len(c) /\ 2 <= n + 1
    OBVIOUS
  <2>2. QED BY <2>1, PartOf, ZenonT(30)
<1>4. v \o page = w
  <2>1. Len(v) = g - 1 /\ Len(page) = n - g /\ Len(w) = Len(v) + Len(page)
    BY <1>1, <1>2, <1>3
  <2>2. \A i \in 1 .. Len(v) : v[i] = w[i]
    BY <1>1, <1>3
  <2>3. \A i \in 1 .. Len(page) : page[i] = w[Len(v) + i]
    <3> SUFFICES ASSUME NEW i \in 1 .. Len(page) PROVE page[i] = w[Len(v) + i]
      OBVIOUS
    <3>1. i \in 1 .. n - (g + 1) + 1 /\ Len(v) + i \in 1 .. n - 2 + 1
          /\ (g + 1) + i - 1 = 2 + (Len(v) + i) - 1
      BY <2>1
    <3>2. QED BY <1>2, <1>3, <3>1
  <2>4. QED BY <2>1, <2>2, <2>3, Joined
<1>5. Len(w) = n - 1 /\ w[n - 1] = c[n] /\ page # << >>
  <2>1. n - 1 \in 1 .. n - 2 + 1 /\ 2 + (n - 1) - 1 = n /\ Len(page) # 0 /\ n - 2 + 1 = n - 1
    BY <1>2
  <2>2. QED BY <1>2, <1>3, <2>1
<1>6. QED BY <1>1, <1>2, <1>3, <1>4, <1>5, Zenon

LEMMA QuietFind ==
    ASSUME FetchInv, QuietInv, client = "tip", ~moved', NEW b \in DOMAIN tree, Find(b)
    PROVE  QuietInv'
<1>1. UNCHANGED <<toNode, client, phase, inv, file, early>> /\ best' = best /\ moved' = moved /\ toHost' = toHost
  BY DEF Find, script
<1>2. tree'[best] = tree[best]
  BY GrowTree DEF Find, FetchInv, TreeInv
<1>3. chain' = chain
  BY <1>1, <1>2 DEF chain, BranchOf
<1>4. QED BY <1>1, <1>3 DEF QuietInv

\* What the node is asked, in the words of the invariant.
LEMMA QuietAnswer ==
    ASSUME FetchInv, QuietInv, client = "tip", ~moved', Answer
    PROVE  QuietInv'
<1>1. /\ toNode # << >> /\ toNode' = Tail(toNode) /\ ~moved
      /\ UNCHANGED <<tree, best, moved, client, phase, inv, file, early>>
  BY DEF Answer, chainVars, script
<1>2. PICK c, v, tn, th, m : c = chain /\ v = inv /\ tn = toNode /\ th = toHost /\ m = Head(toNode)
  OBVIOUS
<1>3. OnTheWay(phase, tn, th, c, v, early, file)
  BY <1>1, <1>2 DEF QuietInv
<1>4. /\ m \in Msg /\ Post(Tail(tn)) /\ Post(tn) /\ Post(th) /\ th \in Seq(Msg)
      /\ c \in Seq(Nat) /\ Len(c) \in Nat \ {0} /\ v \in Seq(Nat) /\ m.blocks \in Seq(Nat)
      /\ Len(v) \in Nat
  <2>1. inv \in Seq(Nat) /\ Post(toNode) /\ Post(toHost) /\ TreeInv
    BY DEF FetchInv
  <2>2. m \in Msg /\ Post(Tail(tn)) /\ m.blocks \in Seq(Nat)
    BY <1>1, <1>2, <2>1, PostLess
  <2>3. QED BY <1>2, <2>1, <2>2, ChainIs DEF Post
<1>5. chain' = c
  BY <1>1, <1>2 DEF chain, BranchOf
<1>6. ASSUME phase = "inv" PROVE Asking(Tail(tn), toHost', c, Len(v) + 1)
  <2>1. Asking(tn, th, c, Len(v) + 1)
    BY <1>3, <1>6 DEF OnTheWay
  <2>2. CASE tn = <<Version>> /\ Silent(th) /\ Len(v) + 1 = 1
    <3>1. m = Version /\ Tail(tn) = << >>
      BY <1>2, <2>2
    <3>2. toHost' = Append(th, Version)
      BY <1>2, <3>1, NoiseIs DEF Answer
    <3>3. Alone(Version, Append(th, Version))
      BY <1>4, <2>2, AloneMore, NoiseIs
    <3>4. QED BY <2>2, <3>1, <3>2, <3>3 DEF Asking
  <2>3. CASE tn = <<Message("getblocks", <<c[Len(v) + 1]>>)>> /\ Silent(th)
    <3>1. PICK g \in 1 .. Len(c) : g = Len(v) + 1
      BY <1>3, <1>4 DEF OnTheWay
    <3>2. <<c[g]>> \in Seq(Nat) /\ <<c[g]>>[1] = c[g]
      BY <1>4, <3>1
    <3>3. m = Message("getblocks", <<c[g]>>) /\ Tail(tn) = << >>
      BY <1>2, <2>3, <3>1
    <3>4. m.kind = "getblocks" /\ m.blocks[1] = c[g]
      BY <3>2, <3>3, MessageIs DEF Kinds
    <3>5. AnswerGetblocks(chain[g])
      BY <1>2, <3>4 DEF Answer
    <3>6. CASE toHost' = th /\ g = Len(c)
      BY <2>3, <3>1, <3>3, <3>6 DEF Asking
    <3>7. CASE \E hi \in g + 1 .. Len(c) : toHost' = Append(th, Message("inv", SubSeq(c, g + 1, hi)))
      <4>1. PICK hi \in g + 1 .. Len(c) : toHost' = Append(th, Message("inv", SubSeq(c, g + 1, hi)))
        BY <3>7
      <4>2. SubSeq(c, g + 1, hi) \in Seq(Nat)
        BY SMTT(30), <1>4, <3>1, <4>1
      <4>3. Message("inv", SubSeq(c, g + 1, hi)) \in Msg
        BY <4>2, MessageIs DEF Kinds
      <4>4. Alone(Message("inv", SubSeq(c, g + 1, hi)), toHost')
        BY <1>4, <2>3, <4>1, <4>3, AloneMore
      <4>5. QED BY <3>1, <3>3, <4>1, <4>4 DEF Asking
    <3>8. TreeInv
      BY DEF FetchInv
    <3>9. QED BY <1>2, <3>5, <3>6, <3>7, <3>8, NextPage
  <2>4. QED BY <1>1, <1>2, <2>1, <2>2, <2>3 DEF Asking
<1>7. ASSUME phase = "blocks"
      PROVE  Names(Tail(tn), "getdata", TailOf(v)) /\ Names(toHost', "blocks", TailOf(v))
  <2>1. Names(tn, "getdata", TailOf(v)) /\ Names(th, "blocks", TailOf(v))
    BY <1>3, <1>7 DEF OnTheWay
  <2>2. Names(Tail(tn), "getdata", TailOf(v)) /\ (m.kind = "getdata" => m.blocks = TailOf(v))
    BY <1>1, <1>2, <1>4, <2>1, NamesKept
  <2>3. \A x \in Msg : (x.kind = "blocks" => x.blocks = TailOf(v)) =>
                           Names(Append(th, x), "blocks", TailOf(v))
    BY <1>4, <2>1, NamesKept
  <2>4. CASE toHost' = th
    BY <2>1, <2>2, <2>4
  <2>5. CASE m.kind = "version" /\ toHost' = Append(th, m)
    <3>1. m.kind # "blocks"
      BY <2>5
    <3>2. QED BY <1>4, <2>2, <2>3, <2>5, <3>1
  <2>6. CASE m.kind = "getdata" /\ toHost' = Append(th, Message("blocks", m.blocks))
    <3>1. Message("blocks", m.blocks) \in Msg /\ Message("blocks", m.blocks).blocks = TailOf(v)
      BY <1>4, <2>2, <2>6, MessageIs DEF Kinds
    <3>2. QED BY <2>2, <2>3, <2>6, <3>1
  <2>7. CASE m.kind = "getblocks" /\ AnswerGetblocks(m.blocks[1])
    <3>1. PICK page : page \in Seq(Nat) /\ (toHost' = th \/ toHost' = Append(th, Message("inv", page)))
      <4>1. PICK rest : rest = Following(m.blocks[1])
        OBVIOUS
      <4>2. PICK n \in PageSizes :
               LET pg == SubSeq(rest, 1, IF n < Len(rest) THEN n ELSE Len(rest))
               IN  toHost' = IF pg = << >> THEN toHost ELSE Append(toHost, Message("inv", pg))
        BY <2>7, <4>1 DEF AnswerGetblocks
      <4>3. PICK page : page = PageOf(rest, n)
        OBVIOUS
      <4>4. toHost' = th \/ toHost' = Append(th, Message("inv", page))
        BY <1>2, <4>2, <4>3 DEF PageOf
      <4>5. PICK lo \in Nat : 2 <= lo /\ lo <= Len(chain) + 1 /\ rest = SubSeq(chain, lo, Len(chain))
        BY <4>1, FollowingIs DEF FetchInv
      <4>6. n \in Nat /\ n > 0 /\ TreeInv
        BY FetchAssumption DEF FetchInv
      <4>7. page \in Seq(Nat)
        BY <4>3, <4>5, <4>6, PageIs
      <4>8. QED BY <4>4, <4>7
    <3>2. Message("inv", page) \in Msg /\ Message("inv", page).kind # "blocks"
      BY <3>1, MessageIs DEF Kinds
    <3>3. QED BY <2>1, <2>2, <2>3, <3>1, <3>2
  <2>8. QED BY <1>2, <2>5, <2>6, <2>7 DEF Answer
<1>8. OnTheWay(phase, Tail(tn), toHost', c, v, early, file)
  BY <1>3, <1>6, <1>7 DEF OnTheWay
<1>9. QED BY <1>1, <1>2, <1>5, <1>8 DEF QuietInv

\* What comes first among what is under way.
LEMMA FirstAsked ==
    ASSUME NEW tn, NEW th, Post(th), th # << >>, NEW c, NEW g, Asking(tn, th, c, g)
    PROVE  \/ Head(th) = Noise /\ Asking(tn, Tail(th), c, g)
           \/ Head(th) = Version /\ tn = << >> /\ Silent(Tail(th)) /\ g = 1
           \/ /\ tn = << >> /\ Silent(Tail(th))
              /\ \E n \in g + 1 .. Len(c) : Head(th) = Message("inv", SubSeq(c, g + 1, n))
<1>1. CASE tn = <<Version>> /\ Silent(th) /\ g = 1
  <2>1. Head(th) = Noise /\ Silent(Tail(th))
    BY <1>1, AloneLess
  <2>2. QED BY <1>1, <2>1 DEF Asking
<1>2. CASE tn = << >> /\ Alone(Version, th) /\ g = 1
  <2>1. \/ Head(th) = Version /\ Silent(Tail(th))
        \/ Head(th) = Noise /\ Alone(Version, Tail(th))
    BY <1>2, AloneLess
  <2>2. QED BY <1>2, <2>1 DEF Asking
<1>3. CASE tn = <<Message("getblocks", <<c[g]>>)>> /\ Silent(th)
  <2>1. Head(th) = Noise /\ Silent(Tail(th))
    BY <1>3, AloneLess
  <2>2. QED BY <1>3, <2>1 DEF Asking
<1>4. CASE tn = << >> /\ \E n \in g + 1 .. Len(c) : Alone(Message("inv", SubSeq(c, g + 1, n)), th)
  <2>1. PICK n \in g + 1 .. Len(c) : Alone(Message("inv", SubSeq(c, g + 1, n)), th)
    BY <1>4
  <2>2. \/ Head(th) = Message("inv", SubSeq(c, g + 1, n)) /\ Silent(Tail(th))
        \/ Head(th) = Noise /\ Alone(Message("inv", SubSeq(c, g + 1, n)), Tail(th))
    BY <2>1, AloneLess
  <2>3. QED BY <1>4, <2>1, <2>2 DEF Asking
<1>5. CASE tn = << >> /\ Silent(th) /\ g = Len(c)
  <2>1. Head(th) = Noise /\ Silent(Tail(th))
    BY <1>5, AloneLess
  <2>2. QED BY <1>5, <2>1 DEF Asking
<1>6. QED BY <1>1, <1>2, <1>3, <1>4, <1>5 DEF Asking

LEMMA QuietRead ==
    ASSUME FetchInv, QuietInv, client = "tip", ~moved', ReadVersion \/ ReadPage
    PROVE  QuietInv'
<1>1. /\ phase = "inv" /\ toHost # << >> /\ toHost' = Tail(toHost) /\ ~moved
      /\ UNCHANGED <<tree, best, moved, client, phase, file, early>>
  BY DEF ReadVersion, ReadPage, Read, node, chainVars, script
<1>2. PICK c, v, tn, th, m : c = chain /\ v = inv /\ tn = toNode /\ th = toHost /\ m = Head(toHost)
  OBVIOUS
<1>3. /\ Len(v) + 1 <= Len(c) /\ v = SubSeq(c, 2, Len(v) + 1) /\ Asking(tn, th, c, Len(v) + 1)
  BY <1>1, <1>2 DEF QuietInv, OnTheWay
<1>4. /\ Post(th) /\ c \in Seq(Nat) /\ Len(c) \in Nat /\ v \in Seq(Nat) /\ Len(v) \in Nat /\ c[1] = Genesis
      /\ m = Head(th) /\ th # << >>
  BY <1>1, <1>2, ChainIs DEF FetchInv
<1>5. chain' = c
  BY <1>1, <1>2 DEF chain, BranchOf
<1>6. \/ m = Noise
      \/ m = Version /\ tn = << >> /\ Silent(Tail(th)) /\ Len(v) + 1 = 1
      \/ /\ tn = << >> /\ Silent(Tail(th))
         /\ \E n \in Len(v) + 1 + 1 .. Len(c) : m = Message("inv", SubSeq(c, Len(v) + 1 + 1, n))
  <2>1. PICK k : k = Len(v) + 1
    OBVIOUS
  <2>2. Asking(tn, th, c, k)
    BY <1>3, <2>1
  <2>3. \/ Head(th) = Noise
        \/ Head(th) = Version /\ tn = << >> /\ Silent(Tail(th)) /\ k = 1
        \/ /\ tn = << >> /\ Silent(Tail(th))
           /\ \E n \in k + 1 .. Len(c) : Head(th) = Message("inv", SubSeq(c, k + 1, n))
    BY <1>4, <2>2, FirstAsked, Zenon
  <2>4. m = Head(th)
    BY <1>4
  <2>5. QED BY <2>1, <2>3, <2>4, Zenon
<1>7. PICK g \in 1 .. Len(c) : g = Len(v) + 1
  BY <1>3, <1>4
<1>8. ASSUME NEW n \in g + 1 .. Len(c)
      PROVE  /\ Message("inv", SubSeq(c, g + 1, n)).kind = "inv"
             /\ Message("inv", SubSeq(c, g + 1, n)).blocks = SubSeq(c, g + 1, n)
             /\ v \o SubSeq(c, g + 1, n) = SubSeq(c, 2, n)
             /\ SubSeq(c, 2, n) \in Seq(Nat) /\ Len(SubSeq(c, 2, n)) = n - 1 /\ SubSeq(c, 2, n)[n - 1] = c[n]
  <2>1. /\ SubSeq(c, g + 1, n) \in Seq(Nat)
        /\ SubSeq(c, 2, g) \o SubSeq(c, g + 1, n) = SubSeq(c, 2, n)
        /\ SubSeq(c, 2, n) \in Seq(Nat) /\ Len(SubSeq(c, 2, n)) = n - 1 /\ SubSeq(c, 2, n)[n - 1] = c[n]
    BY <1>4, PageJoins, Zenon
  <2>2. v = SubSeq(c, 2, g)
    BY <1>3, <1>7
  <2>3. "inv" \in Kinds
    BY DEF Kinds
  <2>4. QED BY <2>1, <2>2, <2>3, MessageIs, Zenon
<1>9. CASE ReadVersion
  <2>1. m.kind = "version"
    BY <1>2, <1>9 DEF ReadVersion, Read
  <2>2. m # Noise /\ \A n \in g + 1 .. Len(c) : m # Message("inv", SubSeq(c, g + 1, n))
    BY <1>8, <2>1, NoiseIs
  <2>3. tn = << >> /\ Silent(Tail(th)) /\ Len(v) + 1 = 1
    BY <1>6, <1>7, <2>2
  <2>4. toNode' = <<Message("getblocks", <<c[1]>>)>>
    BY <1>2, <1>4, <1>9, <2>3 DEF ReadVersion, Ask
  <2>5. inv' = v
    BY <1>2, <1>9 DEF ReadVersion, script
  <2>6. Asking(toNode', toHost', c, Len(v) + 1)
    BY <1>1, <1>2, <2>3, <2>4 DEF Asking
  <2>7. OnTheWay(phase, toNode', toHost', c, v, early, file)
    BY <1>1, <1>3, <2>6 DEF OnTheWay
  <2>8. QED BY <1>1, <1>5, <2>5, <2>7 DEF QuietInv
<1>10. CASE ReadPage
  <2>1. /\ m.kind = "inv" /\ m.blocks # << >> /\ inv' = v \o m.blocks
        /\ toNode' = Append(tn, Message("getblocks", <<Last(inv')>>))
    BY <1>2, <1>10 DEF ReadPage, Read, Ask
  <2>2. m # Noise /\ m # Version
    BY <2>1, NoiseIs
  <2>3. PICK n \in g + 1 .. Len(c) : m = Message("inv", SubSeq(c, g + 1, n))
    BY <1>6, <1>7, <2>2
  <2>4. PICK w : w = SubSeq(c, 2, n)
    OBVIOUS
  <2>5. inv' = w /\ w \in Seq(Nat) /\ Len(w) = n - 1 /\ w[n - 1] = c[n]
    BY <1>8, <2>1, <2>3, <2>4
  <2>6. n \in Nat /\ n <= Len(c) /\ Len(w) + 1 = n
    <3>1. n \in Nat /\ n <= Len(c)
      BY <1>4, <1>7, <2>3
    <3>2. n - 1 + 1 = n
      BY <3>1
    <3>3. QED BY <2>5, <3>1, <3>2
  <2>7. tn = << >> /\ Silent(Tail(th))
    BY <1>6, <2>2
  <2>8. toNode' = <<Message("getblocks", <<c[n]>>)>>
    <3>1. Last(w) = c[n]
      BY <2>5 DEF Last
    <3>2. QED BY <2>1, <2>5, <2>7, <3>1
  <2>9. Asking(toNode', toHost', c, Len(w) + 1)
    BY <1>1, <1>2, <2>6, <2>7, <2>8 DEF Asking
  <2>10. OnTheWay(phase, toNode', toHost', c, w, early, file)
    BY <1>1, <2>4, <2>6, <2>9 DEF OnTheWay
  <2>11. QED BY <1>1, <1>5, <2>5, <2>10 DEF QuietInv
<1>11. QED BY <1>9, <1>10

LEMMA QuietStop ==
    ASSUME FetchInv, QuietInv, client = "tip", ~moved', StopAsking
    PROVE  QuietInv'
<1>1. /\ phase = "inv" /\ phase' = "blocks" /\ inv # << >> /\ ~moved
      /\ toHost' = toHost \/ (toHost # << >> /\ toHost' = Tail(toHost) /\ Head(toHost).kind = "inv"
                              /\ Head(toHost).blocks = << >>)
      /\ toNode' = Append(toNode, Message("getdata", TailOf(inv)))
      /\ early' = (toNode # << >> \/ toHost' # << >>)
      /\ UNCHANGED <<tree, best, moved, client, inv, file>>
  BY DEF StopAsking, Read, Ask, node, chainVars
<1>2. PICK c, v, tn, th : c = chain /\ v = inv /\ tn = toNode /\ th = toHost
  OBVIOUS
<1>3. /\ Len(v) + 1 <= Len(c) /\ v = SubSeq(c, 2, Len(v) + 1) /\ Asking(tn, th, c, Len(v) + 1)
  BY <1>1, <1>2 DEF QuietInv, OnTheWay
<1>4. /\ Post(th) /\ Post(tn) /\ c \in Seq(Nat) /\ Len(c) \in Nat /\ v \in Seq(Nat) /\ Len(v) \in Nat
      /\ v # << >> /\ Len(v) + 1 # 1
  BY <1>1, <1>2, ChainIs DEF FetchInv
<1>5. chain' = c
  BY <1>1, <1>2 DEF chain, BranchOf
<1>6. PICK g \in 1 .. Len(c) : g = Len(v) + 1
  BY <1>3, <1>4
<1>7. ASSUME NEW n \in g + 1 .. Len(c)
      PROVE  /\ Message("inv", SubSeq(c, g + 1, n)).kind = "inv"
             /\ Message("inv", SubSeq(c, g + 1, n)).blocks # << >>
  <2>1. SubSeq(c, g + 1, n) \in Seq(Nat) /\ SubSeq(c, g + 1, n) # << >>
    BY <1>4, PageJoins, Zenon
  <2>2. QED BY <2>1, MessageIs DEF Kinds
<1>8. Asking(tn, toHost', c, g)
  <2>1. CASE toHost' = toHost
    BY <1>2, <1>3, <1>6, <2>1
  <2>2. CASE toHost # << >> /\ toHost' = Tail(toHost) /\ Head(toHost).kind = "inv" /\ Head(toHost).blocks = << >>
    <3>1. Head(th) # Version /\ \A n \in g + 1 .. Len(c) : Head(th) # Message("inv", SubSeq(c, g + 1, n))
      BY <1>2, <1>7, <2>2, NoiseIs
    <3>2. Asking(tn, Tail(th), c, g)
      <4>1. Asking(tn, th, c, g) /\ th # << >>
        BY <1>2, <1>3, <1>6, <2>2
      <4>2. QED BY <1>4, <3>1, <4>1, FirstAsked
    <3>3. QED BY <1>2, <2>2, <3>2
  <2>3. QED BY <1>1, <2>1, <2>2
<1>9. Enough(v, c, early')
  <2>1. CASE toNode # << >> \/ toHost' # << >>
    BY <1>1, <1>4, <2>1 DEF Enough
  <2>2. CASE tn = << >> /\ toHost' = << >>
    <3>1. \A m : ~Alone(m, << >>)
      BY DEF Alone
    <3>2. g = Len(c)
      BY <1>8, <2>2, <3>1 DEF Asking
    <3>3. QED BY <1>4, <1>6, <3>2 DEF Enough
  <2>3. QED BY <1>2, <2>1, <2>2
<1>10. Names(tn, "getdata", TailOf(v)) /\ Names(toHost', "blocks", TailOf(v))
  <2>1. ASSUME NEW q, Silent(q) PROVE Names(q, "blocks", TailOf(v))
    BY <2>1, NoiseIs DEF Silent, Names
  <2>2. ASSUME NEW q, NEW m, Alone(m, q), m.kind # "blocks" PROVE Names(q, "blocks", TailOf(v))
    BY <2>2, NoiseIs DEF Alone, Names
  <2>3. Names(<< >>, "getdata", TailOf(v))
    BY DEF Names
  <2>4. Names(<<Version>>, "getdata", TailOf(v))
    BY NoiseIs DEF Names
  <2>5. ASSUME NEW s \in Seq(Nat) PROVE Names(<<Message("getblocks", s)>>, "getdata", TailOf(v))
    <3>1. Message("getblocks", s).kind = "getblocks"
      BY MessageIs DEF Kinds
    <3>2. QED BY <3>1 DEF Names
  <2>6. <<c[g]>> \in Seq(Nat)
    BY <1>4, <1>6
  <2>7. CASE tn = << >> /\ \E n \in g + 1 .. Len(c) : Alone(Message("inv", SubSeq(c, g + 1, n)), toHost')
    <3>1. PICK n \in g + 1 .. Len(c) : Alone(Message("inv", SubSeq(c, g + 1, n)), toHost')
      BY <2>7
    <3>2. Message("inv", SubSeq(c, g + 1, n)).kind # "blocks"
      BY <1>7
    <3>3. QED BY <2>2, <2>3, <2>7, <3>1, <3>2
  <2>8. QED BY <1>4, <1>6, <1>8, <2>1, <2>3, <2>4, <2>5, <2>6, <2>7 DEF Asking
<1>11. Names(toNode', "getdata", TailOf(v))
  <2>1. TailOf(v) \in Seq(Nat)
    BY <1>4, TailOfIs
  <2>2. Message("getdata", TailOf(v)) \in Msg /\ Message("getdata", TailOf(v)).blocks = TailOf(v)
    BY <2>1, MessageIs DEF Kinds
  <2>3. QED BY <1>1, <1>2, <1>4, <1>10, <2>2, NamesKept
<1>12. OnTheWay("blocks", toNode', toHost', c, v, early', file)
  BY <1>3, <1>9, <1>10, <1>11 DEF OnTheWay
<1>13. QED BY <1>1, <1>2, <1>5, <1>12 DEF QuietInv

LEMMA QuietBlocks ==
    ASSUME FetchInv, QuietInv, client = "tip", ~moved', Ignore \/ ReadBlocks
    PROVE  QuietInv'
<1>1. /\ phase = "blocks" /\ toHost # << >> /\ toHost' = Tail(toHost) /\ ~moved
      /\ UNCHANGED <<tree, best, moved, client, inv, early, toNode>>
  BY DEF Ignore, ReadBlocks, Read, node, chainVars, script
<1>2. PICK c, v, tn, th : c = chain /\ v = inv /\ tn = toNode /\ th = toHost
  OBVIOUS
<1>3. /\ Len(v) + 1 <= Len(c) /\ v = SubSeq(c, 2, Len(v) + 1) /\ Enough(v, c, early)
      /\ Names(tn, "getdata", TailOf(v)) /\ Names(th, "blocks", TailOf(v))
  BY <1>1, <1>2 DEF QuietInv, OnTheWay
<1>4. chain' = c
  BY <1>1, <1>2 DEF chain, BranchOf
<1>5. Names(Tail(th), "blocks", TailOf(v)) /\ (Head(th).kind = "blocks" => Head(th).blocks = TailOf(v))
  <2>1. Post(th) /\ th # << >>
    BY <1>1, <1>2 DEF FetchInv
  <2>2. QED BY <1>3, <2>1, NamesKept
<1>6. CASE Ignore
  <2>1. phase' = "blocks" /\ file' = file
    BY <1>1, <1>6 DEF Ignore, script
  <2>2. OnTheWay("blocks", tn, Tail(th), c, v, early, file)
    BY <1>3, <1>5 DEF OnTheWay
  <2>3. QED BY <1>1, <1>2, <1>4, <2>1, <2>2 DEF QuietInv
<1>7. CASE ReadBlocks
  <2>1. Head(th).kind = "blocks"
    BY <1>2, <1>7 DEF ReadBlocks, Read
  <2>2. \/ phase' = "done" /\ file' = [blocks |-> TailOf(v), height |-> Len(v)]
        \/ phase' = "failed"
    BY <1>2, <1>5, <1>7, <2>1 DEF ReadBlocks
  <2>3. OnTheWay(phase', tn, Tail(th), c, v, early, file')
    BY <1>3, <2>2 DEF OnTheWay
  <2>4. QED BY <1>1, <1>2, <1>4, <2>3 DEF QuietInv
<1>8. QED BY <1>6, <1>7

LEMMA QuietTransact ==
    ASSUME FetchInv, QuietInv, client = "tip", ~moved', Transact
    PROVE  QuietInv'
<1>1. toHost' = Append(toHost, Noise)
      /\ UNCHANGED <<tree, best, moved, client, phase, inv, file, early, toNode>>
  BY DEF Transact, node, chainVars, script, Noise
<1>2. PICK c, v, tn, th : c = chain /\ v = inv /\ tn = toNode /\ th = toHost
  OBVIOUS
<1>3. OnTheWay(phase, tn, th, c, v, early, file)
  BY <1>1, <1>2 DEF QuietInv
<1>4. Post(th) /\ th \in Seq(Msg) /\ c \in Seq(Nat) /\ Len(c) \in Nat /\ v \in Seq(Nat) /\ Len(v) \in Nat
  BY <1>2, ChainIs DEF FetchInv, Post
<1>5. chain' = c
  BY <1>1, <1>2 DEF chain, BranchOf
<1>6. Asking(tn, th, c, Len(v) + 1) => Asking(tn, Append(th, Noise), c, Len(v) + 1)
  <2>1. Silent(th) => Silent(Append(th, Noise))
    BY <1>4, AloneMore, NoiseIs
  <2>2. \A m \in Msg : Alone(m, th) => Alone(m, Append(th, Noise))
    BY <1>4, AloneMore
  <2>3. \A n \in Len(v) + 1 + 1 .. Len(c) :
           Len(v) + 1 <= Len(c) => Message("inv", SubSeq(c, Len(v) + 1 + 1, n)) \in Msg
    <3> SUFFICES ASSUME NEW n \in Len(v) + 1 + 1 .. Len(c), Len(v) + 1 <= Len(c)
                 PROVE  Message("inv", SubSeq(c, Len(v) + 1 + 1, n)) \in Msg
      OBVIOUS
    <3>1. PICK g \in 1 .. Len(c) : g = Len(v) + 1 /\ n \in g + 1 .. Len(c)
      BY <1>4
    <3>2. SubSeq(c, g + 1, n) \in Seq(Nat)
      BY <1>4, <3>1, PageJoins, Zenon
    <3>3. Message("inv", SubSeq(c, g + 1, n)) \in Msg
      BY <3>2, MessageIs DEF Kinds
    <3>4. QED BY <3>1, <3>3
  <2>4. Len(v) + 1 <= Len(c)
    BY <1>3 DEF OnTheWay
  <2>5. QED BY <2>1, <2>2, <2>3, <2>4, NoiseIs DEF Asking
<1>7. Names(th, "blocks", TailOf(v)) => Names(Append(th, Noise), "blocks", TailOf(v))
  BY <1>4, NamesKept, NoiseIs
<1>8. OnTheWay(phase, tn, Append(th, Noise), c, v, early, file)
  BY <1>3, <1>6, <1>7 DEF OnTheWay
<1>9. QED BY <1>1, <1>2, <1>5, <1>8 DEF QuietInv

LEMMA QuietStep == FetchInv /\ QuietInv /\ [FetchNext]_fetchVars => QuietInv'
<1> SUFFICES ASSUME FetchInv, QuietInv, [FetchNext]_fetchVars, client' = "tip", ~moved'
             PROVE  QuietInv'
  BY DEF QuietInv
<1>1. CASE \E b \in DOMAIN tree : Find(b)
  <2>1. client = "tip"
    BY <1>1 DEF Find, script
  <2>2. QED BY <1>1, <2>1, QuietFind
<1>2. CASE Answer \/ Transact
  <2>1. client = "tip"
    BY <1>2 DEF Answer, Transact, script
  <2>2. QED BY <1>2, <2>1, QuietAnswer, QuietTransact
<1>3. CASE ReadVersion \/ ReadPage \/ StopAsking \/ Ignore \/ ReadBlocks
  <2>1. client = "tip"
    BY <1>3 DEF ReadVersion, ReadPage, StopAsking, Ignore, ReadBlocks, script
  <2>2. QED BY <1>3, <2>1, QuietRead, QuietStop, QuietBlocks
<1>4. CASE ReadInventory
  BY <1>4 DEF ReadInventory
<1>5. CASE Fail
  <2>1. /\ phase' = "failed" /\ phase \in {"inv", "blocks"} /\ client = "tip" /\ ~moved
        /\ UNCHANGED <<tree, best, toNode, toHost, inv, file, early, client, moved>>
    BY <1>5 DEF Fail, node, chainVars
  <2>2. Len(inv) + 1 <= Len(chain) /\ inv = SubSeq(chain, 2, Len(inv) + 1)
    BY <2>1 DEF QuietInv, OnTheWay
  <2>3. OnTheWay("failed", toNode, toHost, chain, inv, early, file)
    BY <2>2 DEF OnTheWay
  <2>4. chain' = chain
    BY <2>1 DEF chain, BranchOf
  <2>5. QED BY <2>1, <2>3, <2>4 DEF QuietInv
<1>6. CASE UNCHANGED fetchVars
  <2>1. UNCHANGED <<tree, best, toNode, toHost, client, moved, phase, inv, file, early>>
    BY <1>6 DEF fetchVars, node, chainVars, script
  <2>2. chain' = chain
    BY <2>1 DEF chain, BranchOf
  <2>3. QED BY <2>1, <2>2 DEF QuietInv
<1>7. QED BY <1>1, <1>2, <1>3, <1>4, <1>5, <1>6 DEF FetchNext

\* While the tip of the node stands still the height written is that of the tip
\* written, with the blocks below it, whatever the pages and the noise among
\* them (fetch_tip_context.py:80-96, 135).
THEOREM QuietFetchesAreTrue == FetchSpec => []QuietFetchIsTrue
<1>1. FetchInv /\ QuietInv => QuietFetchIsTrue
  <2> SUFFICES ASSUME FetchInv, QuietInv, phase = "done", client = "tip", ~moved
               PROVE  /\ file.height \in 1..(Len(chain) - 1)
                      /\ file.blocks = TailOf(SubSeq(chain, 2, file.height + 1))
                      /\ early \/ file.height = Len(chain) - 1
    BY DEF QuietFetchIsTrue
  <2>1. /\ Len(inv) + 1 <= Len(chain) /\ inv = SubSeq(chain, 2, Len(inv) + 1) /\ Enough(inv, chain, early)
        /\ file = [blocks |-> TailOf(inv), height |-> Len(inv)]
    BY DEF QuietInv, OnTheWay
  <2>2. inv \in Seq(Nat) /\ TreeInv
    BY DEF FetchInv
  <2>3. Len(inv) \in Nat /\ Len(chain) \in Nat /\ (inv # << >> => Len(inv) # 0)
    BY <2>2, ChainIs
  <2>4. file.blocks = TailOf(inv) /\ file.height = Len(inv)
    BY <2>1
  <2>5. file.height \in 1..(Len(chain) - 1)
    BY <2>1, <2>3, <2>4 DEF Enough
  <2>6. file.blocks = TailOf(SubSeq(chain, 2, file.height + 1))
    BY <2>1, <2>4
  <2>7. Len(inv) + 1 = Len(chain) => Len(inv) = Len(chain) - 1
    BY <2>3
  <2>8. early \/ file.height = Len(chain) - 1
    BY <2>1, <2>4, <2>7 DEF Enough
  <2>9. QED BY <2>5, <2>6, <2>8
<1>2. FetchSpec => [](FetchInv /\ QuietInv)
  BY FetchInvInit, FetchInvStep, QuietInit, QuietStep, PTL DEF FetchSpec
<1>3. QED BY <1>1, <1>2, PTL
===============================================================================
