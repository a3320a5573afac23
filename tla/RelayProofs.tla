---------------------------- MODULE RelayProofs ----------------------------
(***************************************************************************)
(* Proofs about the two relays of blocks by radio, for any blocks, any     *)
(* numbers of fragments, losses, damage and restarts: what the output file *)
(* of radio_relay.py may hold; what the block files and the two network    *)
(* states of lora_relay.py say of a session, and where damage can get to.  *)
(* Both rest on what an undamaged air leaves in the reassembler.           *)
(***************************************************************************)
EXTENDS RadioRelay, LoraRelay, SequenceTheorems, FiniteSetTheorems, TLAPS

\* A fragment that arrives as it was sent.
CleanFragment(p) ==
    /\ FragCount[p.id] \in Nat \ {0} /\ p.count = FragCount[p.id]
    /\ p.index \in 0 .. FragCount[p.id] - 1
    /\ p.payload = Piece(p.id, p.index)

\* Every fragment collected so far is one that was sent.
CleanSlots ==
    \A b \in DOMAIN partial :
        /\ partial[b].count = FragCount[b]
        /\ \A i \in DOMAIN partial[b].parts :
              i \in 0 .. FragCount[b] - 1 /\ partial[b].parts[i] = Piece(b, i)

\* What feed() may do to the slots.
Feed(p) == FeedIgnored(p) \/ FeedStored(p) \/ FeedRejected(p) \/ FeedDelivered(p)

\* What the reassembler holds of a block after an undamaged fragment of it.
LEMMA CleanParts ==
    ASSUME NEW p, CleanFragment(p), CleanSlots
    PROVE  \A i \in DOMAIN PartsWith(p) :
              i \in 0 .. FragCount[p.id] - 1 /\ PartsWith(p)[i] = Piece(p.id, i)
<1> DEFINE parts == SlotOf(p).parts
<1>1. \A j \in DOMAIN parts : j \in 0 .. FragCount[p.id] - 1 /\ parts[j] = Piece(p.id, j)
  <2>1. CASE p.id \in DOMAIN partial /\ partial[p.id].count = p.count
    BY <2>1 DEF SlotOf, CleanSlots
  <2>2. CASE ~(p.id \in DOMAIN partial /\ partial[p.id].count = p.count)
    BY <2>2 DEF SlotOf
  <2>3. QED BY <2>1, <2>2
<1>2. PartsWith(p) = [j \in DOMAIN parts \cup {p.index} |->
                         IF j = p.index THEN p.payload ELSE parts[j]]
  BY DEF PartsWith
<1> HIDE DEF parts
<1>3. p.index \in 0 .. FragCount[p.id] - 1 /\ p.payload = Piece(p.id, p.index)
  BY DEF CleanFragment
<1>4. QED BY <1>1, <1>2, <1>3

\* An undamaged fragment leaves the slots clean.
LEMMA CleanSlotsStep ==
    ASSUME NEW p, CleanFragment(p), CleanSlots, Feed(p)
    PROVE  CleanSlots'
<1>1. CASE partial' = partial
  BY <1>1 DEF CleanSlots
<1>2. CASE partial' = Forget(p.id)
  BY <1>2 DEF CleanSlots, Forget
<1>3. CASE partial' = Keep(p)
  <2> DEFINE slot == [count |-> p.count, parts |-> PartsWith(p)]
  <2>1. slot.count = FragCount[p.id] /\ slot.parts = PartsWith(p)
    BY DEF CleanFragment
  <2>2. partial' = [b \in DOMAIN partial \cup {p.id} |-> IF b = p.id THEN slot ELSE partial[b]]
    BY <1>3 DEF Keep
  <2> HIDE DEF slot
  <2>3. ASSUME NEW b \in DOMAIN partial'
        PROVE  /\ partial'[b].count = FragCount[b]
               /\ \A i \in DOMAIN partial'[b].parts :
                     i \in 0 .. FragCount[b] - 1 /\ partial'[b].parts[i] = Piece(b, i)
    <3>1. CASE b = p.id
      <4>1. partial'[b] = slot
        BY <2>2, <3>1
      <4>2. QED BY <4>1, <3>1, <2>1, CleanParts
    <3>2. CASE b # p.id
      <4>1. b \in DOMAIN partial /\ partial'[b] = partial[b]
        BY <2>2, <3>2
      <4>2. QED BY <4>1 DEF CleanSlots
    <3>3. QED BY <3>1, <3>2
  <2>4. QED BY <2>3 DEF CleanSlots
<1>4. partial' = partial \/ partial' = Keep(p) \/ partial' = Forget(p.id)
  BY DEF Feed, FeedIgnored, FeedStored, FeedRejected, FeedDelivered
<1>5. QED BY <1>1, <1>2, <1>3, <1>4

\* A block completed by undamaged fragments alone is the block that was sent: as
\* many distinct indices as there are fragments are all of them.
LEMMA CleanWhenComplete ==
    ASSUME NEW p, CleanFragment(p), CleanSlots, Completes(p)
    PROVE  /\ HashOf(PartsWith(p)) = p.id
           /\ Whole(p.id, PartsWith(p))
<1> DEFINE raw == PartsWith(p)
           m == FragCount[p.id]
<1>1. m \in Nat \ {0} /\ p.count = m
  BY DEF CleanFragment
<1>2. \A i \in DOMAIN raw : i \in 0 .. m - 1 /\ raw[i] = Piece(p.id, i)
  BY CleanParts
<1>3. Cardinality(DOMAIN raw) = m
  BY <1>1 DEF Completes
<1> HIDE DEF raw, m
<1>4. DOMAIN raw = 0 .. m - 1
  <2>1. IsFiniteSet(0 .. m - 1) /\ Cardinality(0 .. m - 1) = m
    BY <1>1, FS_Interval
  <2>2. DOMAIN raw \in SUBSET (0 .. m - 1)
    BY <1>2
  <2>3. QED BY <1>3, <2>1, <2>2, FS_Subset
<1>5. raw[0] = Piece(p.id, 0)
  BY <1>1, <1>2, <1>4
<1>6. HashOf(raw) = p.id
  BY <1>5 DEF HashOf, Piece
<1>7. Whole(p.id, raw)
  BY <1>2, <1>4 DEF Whole, m
<1>8. QED BY <1>6, <1>7 DEF raw

-------------------------------------------------------------------------------
\* radio_relay.py.

\* The file is a sequence of lines, and the receiver knows the hash of each: it
\* has read back, or written itself, every line there is.
FileInv ==
    /\ \E Line : out \in Seq(Line)
    /\ \A j \in DOMAIN out : HashOf(out[j]) \in known
    /\ WrittenOnce

\* The fragment on the air is one of a block of the sender's file.
RadioOnAir ==
    /\ blockAt \in DOMAIN Order
    /\ index \in 0 .. FragCount[Order[blockAt]] - 1

CleanInv ==
    /\ RadioOnAir
    /\ damages \in Nat
    /\ damages = 0 => CleanSlots
    /\ CleanAirCleanFile

LEMMA OrderedBlocks ==
    /\ Len(Order) \in Nat \ {0} /\ DOMAIN Order = 1 .. Len(Order)
    /\ \A a \in DOMAIN Order : Order[a] \in Block /\ FragCount[Order[a]] \in Nat \ {0}
<1>1. Len(Order) \in Nat \ {0} /\ DOMAIN Order = 1 .. Len(Order)
  BY OrderAssumption
<1>2. \A a \in DOMAIN Order : Order[a] \in Block
  BY OrderAssumption
<1>3. QED BY <1>1, <1>2, FragmentAssumption

\* What a fragment does to the file: nothing, or one more line, of a block that
\* was not known.
LEMMA RecvFile ==
    ASSUME NEW p, Recv(p), \E Line : out \in Seq(Line)
    PROVE  \/ UNCHANGED <<out, known>>
           \/ /\ Completes(p)
              /\ HashOf(PartsWith(p)) \notin known
              /\ known' = known \cup {HashOf(PartsWith(p))}
              /\ \E Line : out \in Seq(Line) /\ out' \in Seq(Line)
              /\ DOMAIN out' = 1 .. Len(out) + 1 /\ DOMAIN out = 1 .. Len(out)
              /\ Len(out) \in Nat
              /\ \A j \in DOMAIN out : out'[j] = out[j]
              /\ out'[Len(out) + 1] = PartsWith(p)
<1> DEFINE raw == PartsWith(p)
<1>1. CASE UNCHANGED <<out, known>>
  BY <1>1
<1>2. CASE ~UNCHANGED <<out, known>>
  <2>1. /\ Completes(p) /\ HashOf(raw) \notin known
        /\ out' = Append(out, raw) /\ known' = known \cup {HashOf(raw)}
    BY <1>2 DEF Recv, FeedDelivered, Appended
  <2> HIDE DEF raw
  <2>2. PICK Line : out \in Seq(Line)
    OBVIOUS
  <2> DEFINE Longer == Line \cup {raw}
  <2>3. out \in Seq(Longer) /\ raw \in Longer
    <3>1. Line \subseteq Longer /\ raw \in Longer
      OBVIOUS
    <3> HIDE DEF Longer
    <3>2. QED BY <2>2, <3>1, SeqDef
  <2> HIDE DEF Longer
  <2>4. out' \in Seq(Longer) /\ Len(out') = Len(out) + 1
    BY <2>1, <2>3
  <2>5. DOMAIN out = 1 .. Len(out) /\ Len(out) \in Nat
    BY <2>3
  <2>6. DOMAIN out' = 1 .. Len(out) + 1
    BY <2>4
  <2>7. /\ \A j \in DOMAIN out : out'[j] = out[j]
        /\ out'[Len(out) + 1] = raw
    BY <2>1, <2>3, <2>5
  <2>8. QED BY <2>1, <2>3, <2>4, <2>5, <2>6, <2>7 DEF raw
<1>3. QED BY <1>1, <1>2

LEMMA FileInit == RadioInit => FileInv
<1> SUFFICES ASSUME RadioInit PROVE FileInv
  OBVIOUS
<1>1. out \in Seq(Nat) /\ DOMAIN out = {}
  BY DEF RadioInit
<1>2. QED BY <1>1 DEF FileInv, WrittenOnce

LEMMA FileStep == FileInv /\ [RadioNext]_radioVars => FileInv'
<1> SUFFICES ASSUME FileInv, [RadioNext]_radioVars PROVE FileInv'
  OBVIOUS
<1>1. ASSUME NEW p, Recv(p) PROVE FileInv'
  <2>1. CASE UNCHANGED <<out, known>>
    BY <2>1 DEF FileInv, WrittenOnce
  <2>2. CASE ~UNCHANGED <<out, known>>
    <3> DEFINE last == Len(out) + 1
               raw == PartsWith(p)
    <3>1. /\ HashOf(raw) \notin known /\ known' = known \cup {HashOf(raw)}
          /\ \E Line : out' \in Seq(Line)
          /\ DOMAIN out' = 1 .. last /\ DOMAIN out = 1 .. Len(out) /\ Len(out) \in Nat
          /\ \A j \in DOMAIN out : out'[j] = out[j]
          /\ out'[last] = raw
      BY <1>1, <2>2, RecvFile DEF FileInv
    <3>2. \A j \in DOMAIN out' : j \in DOMAIN out \/ j = last
      BY <3>1
    <3> HIDE DEF last, raw
    <3>3. \A j \in DOMAIN out : HashOf(out'[j]) \in known /\ HashOf(out'[j]) = HashOf(out[j])
      BY <3>1 DEF FileInv
    <3>4. HashOf(out'[last]) = HashOf(raw)
      BY <3>1
    <3>5. \A j \in DOMAIN out' : HashOf(out'[j]) \in known'
      BY <3>1, <3>2, <3>3, <3>4
    <3>6. ASSUME NEW i \in DOMAIN out', NEW j \in DOMAIN out',
                 HashOf(out'[i]) = HashOf(out'[j])
          PROVE  i = j
      BY <3>1, <3>2, <3>3, <3>4, <3>6 DEF FileInv, WrittenOnce
    <3>7. (\A j \in DOMAIN out : HashOf(out[j]) \in known)'
      BY <3>5 DEF HashOf
    <3>8. WrittenOnce'
      BY <3>6 DEF WrittenOnce, HashOf
    <3>9. QED BY <3>1, <3>7, <3>8 DEF FileInv
  <2>3. QED BY <2>1, <2>2
<1>2. CASE Hears
  BY <1>1, <1>2 DEF Hears
<1>3. CASE HearsDamaged
  BY <1>1, <1>3 DEF HearsDamaged
<1>4. CASE Misses \/ UNCHANGED radioVars
  BY <1>4 DEF Misses, radioVars, FileInv, WrittenOnce, HashOf
<1>5. CASE Restart
  <2>1. out' = out /\ known' = {HashOf(out[j]) : j \in DOMAIN out}
    BY <1>5 DEF Restart
  <2>2. QED BY <2>1 DEF FileInv, WrittenOnce, HashOf
<1>6. QED BY <1>2, <1>3, <1>4, <1>5 DEF RadioNext

\* radio_relay.py:118-128: the sender repeats for ever, the reassembler forgets
\* with every restart, and still no block is in the file twice.
THEOREM NeverTwice == RadioSpec => []WrittenOnce
<1>1. FileInv => WrittenOnce
  BY DEF FileInv
<1>2. QED BY <1>1, FileInit, FileStep, PTL DEF RadioSpec

-------------------------------------------------------------------------------
LEMMA SendOnOnAir == RadioOnAir /\ SendOn => RadioOnAir'
<1> SUFFICES ASSUME RadioOnAir, SendOn PROVE RadioOnAir'
  OBVIOUS
<1> DEFINE n == FragCount[Order[blockAt]]
           next == (blockAt % Len(Order)) + 1
<1>1. n \in Nat \ {0} /\ index \in 0 .. n - 1 /\ blockAt \in 1 .. Len(Order)
  BY OrderedBlocks DEF RadioOnAir
<1>2. CASE index + 1 < n
  BY <1>1, <1>2 DEF SendOn, RadioOnAir
<1>3. CASE ~(index + 1 < n)
  <2>1. next \in 1 .. Len(Order)
    BY <1>1, OrderedBlocks
  <2>2. next \in DOMAIN Order /\ FragCount[Order[next]] \in Nat \ {0}
    BY <2>1, OrderedBlocks
  <2>3. index' = 0 /\ blockAt' = next
    BY <1>3 DEF SendOn
  <2> HIDE DEF next
  <2>4. QED BY <2>2, <2>3 DEF RadioOnAir
<1>4. QED BY <1>2, <1>3

LEMMA OnTheAirIsClean ==
    ASSUME RadioOnAir
    PROVE  \E p : p = OnTheAir /\ CleanFragment(p)
<1>1. /\ OnTheAir.id = Order[blockAt] /\ OnTheAir.index = index
      /\ OnTheAir.count = FragCount[OnTheAir.id] /\ OnTheAir.payload = Piece(OnTheAir.id, OnTheAir.index)
  BY DEF OnTheAir, Fragment
<1>2. FragCount[OnTheAir.id] \in Nat \ {0} /\ index \in 0 .. FragCount[OnTheAir.id] - 1
  BY <1>1, OrderedBlocks DEF RadioOnAir
<1>3. QED BY <1>1, <1>2 DEF CleanFragment

\* A file to which a clean block is added, or nothing, stays clean.
LEMMA RecvKeepsClean ==
    ASSUME NEW p, Recv(p), CleanAirCleanFile, \E Line : out \in Seq(Line),
           damages = 0, damages' = 0,
           Completes(p) => Whole(HashOf(PartsWith(p)), PartsWith(p))
    PROVE  CleanAirCleanFile'
<1>1. \A j \in DOMAIN out : Whole(HashOf(out[j]), out[j])
  BY DEF CleanAirCleanFile, Whole, Piece
<1>2. \A j \in DOMAIN out' : Whole(HashOf(out'[j]), out'[j])
  <2>1. CASE UNCHANGED <<out, known>>
    BY <1>1, <2>1
  <2>2. CASE ~UNCHANGED <<out, known>>
    <3> DEFINE last == Len(out) + 1
               raw == PartsWith(p)
    <3>1. /\ DOMAIN out' = 1 .. last /\ DOMAIN out = 1 .. Len(out) /\ Len(out) \in Nat
          /\ \A j \in DOMAIN out : out'[j] = out[j]
          /\ out'[last] = raw
          /\ Whole(HashOf(raw), raw)
      BY <2>2, RecvFile
    <3>2. \A j \in DOMAIN out' : j \in DOMAIN out \/ j = last
      BY <3>1
    <3> HIDE DEF last, raw
    <3>3. QED BY <1>1, <3>1, <3>2
  <2>3. QED BY <2>1, <2>2
<1>3. QED BY <1>2 DEF CleanAirCleanFile, Whole, Piece, HashOf

LEMMA CleanInit == RadioInit => CleanInv
<1> SUFFICES ASSUME RadioInit PROVE CleanInv
  OBVIOUS
<1>1. RadioOnAir
  BY OrderedBlocks DEF RadioInit, RadioOnAir
<1>2. CleanSlots /\ CleanAirCleanFile /\ damages = 0
  BY DEF RadioInit, InitReassembler, CleanSlots, CleanAirCleanFile
<1>3. QED BY <1>1, <1>2 DEF CleanInv

LEMMA CleanStep == FileInv /\ CleanInv /\ [RadioNext]_radioVars => CleanInv'
<1> SUFFICES ASSUME FileInv, CleanInv, [RadioNext]_radioVars PROVE CleanInv'
  OBVIOUS
<1>1. RadioOnAir /\ damages \in Nat /\ \E Line : out \in Seq(Line)
  BY DEF CleanInv, FileInv
<1>2. CASE Hears
  <2>1. PICK p : p = OnTheAir /\ CleanFragment(p)
    BY <1>1, OnTheAirIsClean
  <2>2. SendOn /\ Recv(p) /\ damages' = damages
    BY <1>2, <2>1 DEF Hears
  <2>3. RadioOnAir'
    BY <1>1, <2>2, SendOnOnAir
  <2>4. CASE damages # 0
    BY <2>2, <2>3, <2>4, <1>1 DEF CleanInv, CleanAirCleanFile
  <2>5. CASE damages = 0
    <3>1. CleanSlots /\ CleanAirCleanFile
      BY <2>5 DEF CleanInv
    <3>2. Feed(p)
      BY <2>2 DEF Recv, Feed
    <3>3. CleanSlots'
      BY <2>1, <3>1, <3>2, CleanSlotsStep
    <3>4. Completes(p) => Whole(HashOf(PartsWith(p)), PartsWith(p))
      BY <2>1, <3>1, CleanWhenComplete
    <3>5. CleanAirCleanFile'
      BY <1>1, <2>2, <2>5, <3>1, <3>4, RecvKeepsClean
    <3>6. QED BY <1>1, <2>2, <2>3, <3>3, <3>5 DEF CleanInv
  <2>6. QED BY <2>4, <2>5
<1>3. CASE HearsDamaged
  <2>1. damages' = damages + 1 /\ SendOn
    BY <1>3 DEF HearsDamaged
  <2>2. RadioOnAir' /\ damages' \in Nat /\ damages' # 0
    BY <2>1, <1>1, SendOnOnAir
  <2>3. QED BY <2>2 DEF CleanInv, CleanAirCleanFile
<1>4. CASE Misses
  <2>1. SendOn /\ UNCHANGED <<partial, out, damages>>
    BY <1>4 DEF Misses
  <2>2. QED BY <2>1, <1>1, SendOnOnAir DEF CleanInv, CleanSlots, CleanAirCleanFile, HashOf
<1>5. CASE Restart
  <2>1. UNCHANGED <<blockAt, index, out, damages>> /\ partial' = << >>
    BY <1>5 DEF Restart
  <2>2. CleanSlots'
    BY <2>1 DEF CleanSlots
  <2>3. QED BY <2>1, <2>2 DEF CleanInv, RadioOnAir, CleanAirCleanFile, HashOf
<1>6. CASE UNCHANGED radioVars
  BY <1>6 DEF radioVars, CleanInv, RadioOnAir, CleanSlots, CleanAirCleanFile, HashOf
<1>7. QED BY <1>2, <1>3, <1>4, <1>5, <1>6 DEF RadioNext

\* ctp/radio.py:100-124: with losses, repetitions and restarts but no damage, a
\* line of the file is a whole block as the sender cut it.
THEOREM CleanFiles == RadioSpec => []CleanAirCleanFile
<1>1. CleanInv => CleanAirCleanFile
  BY DEF CleanInv
<1>2. QED BY <1>1, FileInit, FileStep, CleanInit, CleanStep, PTL DEF RadioSpec

-------------------------------------------------------------------------------
\* lora_relay.py.

Phases == {"off", "starting", "opening", "listening", "ending"}

-------------------------------------------------------------------------------
\* While the network stands still, what the session has reached and what its
\* first snapshot said are what the host is.
Remembered ==
    quiet =>
        /\ phase \in {"starting", "ending"} => memory.reached = net.route
        /\ phase \in {"opening", "listening", "ending"} =>
              memory.start = (~net.route /\ ~net.dns)

NetworkInv ==
    /\ net \in [route : BOOLEAN, dns : BOOLEAN]
    /\ memory \in [start : BOOLEAN, reached : BOOLEAN]
    /\ phase \in Phases
    /\ Remembered
    /\ QuietVerdictIsTrue

LEMMA NetworkInit == Init => NetworkInv
BY DEF Init, NetworkInv, Remembered, QuietVerdictIsTrue, Phases

LEMMA NetworkStep == NetworkInv /\ [Next]_vars => NetworkInv'
<1> SUFFICES ASSUME NetworkInv, [Next]_vars PROVE NetworkInv'
  OBVIOUS
<1> USE DEF NetworkInv, Remembered, QuietVerdictIsTrue, Phases, host, receiver, sender
<1>1. ASSUME NEW b \in Block, Send(b) PROVE NetworkInv'
  BY <1>1 DEF Send
<1>2. CASE Reconnect
  BY <1>2 DEF Reconnect
<1>3. CASE Begin
  BY <1>3 DEF Begin
<1>4. CASE WriteStart
  <2>1. memory'.start = (~net.route /\ ~net.dns) \/ ~quiet
    BY <1>4 DEF WriteStart, State, Isolated
  <2>2. memory' \in [start : BOOLEAN, reached : BOOLEAN]
    BY <1>4 DEF WriteStart, State, Isolated
  <2>3. QED BY <1>4, <2>1, <2>2 DEF WriteStart
<1>5. CASE Listen
  BY <1>5 DEF Listen
<1>6. ASSUME NEW p, Hear(p) PROVE NetworkInv'
  BY <1>6 DEF Hear
<1>7. CASE Heard
  BY <1>6, <1>7 DEF Heard
<1>8. CASE HeardDamaged
  BY <1>6, <1>8 DEF HeardDamaged
<1>9. CASE Lost
  BY <1>9 DEF Lost
<1>10. CASE Stop
  BY <1>10 DEF Stop
<1>11. CASE WriteEnd
  <2>1. quiet => memory.start = (~net.route /\ ~net.dns) /\ memory.reached = net.route
    BY <1>11 DEF WriteEnd
  <2>2. State(memory.reached).isolated = (~memory.reached /\ ~net.dns)
    BY DEF State, Isolated
  <2>3. QuietVerdictIsTrue'
    BY <1>11, <2>1, <2>2 DEF WriteEnd, NetworkVerdict
  <2>4. QED BY <1>11, <2>3 DEF WriteEnd
<1>12. CASE Fail
  BY <1>12 DEF Fail
<1>13. CASE UNCHANGED vars
  BY <1>13 DEF vars
<1>14. QED
  BY <1>1, <1>2, <1>3, <1>4, <1>5, <1>7, <1>8, <1>9, <1>10, <1>11, <1>12, <1>13 DEF Next

\* lora_relay.py:388-401: the verdict printed at the end of a session is true of
\* a host whose network did not change during it.
THEOREM VerdictOnTheNetwork == Spec => []QuietVerdictIsTrue
<1>1. NetworkInv => QuietVerdictIsTrue
  BY DEF NetworkInv
<1>2. QED BY <1>1, NetworkInit, NetworkStep, PTL DEF Spec

-------------------------------------------------------------------------------
\* Once a session has written its first state, the last one is of an earlier
\* session until it ends, so a block written meanwhile is bounded by none.
IsDirectory ==
    \E start, end, blocks : dir = [start |-> start, end |-> end, blocks |-> blocks]

Filed ==
    /\ IsDirectory
    /\ session \in Nat /\ dir.start.by \in Nat /\ dir.end.by \in Nat
    /\ phase \in Phases
    /\ dir.start.by <= session
    /\ phase = "starting" => dir.start.by < session
    /\ phase \in {"opening", "listening", "ending"} =>
          dir.start.by = session /\ dir.end.by < session

FilesInv == Filed /\ StatesBoundTheBlocks

LEMMA FilesInit == Init => FilesInv
<1> SUFFICES ASSUME Init PROVE FilesInv
  OBVIOUS
<1>1. IsDirectory
  BY DEF Init, IsDirectory
<1>2. QED BY <1>1 DEF Init, FilesInv, Filed, StatesBoundTheBlocks, NoState, Phases

\* What a fragment does to the directory: nothing, or one block file.
LEMMA ReceiveFiles ==
    ASSUME NEW p, Receive(p), Filed
    PROVE  /\ dir'.start = dir.start /\ dir'.end = dir.end
           /\ IsDirectory'
<1>1. CASE UNCHANGED dir
  BY <1>1 DEF Filed, IsDirectory
<1>2. CASE ~UNCHANGED dir
  <2>1. PICK blocks : dir' = [dir EXCEPT !.blocks = blocks]
    BY <1>2 DEF Receive
  <2>2. QED BY <2>1 DEF Filed, IsDirectory
<1>3. QED BY <1>1, <1>2

LEMMA FilesStep == FilesInv /\ [Next]_vars => FilesInv'
<1> SUFFICES ASSUME FilesInv, [Next]_vars PROVE FilesInv'
  OBVIOUS
<1> USE DEF FilesInv, Filed, StatesBoundTheBlocks, Phases, host, receiver, sender
<1>1. ASSUME NEW b \in Block, Send(b) PROVE FilesInv'
  BY <1>1 DEF Send, IsDirectory
<1>2. CASE Reconnect
  BY <1>2 DEF Reconnect, IsDirectory
<1>3. CASE Begin
  <2>1. dir' = dir /\ session' = session + 1 /\ phase' = "starting"
    BY <1>3 DEF Begin
  <2>2. IsDirectory'
    BY <2>1 DEF IsDirectory
  <2>3. QED BY <2>1, <2>2
<1>4. CASE WriteStart
  <2>1. PICK state : state.by = session /\ dir' = [dir EXCEPT !.start = state]
    BY <1>4 DEF WriteStart, State
  <2>2. dir'.start.by = session /\ dir'.end = dir.end /\ dir'.blocks = dir.blocks
    BY <2>1
  <2>3. IsDirectory'
    BY <2>1 DEF IsDirectory
  <2>4. dir.end.by < session
    BY <1>4 DEF WriteStart
  <2>5. QED BY <1>4, <2>2, <2>3, <2>4 DEF WriteStart
<1>5. CASE Listen
  BY <1>5 DEF Listen, IsDirectory
<1>6. ASSUME NEW p, Hear(p) PROVE FilesInv'
  <2>1. Filed /\ Receive(p)
    BY <1>6 DEF Hear
  <2>2. dir'.start = dir.start /\ dir'.end = dir.end
    BY <2>1, ReceiveFiles
  <2>3. IsDirectory'
    BY <2>1, ReceiveFiles
  <2>4. QED BY <1>6, <2>2, <2>3 DEF Hear
<1>7. CASE Heard
  BY <1>6, <1>7 DEF Heard
<1>8. CASE HeardDamaged
  BY <1>6, <1>8 DEF HeardDamaged
<1>9. CASE Lost
  BY <1>9 DEF Lost, IsDirectory
<1>10. CASE Stop
  BY <1>10 DEF Stop, IsDirectory
<1>11. CASE WriteEnd
  <2>1. PICK state : /\ state.by = session /\ state.there = DOMAIN dir.blocks
                     /\ dir' = [dir EXCEPT !.end = state]
    BY <1>11 DEF WriteEnd, State
  <2>2. dir'.end = state /\ dir'.start = dir.start /\ dir'.blocks = dir.blocks
    BY <2>1
  <2>3. IsDirectory'
    BY <2>1 DEF IsDirectory
  <2>4. QED BY <1>11, <2>1, <2>2, <2>3 DEF WriteEnd
<1>12. CASE Fail
  BY <1>12 DEF Fail, IsDirectory
<1>13. CASE UNCHANGED vars
  BY <1>13 DEF vars, IsDirectory
<1>14. QED
  BY <1>1, <1>2, <1>3, <1>4, <1>5, <1>7, <1>8, <1>9, <1>10, <1>11, <1>12, <1>13 DEF Next

\* lora_relay.py:273: where the two state files are of one session, its blocks
\* were written between them; and the second is never of a later session.
THEOREM StatesAroundTheBlocks == Spec => []StatesBoundTheBlocks
<1>1. FilesInv => StatesBoundTheBlocks
  BY DEF FilesInv
<1>2. QED BY <1>1, FilesInit, FilesStep, PTL DEF Spec

-------------------------------------------------------------------------------
\* The fragment on the air is one that fragment() cuts.
OnAir ==
    sending = << >> \/
    \E s \in [block : Block, part : Nat, pass : Nat] :
        sending = <<s>> /\ s.part < FragCount[s.block]

DamageInv ==
    /\ OnAir
    /\ IsDirectory
    /\ phase = "listening" /\ session \notin damaged => CleanSlots
    /\ DamageStaysInItsSession

LEMMA DamageInit == Init => DamageInv
<1> SUFFICES ASSUME Init PROVE DamageInv
  OBVIOUS
<1>1. IsDirectory
  BY DEF Init, IsDirectory
<1>2. DamageStaysInItsSession
  BY DEF Init, DamageStaysInItsSession
<1>3. QED BY <1>1, <1>2 DEF Init, DamageInv, OnAir

LEMMA OnAirStep == OnAir /\ Advance => OnAir'
<1> SUFFICES ASSUME OnAir, Advance PROVE OnAir'
  OBVIOUS
<1>1. PICK s \in [block : Block, part : Nat, pass : Nat] :
        sending = <<s>> /\ s.part < FragCount[s.block]
  BY DEF OnAir, Advance
<1>2. FragCount[s.block] \in Nat \ {0} /\ Head(sending) = s
  BY <1>1, FragmentAssumption
<1> DEFINE onward == [s EXCEPT !.part = @ + 1]
           again == [block |-> s.block, part |-> 0, pass |-> s.pass + 1]
<1>3. sending' = IF s.part + 1 < FragCount[s.block] THEN <<onward>>
                 ELSE IF s.pass < Repeat THEN <<again>> ELSE << >>
  BY <1>2, Zenon DEF Advance
<1>4. /\ onward \in [block : Block, part : Nat, pass : Nat]
      /\ again \in [block : Block, part : Nat, pass : Nat]
      /\ onward.block = s.block /\ onward.part = s.part + 1
      /\ again.block = s.block /\ again.part = 0
  OBVIOUS
<1> HIDE DEF onward, again
<1>5. CASE s.part + 1 < FragCount[s.block]
  BY <1>5, <1>3, <1>4 DEF OnAir
<1>6. CASE ~(s.part + 1 < FragCount[s.block]) /\ s.pass < Repeat
  BY <1>2, <1>6, <1>3, <1>4 DEF OnAir
<1>7. CASE ~(s.part + 1 < FragCount[s.block]) /\ ~(s.pass < Repeat)
  BY <1>7, <1>3 DEF OnAir
<1>8. QED BY <1>5, <1>6, <1>7

LEMMA SentIsClean ==
    ASSUME OnAir, sending # << >>
    PROVE  \E p : p = Sent /\ CleanFragment(p)
<1>1. PICK s \in [block : Block, part : Nat, pass : Nat] :
        sending = <<s>> /\ s.part < FragCount[s.block]
  BY DEF OnAir
<1>2. Head(sending) = s
  BY <1>1
<1>3. /\ Sent.id = s.block /\ Sent.index = s.part /\ Sent.count = FragCount[s.block]
      /\ Sent.payload = Piece(s.block, s.part)
  BY <1>2 DEF Sent, Fragment
<1>4. FragCount[s.block] \in Nat \ {0} /\ s.part \in 0 .. FragCount[s.block] - 1
  BY <1>1, FragmentAssumption
<1>5. QED BY <1>3, <1>4 DEF CleanFragment

\* What the directory holds of a block after a fragment of it: the file is named
\* by the block, and is the block if all that was heard of it was undamaged.
LEMMA ReceiveBlocks ==
    ASSUME NEW p, Receive(p), IsDirectory
    PROVE  /\ IsDirectory'
           /\ \/ dir'.blocks = dir.blocks
              \/ /\ Completes(p)
                 /\ dir'.blocks = [b \in DOMAIN dir.blocks \cup {HashOf(PartsWith(p))} |->
                        IF b = HashOf(PartsWith(p))
                          THEN [raw |-> PartsWith(p), by |-> session] ELSE dir.blocks[b]]
<1>1. CASE UNCHANGED dir
  BY <1>1 DEF IsDirectory
<1>2. CASE ~UNCHANGED dir
  <2> DEFINE written == [b \in DOMAIN dir.blocks \cup {HashOf(PartsWith(p))} |->
                 IF b = HashOf(PartsWith(p))
                   THEN [raw |-> PartsWith(p), by |-> session] ELSE dir.blocks[b]]
  <2>1. Completes(p) /\ dir' = [dir EXCEPT !.blocks = written]
    BY <1>2 DEF Receive, FeedDelivered
  <2> HIDE DEF written
  <2>2. dir'.blocks = written /\ IsDirectory'
    BY <2>1 DEF IsDirectory
  <2>3. QED BY <2>1, <2>2 DEF written
<1>3. QED BY <1>1, <1>2

\* One fragment keeps the files clean when the session writing it is.
LEMMA HearKeepsClean ==
    ASSUME NEW p, Receive(p), IsDirectory, DamageStaysInItsSession,
           damaged \subseteq damaged', session' = session,
           session \notin damaged' /\ Completes(p) =>
               Whole(HashOf(PartsWith(p)), PartsWith(p))
    PROVE  DamageStaysInItsSession'
<1> DEFINE raw == PartsWith(p)
           name == HashOf(raw)
<1>1. CASE dir'.blocks = dir.blocks
  BY <1>1 DEF DamageStaysInItsSession
<1>2. CASE /\ Completes(p)
           /\ dir'.blocks = [b \in DOMAIN dir.blocks \cup {name} |->
                  IF b = name THEN [raw |-> raw, by |-> session] ELSE dir.blocks[b]]
  <2> DEFINE file == [raw |-> raw, by |-> session]
  <2>1. file.raw = raw /\ file.by = session
    OBVIOUS
  <2>2. session \notin damaged' => Whole(name, raw)
    BY <1>2
  <2>3. HashOf(raw) = name
    OBVIOUS
  <2>4. dir'.blocks = [b \in DOMAIN dir.blocks \cup {name} |->
                          IF b = name THEN file ELSE dir.blocks[b]]
    BY <1>2
  <2> HIDE DEF file, raw, name
  <2>5. ASSUME NEW b \in DOMAIN dir'.blocks
        PROVE  /\ HashOf(dir'.blocks[b].raw) = b
               /\ dir'.blocks[b].by \notin damaged' => Whole(b, dir'.blocks[b].raw)
    <3>1. CASE b = name
      <4>1. dir'.blocks[b] = file
        BY <2>4, <3>1
      <4>2. QED BY <4>1, <3>1, <2>1, <2>2, <2>3
    <3>2. CASE b # name
      <4>1. b \in DOMAIN dir.blocks /\ dir'.blocks[b] = dir.blocks[b]
        BY <2>4, <3>2
      <4>2. QED BY <4>1 DEF DamageStaysInItsSession, Whole, Piece
    <3>3. QED BY <3>1, <3>2
  <2>6. QED BY <2>5 DEF DamageStaysInItsSession, Whole, Piece, HashOf
<1>3. QED BY <1>1, <1>2, ReceiveBlocks

\* Each part of the invariant outlives a step that leaves its variables alone.
LEMMA Frame ==
    /\ OnAir /\ UNCHANGED sending => OnAir'
    /\ IsDirectory /\ UNCHANGED dir => IsDirectory'
    /\ CleanSlots /\ UNCHANGED partial => CleanSlots'
    /\ DamageStaysInItsSession /\ dir'.blocks = dir.blocks /\ UNCHANGED damaged
          => DamageStaysInItsSession'
<1>1. OnAir /\ UNCHANGED sending => OnAir'
  BY DEF OnAir
<1>2. IsDirectory /\ UNCHANGED dir => IsDirectory'
  BY DEF IsDirectory
<1>3. CleanSlots /\ UNCHANGED partial => CleanSlots'
  BY DEF CleanSlots
<1>4. DamageStaysInItsSession /\ dir'.blocks = dir.blocks /\ UNCHANGED damaged
        => DamageStaysInItsSession'
  BY DEF DamageStaysInItsSession
<1>5. QED BY <1>1, <1>2, <1>3, <1>4

LEMMA DamageStep == DamageInv /\ [Next]_vars => DamageInv'
<1> SUFFICES ASSUME DamageInv, [Next]_vars PROVE DamageInv'
  OBVIOUS
<1> USE DEF DamageInv, host, receiver, sender
<1> DEFINE Quiet == UNCHANGED <<partial, sending, dir, damaged>>
<1>1. ASSUME Quiet, UNCHANGED session, phase' = "listening" => phase = "listening"
      PROVE  DamageInv'
  BY <1>1, Frame
<1>2. ASSUME NEW b \in Block, Send(b) PROVE DamageInv'
  <2>1. OnAir'
    <3> DEFINE s == [block |-> b, part |-> 0, pass |-> 1]
    <3>1. sending' = <<s>>
      BY <1>2 DEF Send
    <3>2. s \in [block : Block, part : Nat, pass : Nat] /\ s.part < FragCount[s.block]
      BY FragmentAssumption
    <3>3. QED BY <3>1, <3>2 DEF OnAir
  <2>2. UNCHANGED <<partial, dir, damaged, session, phase>>
    BY <1>2 DEF Send
  <2>3. QED BY <2>1, <2>2, Frame
<1>3. CASE Reconnect
  BY <1>1, <1>3 DEF Reconnect
<1>4. CASE Begin
  <2>1. phase' = "starting" /\ UNCHANGED <<sending, dir, damaged>>
    BY <1>4 DEF Begin
  <2>2. QED BY <2>1, Frame
<1>5. CASE WriteStart
  <2>1. PICK state : dir' = [dir EXCEPT !.start = state]
    BY <1>5 DEF WriteStart
  <2>2. dir'.blocks = dir.blocks /\ IsDirectory'
    BY <2>1 DEF IsDirectory
  <2>3. phase' = "opening" /\ UNCHANGED <<sending, damaged>>
    BY <1>5 DEF WriteStart
  <2>4. QED BY <2>2, <2>3, Frame
<1>6. CASE Listen
  <2>1. partial' = << >> /\ UNCHANGED <<sending, dir, damaged>>
    BY <1>6 DEF Listen
  <2>2. CleanSlots'
    BY <2>1 DEF CleanSlots
  <2>3. QED BY <2>1, <2>2, Frame
<1>7. CASE Heard
  <2>1. PICK p : p = Sent /\ CleanFragment(p)
    BY <1>7, SentIsClean DEF Heard, Hear, Advance
  <2>2. /\ phase = "listening" /\ Advance /\ Receive(p)
        /\ UNCHANGED <<session, phase, damaged>>
    BY <1>7, <2>1 DEF Heard, Hear
  <2>3. OnAir'
    BY <2>2, OnAirStep
  <2>4. Feed(p)
    BY <2>2 DEF Receive, Feed
  <2>5. session \notin damaged => CleanSlots'
    BY <2>1, <2>2, <2>4, CleanSlotsStep
  <2>6. session \notin damaged /\ Completes(p) =>
            Whole(HashOf(PartsWith(p)), PartsWith(p))
    BY <2>1, <2>2, CleanWhenComplete
  <2>7. DamageStaysInItsSession'
    BY <2>2, <2>6, HearKeepsClean
  <2>8. IsDirectory'
    BY <2>2, ReceiveBlocks
  <2>9. QED BY <2>2, <2>3, <2>5, <2>7, <2>8
<1>8. CASE HeardDamaged
  <2>1. PICK p : Hear(p)
    BY <1>8 DEF HeardDamaged
  <2>2. damaged' = damaged \cup {session}
    BY <1>8 DEF HeardDamaged
  <2>3. Advance /\ Receive(p) /\ UNCHANGED session
    BY <2>1 DEF Hear
  <2>4. OnAir' /\ IsDirectory'
    BY <2>3, OnAirStep, ReceiveBlocks
  <2>5. DamageStaysInItsSession'
    BY <2>2, <2>3, HearKeepsClean
  <2>6. session' \in damaged'
    BY <2>2, <2>3
  <2>7. QED BY <2>4, <2>5, <2>6
<1>9. CASE Lost
  <2>1. Advance /\ UNCHANGED <<partial, session, phase, dir, damaged>>
    BY <1>9 DEF Lost
  <2>2. QED BY <2>1, OnAirStep, Frame
<1>10. CASE Stop
  BY <1>1, <1>10 DEF Stop
<1>11. CASE WriteEnd
  <2>1. PICK state : dir' = [dir EXCEPT !.end = state]
    BY <1>11 DEF WriteEnd
  <2>2. dir'.blocks = dir.blocks /\ IsDirectory'
    BY <2>1 DEF IsDirectory
  <2>3. phase' = "off" /\ UNCHANGED <<sending, damaged>>
    BY <1>11 DEF WriteEnd
  <2>4. QED BY <2>2, <2>3, Frame
<1>12. CASE Fail
  BY <1>1, <1>12 DEF Fail
<1>13. CASE UNCHANGED vars
  BY <1>1, <1>13 DEF vars
<1>14. QED
  BY <1>2, <1>3, <1>4, <1>5, <1>6, <1>7, <1>8, <1>9, <1>10, <1>11, <1>12, <1>13 DEF Next

\* A block file is damaged only if the session that wrote it heard damage: what a
\* session leaves in the reassembler never reaches the files of the next.
THEOREM DamageIsContained == Spec => []DamageStaysInItsSession
<1>1. DamageInv => DamageStaysInItsSession
  BY DEF DamageInv
<1>2. QED BY <1>1, DamageInit, DamageStep, PTL DEF Spec
===============================================================================
