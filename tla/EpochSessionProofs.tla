-------------------------- MODULE EpochSessionProofs --------------------------
(***************************************************************************)
(* Proofs about one epoch, for every script, every bound, every number of  *)
(* witnesses and every series of photographs.  EpochInv says what a        *)
(* program in each of its stages knows, what each checkpoint commits to,   *)
(* what the files of the directory can be mixed from, and what a block     *)
(* with a payload proves; each action keeps it, and the properties of      *)
(* EpochSession follow from it.                                            *)
(***************************************************************************)
EXTENDS EpochSession, SequenceTheorems, FiniteSetTheorems, WellFoundedInduction, TLAPS

-------------------------------------------------------------------------------
\* The programs as lists of steps: those that end in a signature, and those that
\* write the files of one.
Signing(t) == t # << >> /\ t[Len(t)] = "sign"
Writing(t) == t # << >> /\ t[Len(t)] \in {"payload", "manifest", "expectation", "closed"}

\* The steps that lead to a signature, or to nothing, in an order that makes sense.
AskSteps == {"tip", "read", "roughtime", "ntp", "record", "capture", "frames", "assess",
          "events", "challenge", "sign"}

Sensible(s, t) ==
    \A i \in DOMAIN t :
        /\ t[i] \in AskSteps
        /\ t[i] \in {"tip", "read"} => i = 1
        /\ t[i] = "sign" => i = Len(t)
        /\ t[i] \in {"ntp", "roughtime"} => \A j \in DOMAIN t : j > i => t[j] # t[i]
        /\ t[i] = "ntp" => \A j \in DOMAIN t : j > i => t[j] # "roughtime"
        /\ t[i] \in {"frames", "assess"} => s \in Optical
        /\ t[i] = "frames" /\ Signing(t) /\ s = "g6" =>
              \E j \in DOMAIN t : j > i /\ t[j] = "assess"
        /\ t[i] = "record" => s \in Bindings \ {"galileo"}
        /\ t[i] = "capture" => s = "galileo"
        /\ t[i] = "read" => s \in Opened
        /\ t[i] = "challenge" => s \in (IF Signing(t) THEN {"satroot", "pm"} ELSE Opened)
        /\ t[i] = "tip" /\ Signing(t) /\ s \in Bindings =>
              \E j \in DOMAIN t : j > i /\ t[j] = "challenge"

\* What is left of the files of a run with n blobs: the names count from the end.
Ordered(s, t, n) ==
    LET c == 3 + Len(Plan[s].last) IN
    \A i \in DOMAIN t :
        LET e == Len(t) - i IN
        /\ e < c - 3 => t[i] \in {"manifest", "expectation", "closed"}
        /\ e = c - 3 => t[i] = "payload"
        /\ e = c - 2 => t[i] = "checkpoint"
        /\ e = c - 1 => t[i] = "history"
        /\ c <= e /\ e < c + n => t[i] = "blob"
        /\ c + n <= e => t[i] \in (IF s = "sandwich" THEN {"b0", "session"} ELSE
                                   IF s = "g5" THEN {"challenge"} ELSE {})

-------------------------------------------------------------------------------
Sources == {"ntp", "roughtime", "external", "capture", "camera"}
FrameSets == Series \cup {{}}
Piece == [of : Sources, n : Nat, by : Nat, at : Nat, frames : FrameSets, session : Nat, b0 : Nat]
BlockRecord == [parent : Nat, branch : Seq(Nat), payload : Nat]
Memory == [session : Nat, b0 : Nat, frames : FrameSets, coded : SUBSET UNION Series,
           witnesses : Seq(Piece), last : Seq(Piece)]
Checkpoint == [session : Nat, b0 : Nat, blobs : Seq(Piece), history : Seq(Piece),
               frames : FrameSets, coded : SUBSET UNION Series, agreed : BOOLEAN]
Directory == [b0 : Nat, session : Nat, events : Nat, blobs : Seq(Piece), history : Nat,
              checkpoint : Nat, payload : Nat, manifest : FrameSets, expectation : Nat]

TypeInv ==
    /\ tree \in Seq(BlockRecord) /\ best \in DOMAIN tree
    /\ script \in Scripts
    /\ sessions \in Seq(Nat)
    /\ photos \in [frames : FrameSets, at : Nat, copies : Nat]
    /\ todo \in Seq(AskSteps \cup Files) /\ mem \in Memory
    /\ signed \in Seq(Checkpoint) /\ files \in Directory /\ racing \in Nat

\* Blocks from the first up, each of which fixes those below it.
IsBranch(t, blocks) ==
    \A i \in 1 .. Len(blocks) :
        /\ blocks[i] \in DOMAIN t /\ Len(t[blocks[i]].branch) = i
        /\ i > 1 => t[blocks[i]].parent = blocks[i - 1]
        /\ \A j \in 1 .. i : t[blocks[i]].branch[j] = blocks[j]

\* Every block has a branch, which ends in it.
Grown(t) ==
    \A b \in DOMAIN t :
        /\ Len(t[b].branch) # 0 /\ t[b].branch[Len(t[b].branch)] = b
        /\ IsBranch(t, t[b].branch)

WorldInv ==
    /\ TreeOK /\ Grown(tree)
    /\ photos.at <= Len(tree)
    /\ \A s \in DOMAIN sessions : sessions[s] \in DOMAIN tree

Known(s, b0) == s \in DOMAIN sessions /\ b0 = sessions[s]
Nothing(s, b0) == s = 0 /\ b0 = 0

\* An item came to be when there was a block, and its challenge before it.
Real(x) == x.at <= Len(tree) /\ (x.of \in {"capture", "camera"} \/ x.b0 <= x.at)

Belongs(x, s, b0) == Real(x) /\ x.session = s /\ x.b0 = b0

Rest(s) == IF s \in Optical THEN {"camera"} ELSE IF s = "galileo" THEN {"capture"} ELSE
             IF s \in Bindings THEN {"external"} ELSE {}
Most(s) == 2 * (Bounds[s].ntp + Bounds[s].roughtime)

\* What a program has in memory, and what it has before it.
MemOK(m) ==
    /\ Nothing(m.session, m.b0) \/ Known(m.session, m.b0)
    /\ \A i \in DOMAIN m.witnesses :
          /\ Belongs(m.witnesses[i], m.session, m.b0)
          /\ m.witnesses[i].of \in {"ntp", "roughtime"}
    /\ \A i, j \in DOMAIN m.witnesses : m.witnesses[i] = m.witnesses[j] => i = j
    /\ \A i \in DOMAIN m.last :
          /\ Belongs(m.last[i], m.session, m.b0)
          /\ m.last[i].of \in Rest(script)
          /\ script \in Optical => m.last[i].frames = m.frames /\ m.frames # {}
    /\ Len(m.witnesses) <= Most(script) /\ Len(m.witnesses) % 2 = 0
    /\ Len(m.last) <= (IF script = "naxytra" THEN Bounds[script].records ELSE 1)

StageOK(t, m) ==
    ~Writing(t) =>
        /\ Sensible(script, t)
        /\ {"tip", "read"} \cap Range(t) # {} => m = NoMemory
        /\ "ntp" \in Range(t) =>
              /\ \A i \in DOMAIN m.witnesses : m.witnesses[i].of = "roughtime"
              /\ Len(m.witnesses) <= 2 * Bounds[script].roughtime
        /\ Signing(t) =>
              /\ \A i \in DOMAIN m.witnesses : m.witnesses[i].by = Len(signed) + 1
              /\ {"tip", "read"} \cap Range(t) = {} => m.session # 0
              /\ script \in Optical /\ "frames" \notin Range(t) => m.last # << >>
              /\ script \in Bindings /\ {"record", "capture"} \cap Range(t) = {} =>
                    m.last # << >>
              /\ script = "g6" /\ "assess" \notin Range(t) => m.coded \in Declarations(m.frames)
              /\ script \in Bindings /\ {"tip", "read", "challenge"} \cap Range(t) = {} =>
                    files.session = m.session /\ files.b0 = m.b0
              /\ script \in {"satroot", "pm"} => signed = << >>

\* What the p-th checkpoint commits to.
Sealed(p, r) ==
    LET k == Len(r.history)
    IN  /\ Known(r.session, r.b0)
        /\ k # 0 /\ k <= Len(r.blobs) /\ Len(r.blobs) <= Most(script) + Bounds[script].records
        /\ \A i \in DOMAIN r.history : r.history[i] = r.blobs[i]
        /\ \A i, j \in DOMAIN r.history : r.history[i] = r.history[j] => i = j
        /\ \A i \in DOMAIN r.blobs :
              LET x == r.blobs[i]
              IN  /\ Belongs(x, r.session, r.b0)
                  /\ i <= k <=> x.of \in {"ntp", "roughtime", "camera"}
                  /\ x.of \in {"ntp", "roughtime"} => x.by = p
                  /\ x.of = "camera" => i = Len(r.blobs) /\ x.frames = r.frames
                  /\ x.of \in {"ntp", "roughtime"} \cup Rest(script)
        /\ script \in Optical =>
              Len(r.blobs) # 0 /\ r.blobs[Len(r.blobs)].of = "camera" /\ r.frames # {}
        /\ script \in Bindings =>
              /\ k < Len(r.blobs) /\ k % 2 = 0
              /\ script # "naxytra" => Len(r.blobs) = k + 1
        /\ script = "g6" => r.coded \in Declarations(r.frames)

SignedInv == \A p \in DOMAIN signed : Sealed(p, signed[p])

FilesInv ==
    /\ \A i \in DOMAIN files.blobs :
          \E p \in DOMAIN signed :
              i \in DOMAIN signed[p].blobs /\ files.blobs[i] = signed[p].blobs[i]
    /\ IF script = "sandwich" THEN files.session <= Len(sessions)
       ELSE Nothing(files.session, files.b0) \/ Known(files.session, files.b0)
    /\ files.events <= Len(sessions)
    /\ files.history <= Len(signed) /\ files.checkpoint <= Len(signed)
    /\ files.payload <= Len(signed) /\ files.expectation <= Len(signed)

\* The run that writes its files has written those before its next one.
WrittenInv ==
    Writing(todo) =>
        LET p == Len(signed)
            r == signed[p]
            c == Len(Closing)
        IN  /\ signed # << >>
            /\ Ordered(script, todo, Len(r.blobs))
            /\ mem.session = r.session /\ mem.b0 = r.b0 /\ mem.frames = r.frames
            /\ \A j \in DOMAIN r.blobs :
                  j <= Len(r.blobs) - (Len(todo) - c) =>
                      j \in DOMAIN files.blobs /\ files.blobs[j] = r.blobs[j]
            /\ Len(todo) < c => files.history = p
            /\ Len(todo) < c - 1 => files.checkpoint = p
            /\ script \in Bindings => files.session = r.session /\ files.b0 = r.b0

\* Every block with a payload was found after what the payload commits to came to be.
PaidInv ==
    /\ racing <= Len(signed)
    /\ \A c \in DOMAIN tree :
          /\ tree[c].payload <= Len(signed)
          /\ tree[c].payload # 0 =>
                \A i \in DOMAIN signed[tree[c].payload].blobs : signed[tree[c].payload].blobs[i].at < c

\* A script that refuses to run twice.
Frozen == {"sign", "challenge", "blob", "history", "checkpoint", "payload"}

OnceInv ==
    script \in Bindings =>
        /\ files.payload # 0 =>
              LET r == signed[files.payload]
              IN  /\ Frozen \cap Range(todo) = {}
                  /\ files.history = files.payload /\ files.checkpoint = files.payload
                  /\ files.session = r.session /\ files.b0 = r.b0
                  /\ \A i \in DOMAIN r.blobs : i \in DOMAIN files.blobs /\ files.blobs[i] = r.blobs[i]
        /\ racing = 0 \/ racing = files.payload
        /\ \A c \in DOMAIN tree :
              /\ tree[c].payload = 0 \/ tree[c].payload = files.payload
              /\ tree[c].payload # 0 => \A i \in DOMAIN files.blobs : files.blobs[i].at < c
        /\ script \in {"satroot", "pm"} /\ signed # << >> =>
              Len(signed) = 1 /\ files.session # 0

EpochInv ==
    /\ TypeInv /\ WorldInv /\ MemOK(mem) /\ StageOK(todo, mem)
    /\ SignedInv /\ FilesInv /\ WrittenInv /\ PaidInv /\ OnceInv

-------------------------------------------------------------------------------
\* The steps a program has before it.
LEMMA TailFacts ==
    ASSUME NEW S, NEW t \in Seq(S), t # << >>
    PROVE  /\ Tail(t) \in Seq(S) /\ Len(t) \in Nat \ {0} /\ Len(Tail(t)) = Len(t) - 1
           /\ Head(t) = t[1] /\ \A i \in DOMAIN Tail(t) : i + 1 \in DOMAIN t /\ Tail(t)[i] = t[i + 1]
           /\ Tail(t) # << >> => Tail(t)[Len(Tail(t))] = t[Len(t)]
           /\ Range(t) = {Head(t)} \cup Range(Tail(t))
<1>1. /\ Tail(t) \in Seq(S) /\ Len(t) \in Nat \ {0} /\ Len(Tail(t)) = Len(t) - 1
      /\ Head(t) = t[1] /\ DOMAIN t = 1 .. Len(t) /\ DOMAIN Tail(t) = 1 .. Len(t) - 1
      /\ \A i \in 1 .. Len(t) - 1 : Tail(t)[i] = t[i + 1]
  OBVIOUS
<1>2. \A i \in DOMAIN Tail(t) : i + 1 \in DOMAIN t /\ Tail(t)[i] = t[i + 1]
  BY <1>1
<1>3. Tail(t) # << >> => Tail(t)[Len(Tail(t))] = t[Len(t)]
  <2>1. Tail(t) # << >> => Len(t) - 1 \in 1 .. Len(t) - 1
    BY <1>1
  <2>2. QED BY <2>1, <1>1
<1>4. Range(t) = {Head(t)} \cup Range(Tail(t))
  <2>1. ASSUME NEW i \in DOMAIN t PROVE t[i] = Head(t) \/ \E j \in DOMAIN Tail(t) : t[i] = Tail(t)[j]
    <3>1. CASE i = 1
      BY <3>1, <1>1
    <3>2. CASE i # 1
      <4>1. i - 1 \in DOMAIN Tail(t) /\ Tail(t)[i - 1] = t[i]
        BY <3>2, <1>1
      <4>2. QED BY <4>1
    <3>3. QED BY <3>1, <3>2
  <2>2. 1 \in DOMAIN t
    BY <1>1
  <2>3. QED BY SMTT(30), <1>1, <1>2, <2>1, <2>2 DEF Range
<1>5. QED BY <1>1, <1>2, <1>3, <1>4

\* A step taken leaves an order that makes sense, and what fixed B0 is behind it.
LEMMA SensibleTail ==
    ASSUME NEW S, NEW t \in Seq(S), t # << >>, NEW s, Sensible(s, t)
    PROVE  /\ Sensible(s, Tail(t)) /\ {"tip", "read"} \cap Range(Tail(t)) = {}
           /\ Head(t) \in {"ntp", "roughtime"} => Head(t) \notin Range(Tail(t))
<1> DEFINE u == Tail(t)
<1>1. /\ Len(t) \in Nat \ {0} /\ Len(u) = Len(t) - 1 /\ Head(t) = t[1]
      /\ \A i \in DOMAIN u : i \in Nat \ {0} /\ i + 1 \in DOMAIN t /\ u[i] = t[i + 1]
      /\ DOMAIN u = 1 .. Len(t) - 1 /\ DOMAIN t = 1 .. Len(t)
      /\ u # << >> => u[Len(u)] = t[Len(t)]
  BY TailFacts
<1>2. (Signing(u) => Signing(t)) /\ (u # << >> => (Signing(t) <=> Signing(u)))
  BY <1>1 DEF Signing
<1> HIDE DEF u
<1>3. ASSUME NEW i \in DOMAIN u
      PROVE  /\ u[i] \in AskSteps
             /\ u[i] # "tip" /\ u[i] # "read"
             /\ u[i] = "sign" => i = Len(u)
             /\ u[i] \in {"frames", "assess"} => s \in Optical
             /\ u[i] = "record" => s \in Bindings \ {"galileo"}
             /\ u[i] = "capture" => s = "galileo"
             /\ u[i] = "challenge" => s \in (IF Signing(u) THEN {"satroot", "pm"} ELSE Opened)
  <2>1. i + 1 \in DOMAIN t /\ u[i] = t[i + 1] /\ i + 1 # 1
    BY <1>1
  <2>2. u # << >>
    OBVIOUS
  <2>3. QED BY <2>1, <2>2, <1>1, <1>2 DEF Sensible
<1>4. ASSUME NEW i \in DOMAIN u, NEW j \in DOMAIN u, j > i
      PROVE  /\ u[i] \in {"ntp", "roughtime"} => u[j] # u[i]
             /\ u[i] = "ntp" => u[j] # "roughtime"
  <2>1. /\ i + 1 \in DOMAIN t /\ u[i] = t[i + 1] /\ j + 1 \in DOMAIN t /\ u[j] = t[j + 1]
        /\ j + 1 > i + 1
    BY <1>1, <1>4
  <2>2. QED BY <2>1 DEF Sensible
<1>5. ASSUME NEW i \in DOMAIN u, u[i] = "frames", Signing(u), s = "g6"
      PROVE  \E j \in DOMAIN u : j > i /\ u[j] = "assess"
  <2>1. i + 1 \in DOMAIN t /\ u[i] = t[i + 1]
    BY <1>1
  <2>2. PICK j \in DOMAIN t : j > i + 1 /\ t[j] = "assess"
    BY <2>1, <1>2, <1>5 DEF Sensible
  <2>3. j - 1 \in DOMAIN u /\ u[j - 1] = t[j] /\ j - 1 > i
    BY <2>2, <1>1
  <2>4. QED BY <2>2, <2>3
<1>sensible. Sensible(s, u)
  <2>1. \A i \in DOMAIN u : u[i] # "tip"
    BY <1>3
  <2>2. QED BY <2>1, <1>3, <1>4, <1>5 DEF Sensible
<1>6. {"tip", "read"} \cap Range(u) = {}
  BY <1>3 DEF Range
<1>7. Head(t) \in {"ntp", "roughtime"} => Head(t) \notin Range(u)
  <2>1. ASSUME NEW i \in DOMAIN u, Head(t) \in {"ntp", "roughtime"} PROVE u[i] # Head(t)
    <3>1. i + 1 \in DOMAIN t /\ u[i] = t[i + 1] /\ i + 1 > 1 /\ 1 \in DOMAIN t /\ Head(t) = t[1]
      BY <1>1
    <3>2. QED BY <3>1, <2>1 DEF Sensible
  <2>2. QED BY <2>1 DEF Range
<1>8. QED BY <1>sensible, <1>6, <1>7 DEF u

LEMMA OrderedTail ==
    ASSUME NEW S, NEW t \in Seq(S), t # << >>, NEW s, NEW n \in Nat, Ordered(s, t, n)
    PROVE  Ordered(s, Tail(t), n)
<1>1. \A i \in DOMAIN Tail(t) :
         /\ i + 1 \in DOMAIN t /\ Tail(t)[i] = t[i + 1]
         /\ Len(Tail(t)) - i = Len(t) - (i + 1)
  <2>1. /\ Len(t) \in Nat \ {0} /\ Len(Tail(t)) = Len(t) - 1
        /\ \A i \in DOMAIN Tail(t) : i + 1 \in DOMAIN t /\ Tail(t)[i] = t[i + 1]
    BY TailFacts
  <2>2. QED BY <2>1
<1>2. QED BY <1>1 DEF Ordered

\* The scripts as they are written above.
LEMMA TheScripts ==
    ASSUME NEW s \in DOMAIN Plan
    PROVE  /\ Plan[s].ask \in Seq(AskSteps) /\ Sensible(s, Plan[s].ask) /\ Signing(Plan[s].ask)
           /\ {"tip", "read"} \cap Range(Plan[s].ask) # {}
           /\ s \in Optical => "frames" \in Range(Plan[s].ask)
           /\ s \in Bindings => {"record", "capture"} \cap Range(Plan[s].ask) # {}
           /\ s = "g6" => "assess" \in Range(Plan[s].ask)
<1> DEFINE Good(t) ==
      /\ t \in Seq(AskSteps) /\ Sensible(s, t) /\ Signing(t)
      /\ {"tip", "read"} \cap Range(t) # {}
      /\ s \in Optical => "frames" \in Range(t)
      /\ s \in Bindings => {"record", "capture"} \cap Range(t) # {}
      /\ s = "g6" => "assess" \in Range(t)
<1>1. CASE s = "sandwich"
  <2>1. PICK t : t = <<"tip", "ntp", "sign">> /\ t = Plan[s].ask
    BY <1>1 DEF Plan, RunSandwich
  <2>2. t \in Seq(AskSteps) /\ Sensible(s, t) /\ Signing(t)
    BY <1>1, <2>1 DEF AskSteps, Sensible, Signing, Optical, Bindings, Opened
  <2>3. {"tip"} \subseteq Range(t)
    BY <2>1 DEF Range
  <2>4. QED BY <1>1, <2>1, <2>2, <2>3, Zenon DEF Optical, Bindings
<1>2. CASE s = "g2b"
  <2>1. PICK t : t = <<"read", "frames", "ntp", "sign">> /\ t = Plan[s].ask
    BY <1>2 DEF Plan, RunG2b
  <2>2. t \in Seq(AskSteps) /\ Sensible(s, t) /\ Signing(t)
    BY <1>2, <2>1 DEF AskSteps, Sensible, Signing, Optical, Bindings, Opened
  <2>3. {"read", "frames"} \subseteq Range(t)
    BY <2>1 DEF Range
  <2>4. QED BY <1>2, <2>1, <2>2, <2>3, Zenon DEF Optical, Bindings
<1>3. CASE s = "g5"
  <2>1. PICK t : t = <<"tip", "roughtime", "ntp", "sign">> /\ t = Plan[s].ask
    BY <1>3 DEF Plan, RunG5
  <2>2. t \in Seq(AskSteps) /\ Sensible(s, t) /\ Signing(t)
    BY <1>3, <2>1 DEF AskSteps, Sensible, Signing, Optical, Bindings, Opened
  <2>3. {"tip"} \subseteq Range(t)
    BY <2>1 DEF Range
  <2>4. QED BY <1>3, <2>1, <2>2, <2>3, Zenon DEF Optical, Bindings
<1>4. CASE s = "g6"
  <2>1. PICK t : t = <<"read", "frames", "assess", "ntp", "sign">> /\ t = Plan[s].ask
    BY <1>4 DEF Plan, RunG6
  <2>2. t \in Seq(AskSteps) /\ Sensible(s, t) /\ Signing(t)
    BY <1>4, <2>1 DEF AskSteps, Sensible, Signing, Optical, Bindings, Opened
  <2>3. {"read", "frames", "assess"} \subseteq Range(t)
    BY <2>1 DEF Range
  <2>4. QED BY <1>4, <2>1, <2>2, <2>3, Zenon DEF Optical, Bindings
<1>5. CASE s = "satroot"
  <2>1. PICK t : t = <<"tip", "events", "record", "challenge", "ntp", "sign">> /\ t = Plan[s].ask
    BY <1>5 DEF Plan, RunSatroot
  <2>2. t \in Seq(AskSteps) /\ Sensible(s, t) /\ Signing(t)
    BY <1>5, <2>1 DEF AskSteps, Sensible, Signing, Optical, Bindings, Opened
  <2>3. {"tip", "record"} \subseteq Range(t)
    BY <2>1 DEF Range
  <2>4. QED BY <1>5, <2>1, <2>2, <2>3, Zenon DEF Optical, Bindings
<1>6. CASE s = "pm"
  <2>1. PICK t : t = <<"tip", "record", "challenge", "ntp", "sign">> /\ t = Plan[s].ask
    BY <1>6 DEF Plan, RunPm
  <2>2. t \in Seq(AskSteps) /\ Sensible(s, t) /\ Signing(t)
    BY <1>6, <2>1 DEF AskSteps, Sensible, Signing, Optical, Bindings, Opened
  <2>3. {"tip", "record"} \subseteq Range(t)
    BY <2>1 DEF Range
  <2>4. QED BY <1>6, <2>1, <2>2, <2>3, Zenon DEF Optical, Bindings
<1>7. CASE s = "galileo"
  <2>1. PICK t : t = <<"read", "capture", "ntp", "sign">> /\ t = Plan[s].ask
    BY <1>7 DEF Plan, CloseGalileo
  <2>2. t \in Seq(AskSteps) /\ Sensible(s, t) /\ Signing(t)
    BY <1>7, <2>1 DEF AskSteps, Sensible, Signing, Optical, Bindings, Opened
  <2>3. {"read", "capture"} \subseteq Range(t)
    BY <2>1 DEF Range
  <2>4. QED BY <1>7, <2>1, <2>2, <2>3, Zenon DEF Optical, Bindings
<1>8. CASE s = "naxytra"
  <2>1. PICK t : t = <<"read", "record", "ntp", "sign">> /\ t = Plan[s].ask
    BY <1>8 DEF Plan, RunNaxytra
  <2>2. t \in Seq(AskSteps) /\ Sensible(s, t) /\ Signing(t)
    BY <1>8, <2>1 DEF AskSteps, Sensible, Signing, Optical, Bindings, Opened
  <2>3. {"read", "record"} \subseteq Range(t)
    BY <2>1 DEF Range
  <2>4. QED BY <1>8, <2>1, <2>2, <2>3, Zenon DEF Optical, Bindings
<1>9. QED BY <1>1, <1>2, <1>3, <1>4, <1>5, <1>6, <1>7, <1>8 DEF Plan

\* The files a script writes before the blobs, and those after the payload.
Early(s) == IF s = "sandwich" THEN {"b0", "session"} ELSE IF s = "g5" THEN {"challenge"} ELSE {}
Late == {"manifest", "expectation", "closed"}

LEMMA TheFiles ==
    ASSUME NEW s \in DOMAIN Plan
    PROVE  Plan[s].first \in Seq(Early(s)) /\ Plan[s].last \in Seq(Late)
<1>1. /\ <<"b0", "session">> \in Seq({"b0", "session"}) /\ <<"challenge">> \in Seq({"challenge"})
      /\ \A S : << >> \in Seq(S)
      /\ <<"manifest">> \in Seq(Late) /\ <<"manifest", "expectation">> \in Seq(Late)
      /\ <<"closed">> \in Seq(Late)
  BY DEF Late
<1>2. CASE s = "sandwich"
  BY <1>1, <1>2 DEF Plan, RunSandwich, Early
<1>3. CASE s = "g5"
  BY <1>1, <1>3 DEF Plan, RunG5, Early
<1>4. CASE s = "g2b"
  BY <1>1, <1>4 DEF Plan, RunG2b, Early
<1>5. CASE s = "g6"
  BY <1>1, <1>5 DEF Plan, RunG6, Early
<1>6. CASE s = "satroot"
  BY <1>1, <1>6 DEF Plan, RunSatroot, Early
<1>7. CASE s = "pm"
  BY <1>1, <1>7 DEF Plan, RunPm, Early
<1>8. CASE s = "naxytra"
  BY <1>1, <1>8 DEF Plan, RunNaxytra, Early
<1>9. CASE s = "galileo"
  BY <1>1, <1>9 DEF Plan, CloseGalileo, Early
<1>10. QED BY <1>2, <1>3, <1>4, <1>5, <1>6, <1>7, <1>8, <1>9 DEF Plan

\* What a run writes once it has signed: as many blobs as it has, between its first
\* files and its last.
LEMMA OutputShape ==
    ASSUME script \in DOMAIN Plan, NEW S, NEW blobs \in Seq(S)
    PROVE  /\ Output(blobs) \in Seq(Files) /\ Writing(Output(blobs))
           /\ Ordered(script, Output(blobs), Len(blobs))
           /\ Len(Closing) = 3 + Len(Plan[script].last) /\ Len(Closing) \in Nat
           /\ Len(blobs) + Len(Closing) <= Len(Output(blobs))
<1> DEFINE first == Plan[script].first
           last == Plan[script].last
           middle == [i \in DOMAIN blobs |-> "blob"]
           three == <<"history", "checkpoint", "payload">>
           n == Len(blobs)
           t == Output(blobs)
<1>1. first \in Seq(Early(script)) /\ last \in Seq(Late)
  BY TheFiles
<1> DEFINE k == Len(first)
           m == Len(last)
<1>2. k \in Nat /\ m \in Nat /\ n \in Nat
  BY <1>1
<1>3. /\ middle \in Seq({"blob"}) /\ Len(middle) = n
      /\ \A i \in 1 .. k : first[i] \in Early(script)
      /\ \A i \in 1 .. n : middle[i] = "blob"
      /\ \A i \in 1 .. m : last[i] \in Late
  BY <1>1
<1>4. /\ three \in Seq(Files) /\ Len(three) = 3 /\ three[1] = "history" /\ three[2] = "checkpoint"
      /\ three[3] = "payload"
  BY DEF Files
<1>5. Early(script) \subseteq Files /\ Late \subseteq Files /\ "blob" \in Files
  BY DEF Early, Late, Files
<1>6. first \in Seq(Files) /\ last \in Seq(Files) /\ middle \in Seq(Files)
  BY <1>1, <1>3, <1>5, SeqDef
<1>7. Closing = three \o last /\ t = first \o middle \o Closing
  BY DEF Closing, Output
<1>8. /\ Closing \in Seq(Files) /\ Len(Closing) = 3 + m
      /\ \A i \in 1 .. 3 + m : Closing[i] = IF i <= 3 THEN three[i] ELSE last[i - 3]
  <2> HIDE DEF three, last
  <2>1. /\ three \o last \in Seq(Files) /\ Len(three \o last) = Len(three) + Len(last)
        /\ \A i \in 1 .. Len(three) + Len(last) :
              (three \o last)[i] = IF i <= Len(three) THEN three[i] ELSE last[i - Len(three)]
    BY <1>4, <1>6, ConcatProperties
  <2>2. Len(three) = 3
    BY <1>4
  <2>3. QED BY <1>7, <2>1, <2>2
<1>9. /\ first \o middle \in Seq(Files) /\ Len(first \o middle) = k + n
      /\ \A i \in 1 .. k + n :
            (first \o middle)[i] = IF i <= k THEN first[i] ELSE middle[i - k]
  <2> HIDE DEF first, middle, n
  <2>1. QED BY <1>3, <1>6, ConcatProperties
<1>10. /\ t \in Seq(Files) /\ Len(t) = k + n + (3 + m)
       /\ \A i \in 1 .. k + n + (3 + m) :
             t[i] = IF i <= k + n THEN (first \o middle)[i] ELSE Closing[i - (k + n)]
  <2>1. PICK u : u = first \o middle
    OBVIOUS
  <2> HIDE DEF first, middle, last, n, k, m, t
  <2>2. u \in Seq(Files) /\ Len(u) = k + n /\ Len(Closing) = 3 + m /\ t = u \o Closing
    BY <1>7, <1>8, <1>9, <2>1
  <2>3. /\ u \o Closing \in Seq(Files) /\ Len(u \o Closing) = Len(u) + Len(Closing)
        /\ \A i \in 1 .. Len(u) + Len(Closing) :
              (u \o Closing)[i] = IF i <= Len(u) THEN u[i] ELSE Closing[i - Len(u)]
    BY <1>8, <2>2, ConcatProperties
  <2>4. QED BY <2>1, <2>2, <2>3
<1> HIDE DEF first, last, middle, three, n, t, k, m
<1>11. ASSUME NEW i \in 1 .. Len(t)
       PROVE  LET e == Len(t) - i
                  c == 3 + m
              IN  /\ e < c - 3 => t[i] \in Late
                  /\ e = c - 3 => t[i] = "payload"
                  /\ e = c - 2 => t[i] = "checkpoint"
                  /\ e = c - 1 => t[i] = "history"
                  /\ c <= e /\ e < c + n => t[i] = "blob"
                  /\ c + n <= e => t[i] \in Early(script)
  <2> i \in 1 .. k + n + (3 + m)
    BY <1>10
  <2>1. CASE i <= k
    <3>1. t[i] = first[i] /\ t[i] \in Early(script)
      BY <2>1, <1>2, <1>3, <1>9, <1>10
    <3>2. QED BY <2>1, <3>1, <1>2, <1>10
  <2>2. CASE k < i /\ i <= k + n
    <3>0. i - k \in 1 .. n /\ i \in 1 .. k + n /\ ~(i <= k) /\ i <= k + n
      BY <2>2, <1>2
    <3>1. i - k \in 1 .. n /\ t[i] = middle[i - k]
      BY <3>0, <1>9, <1>10
    <3>2. t[i] = "blob"
      BY <3>1, <1>3
    <3>3. QED BY <2>2, <3>2, <1>2, <1>10
  <2>3. CASE i > k + n /\ i <= k + n + 3
    <3>0. i - (k + n) \in 1 .. 3 + m /\ i - (k + n) <= 3 /\ ~(i <= k + n)
      BY <2>3, <1>2
    <3>1. t[i] = three[i - (k + n)]
      BY <3>0, <1>8, <1>10
    <3>2. i = k + n + 1 \/ i = k + n + 2 \/ i = k + n + 3
      BY <2>3, <1>2
    <3>3. /\ i = k + n + 1 => t[i] = "history" /\ Len(t) - i = m + 2
          /\ i = k + n + 2 => t[i] = "checkpoint" /\ Len(t) - i = m + 1
          /\ i = k + n + 3 => t[i] = "payload" /\ Len(t) - i = m
      BY <3>1, <1>2, <1>4, <1>10
    <3>4. QED BY <3>2, <3>3, <1>2
  <2>4. CASE i > k + n + 3
    <3>0. /\ i - (k + n) - 3 \in 1 .. m /\ ~(i <= k + n)
          /\ i - (k + n) \in 1 .. 3 + m /\ ~(i - (k + n) <= 3)
      BY <2>4, <1>2
    <3>1. i - (k + n) - 3 \in 1 .. m /\ t[i] = last[i - (k + n) - 3]
      BY <3>0, <1>8, <1>10
    <3>2. t[i] \in Late
      BY <3>1, <1>3
    <3>3. QED BY <2>4, <3>2, <1>2, <1>10
  <2>5. QED BY <2>1, <2>2, <2>3, <2>4, <1>2
<1>12. Ordered(script, t, n)
  <2>1. DOMAIN t = 1 .. Len(t) /\ Len(t) \in Nat
    BY <1>10
  <2>2. QED BY <1>11, <2>1 DEF Ordered, Early, Late, last, m
<1>13. Writing(t)
  <2>1. Len(t) \in 1 .. Len(t) /\ Len(t) - Len(t) = 0 /\ t # << >>
    BY <1>2, <1>10
  <2>2. t[Len(t)] \in Late \cup {"payload"}
    BY <2>1, <1>2, <1>11
  <2>3. QED BY <2>1, <2>2 DEF Writing, Late
<1>14. n + (3 + m) <= Len(t)
  BY <1>2, <1>10
<1>15. QED BY <1>2, <1>8, <1>10, <1>12, <1>13, <1>14 DEF n, t, last, m

-------------------------------------------------------------------------------
\* The facts about items and sessions outlive whatever is added to the world.
LEMMA Outlives ==
    ASSUME tree \in Seq(BlockRecord), tree' \in Seq(BlockRecord), Len(tree) <= Len(tree'),
           sessions \in Seq(Nat), sessions' = sessions \/ sessions' = Append(sessions, best)
    PROVE  /\ Len(sessions) <= Len(sessions')
           /\ \A s, b0 : Known(s, b0) => Known(s, b0)'
           /\ \A x \in Piece : \A s, b0 : Belongs(x, s, b0) => Belongs(x, s, b0)'
           /\ script' = script => \A p : \A r \in Checkpoint : Sealed(p, r) => Sealed(p, r)'
<1>1. /\ Len(sessions) <= Len(sessions')
      /\ \A s \in DOMAIN sessions : s \in DOMAIN sessions' /\ sessions[s] = sessions'[s]
  BY SMTT(30)
<1>2. ASSUME NEW s, NEW b0, Known(s, b0) PROVE Known(s, b0)'
  BY <1>1, <1>2 DEF Known
<1>3. ASSUME NEW x \in Piece, NEW s, NEW b0, Belongs(x, s, b0) PROVE Belongs(x, s, b0)'
  BY <1>3 DEF Belongs, Real, Piece
<1>4. ASSUME NEW p, NEW r \in Checkpoint, Sealed(p, r), script' = script PROVE Sealed(p, r)'
  <2>1. \A i \in DOMAIN r.blobs : r.blobs[i] \in Piece
    BY DEF Checkpoint
  <2>2. Known(r.session, r.b0)'
    BY <1>2, <1>4 DEF Sealed
  <2>3. \A i \in DOMAIN r.blobs : Belongs(r.blobs[i], r.session, r.b0)'
    BY <1>3, <1>4, <2>1, Zenon DEF Sealed
  <2>4. QED BY <1>4, <2>2, <2>3 DEF Sealed
<1>5. QED BY <1>1, <1>2, <1>3, <1>4, Zenon

LEMMA BoundsFit ==
    ASSUME script \in Scripts
    PROVE  /\ Bounds[script].ntp \in Nat /\ Bounds[script].roughtime \in Nat
           /\ Bounds[script].records \in Nat \ {0} /\ Most(script) \in Nat
           /\ Most(script) = 2 * (Bounds[script].ntp + Bounds[script].roughtime)
BY EpochAssumption DEF Most

\* No program runs, with nothing in memory.
LEMMA Idle ==
    ASSUME script \in Scripts
    PROVE  /\ NoMemory \in Memory /\ << >> \in Seq(AskSteps) /\ ~Writing(<< >>)
           /\ MemOK(NoMemory) /\ StageOK(<< >>, NoMemory)
<1>1. NoMemory \in Memory
  BY DEF NoMemory, Memory, FrameSets, Piece
<1>2. MemOK(NoMemory)
  BY BoundsFit DEF NoMemory, MemOK, Nothing
<1>3. StageOK(<< >>, NoMemory)
  BY DEF StageOK, Sensible, Signing, Range
<1>4. QED BY <1>1, <1>2, <1>3 DEF Writing

\* A step that changes what the program has in memory and before it, and no more.
LEMMA Thinks ==
    ASSUME EpochInv, UNCHANGED <<chainVars, script, photos, signed, files, racing>>,
           sessions' = sessions \/ sessions' = Append(sessions, best),
           todo' \in Seq(AskSteps), mem' \in Memory, MemOK(mem)', StageOK(todo, mem)',
           ~Writing(todo'),
           script \in Bindings /\ files.payload # 0 => Frozen \cap Range(todo') = {}
    PROVE  EpochInv'
<1>1. TypeInv'
  <2>1. tree \in Seq(BlockRecord) /\ best \in DOMAIN tree /\ sessions \in Seq(Nat)
    BY DEF EpochInv, TypeInv
  <2>2. best \in Nat
    BY <2>1
  <2>5. sessions' \in Seq(Nat)
    <3>1. Append(sessions, best) \in Seq(Nat)
      BY <2>1, <2>2, AppendProperties
    <3>2. QED BY <2>1, <3>1
  <2>3. todo' \in Seq(AskSteps \cup Files)
    BY SeqDef
  <2>4. QED BY <2>3, <2>5 DEF EpochInv, TypeInv, chainVars
<1>2. /\ Len(sessions) <= Len(sessions')
      /\ \A s, b0 : Known(s, b0) => Known(s, b0)'
      /\ \A p : \A r \in Checkpoint : Sealed(p, r) => Sealed(p, r)'
  BY <1>1, Outlives DEF EpochInv, TypeInv, chainVars
<1>same. /\ tree' = tree /\ best' = best /\ signed' = signed /\ script' = script
         /\ files' = files /\ photos' = photos /\ racing' = racing
         /\ sessions \in Seq(Nat) /\ sessions' \in Seq(Nat)
  BY <1>1 DEF EpochInv, TypeInv, chainVars
<1>3. WorldInv'
  <2>1. /\ \A s \in DOMAIN sessions : sessions[s] \in DOMAIN tree
        /\ best \in DOMAIN tree /\ TreeOK /\ Grown(tree) /\ photos.at <= Len(tree)
    BY DEF EpochInv, WorldInv, TypeInv
  <2>2. \A s \in DOMAIN sessions' : sessions'[s] \in DOMAIN tree
    <3>1. CASE sessions' = sessions
      BY <2>1, <3>1
    <3>2. CASE sessions' = Append(sessions, best)
      <4>1. best \in Nat
        BY <2>1 DEF EpochInv, TypeInv
      <4>2. /\ Len(sessions') = Len(sessions) + 1 /\ sessions'[Len(sessions) + 1] = best
            /\ \A i \in 1 .. Len(sessions) : sessions'[i] = sessions[i]
        BY <1>same, <3>2, <4>1, AppendProperties
      <4>3. \A s \in 1 .. Len(sessions) + 1 : s \in 1 .. Len(sessions) \/ s = Len(sessions) + 1
        BY <1>same
      <4>4. DOMAIN sessions' = 1 .. Len(sessions) + 1 /\ DOMAIN sessions = 1 .. Len(sessions)
        BY <1>same, <4>2
      <4>5. QED BY <2>1, <4>2, <4>3, <4>4
    <3>3. QED BY <3>1, <3>2
  <2>3. TreeOK' /\ Grown(tree)'
    BY <1>same, <2>1 DEF TreeOK, Height, Grown, IsBranch
  <2>4. QED BY <1>same, <2>1, <2>2, <2>3 DEF WorldInv
<1>4. SignedInv'
  <2>1. SUFFICES ASSUME NEW p \in DOMAIN signed PROVE Sealed(p, signed[p])'
    BY <1>same DEF SignedInv
  <2>2. PICK r \in Checkpoint : r = signed[p] /\ Sealed(p, r)
    BY DEF EpochInv, TypeInv, SignedInv
  <2>3. Sealed(p, r)'
    BY <1>2, <2>2
  <2>4. r = signed'[p]
    BY <1>same, <2>2
  <2>5. QED BY ZenonT(30), <2>3, <2>4 DEF Sealed
<1>5. FilesInv'
  <2>2. files.session \in Nat /\ files.events \in Nat /\ Len(sessions) \in Nat /\ Len(sessions') \in Nat
    BY SMTT(30), <1>same DEF EpochInv, TypeInv, Directory
  <2>3. QED BY <1>2, <1>same, <2>2 DEF EpochInv, FilesInv, Nothing
<1>6. WrittenInv'
  BY DEF WrittenInv
<1>7. PaidInv'
  BY <1>same DEF EpochInv, PaidInv
<1>8. OnceInv'
  BY <1>same DEF EpochInv, OnceInv
<1>9. QED BY <1>1, <1>3, <1>4, <1>5, <1>6, <1>7, <1>8 DEF EpochInv

\* Where a program has a step before it that is no file, it writes none.
LEMMA Asking ==
    ASSUME EpochInv, todo # << >>, Head(todo) \in AskSteps \ {"challenge", "events"}
    PROVE  ~Writing(todo)
<1>1. Len(todo) \in Nat \ {0} /\ Head(todo) = todo[1] /\ 1 \in DOMAIN todo
  BY DEF EpochInv, TypeInv
<1>2. SUFFICES ASSUME Writing(todo) PROVE FALSE
  OBVIOUS
<1>3. Ordered(script, todo, Len(signed[Len(signed)].blobs))
  BY <1>2 DEF EpochInv, WrittenInv
<1>4. script \in DOMAIN Plan
  BY ScriptsAssumption DEF EpochInv, TypeInv
<1>5. Len(Plan[script].last) \in Nat
  BY <1>4, TheFiles
<1>6. Len(signed[Len(signed)].blobs) \in Nat
  <2>1. signed \in Seq(Checkpoint) /\ signed # << >>
    BY <1>2 DEF EpochInv, TypeInv, WrittenInv
  <2>2. signed[Len(signed)] \in Checkpoint
    BY <2>1
  <2>3. QED BY <2>2 DEF Checkpoint
<1>7. todo[1] \in {"manifest", "expectation", "closed", "payload", "checkpoint", "history", "blob",
                   "b0", "session", "challenge"}
  <2> DEFINE c == 3 + Len(Plan[script].last)
             e == Len(todo) - 1
             n == Len(signed[Len(signed)].blobs)
  <2> c \in Nat /\ e \in Nat /\ n \in Nat /\ c >= 3
    BY <1>1, <1>5, <1>6
  <2> HIDE DEF c, e, n
  <2>1. \/ e < c - 3 \/ e = c - 3 \/ e = c - 2 \/ e = c - 1
        \/ (c <= e /\ e < c + n) \/ c + n <= e
    OBVIOUS
  <2>2. QED BY <1>1, <1>3, <2>1 DEF Ordered, c, e, n
<1>8. QED BY <1>1, <1>7 DEF AskSteps

\* The program ends.
LEMMA Exits ==
    ASSUME EpochInv, Exit,
           UNCHANGED <<chainVars, script, sessions, photos, signed, files, racing>>
    PROVE  EpochInv'
<1>1. script \in Scripts /\ script' = script
  BY DEF EpochInv, TypeInv
<1>2. MemOK(mem)'
  BY <1>1, BoundsFit, EpochAssumption DEF Exit, NoMemory, MemOK, Nothing, Most
<1>3. StageOK(todo, mem)'
  BY DEF Exit, StageOK, Sensible, Signing, Range
<1>4. todo' \in Seq(AskSteps) /\ mem' \in Memory /\ ~Writing(todo') /\ Range(todo') = {}
  BY <1>1, Idle DEF Exit, Range
<1>5. QED BY <1>2, <1>3, <1>4, Thinks

\* The program takes a step and goes on to the next.
LEMMA Goes ==
    ASSUME EpochInv, todo # << >>, ~Writing(todo),
           NEW m \in Memory, Go(m), MemOK(m),
           UNCHANGED <<chainVars, script, sessions, photos, signed, files, racing>>,
           Tail(todo) # << >> => StageOK(Tail(todo), m)
    PROVE  EpochInv'
<1>1. CASE Len(todo) = 1
  <2>0. todo \in Seq(AskSteps \cup Files)
    BY DEF EpochInv, TypeInv
  <2>1. Tail(todo) = << >>
    <3>1. PICK u \in Seq(AskSteps \cup Files) : u = Tail(todo) /\ Len(u) = 1 - 1
      BY <1>1, <2>0, TailFacts
    <3>2. QED BY <3>1, EmptySeq
  <2>2. QED BY <1>1, <2>1, Exits DEF Go, Exit
<1>2. CASE Len(todo) # 1
  <2>1. todo \in Seq(AskSteps) /\ Sensible(script, todo)
    <3>1. ~Writing(todo) /\ todo \in Seq(AskSteps \cup Files)
      BY DEF EpochInv, TypeInv
    <3>2. Sensible(script, todo)
      BY <3>1 DEF EpochInv, StageOK
    <3>3. \A i \in DOMAIN todo : todo[i] \in AskSteps
      BY <3>2 DEF Sensible
    <3>4. QED BY <3>1, <3>2, <3>3, SeqDef
  <2>2. /\ Tail(todo) \in Seq(AskSteps) /\ Tail(todo) # << >>
        /\ Tail(todo)[Len(Tail(todo))] = todo[Len(todo)]
        /\ Range(Tail(todo)) \subseteq Range(todo)
    <3>1. /\ Tail(todo) \in Seq(AskSteps) /\ Len(todo) \in Nat \ {0}
          /\ Len(Tail(todo)) = Len(todo) - 1 /\ Range(todo) = {Head(todo)} \cup Range(Tail(todo))
          /\ Tail(todo) # << >> => Tail(todo)[Len(Tail(todo))] = todo[Len(todo)]
      BY <2>1, TailFacts
    <3>2. Tail(todo) # << >>
      <4>1. PICK u : u = Tail(todo)
        OBVIOUS
      <4>2. Len(u) # 0
        BY <1>2, <3>1, <4>1
      <4>3. u # << >>
        BY <4>2
      <4>4. QED BY <4>1, <4>3
    <3>3. QED BY <3>1, <3>2
  <2>3. todo' = Tail(todo) /\ mem' = m
    BY <1>2 DEF Go
  <2>4. /\ script' = script /\ tree' = tree /\ sessions' = sessions /\ signed' = signed
        /\ files' = files
    BY DEF chainVars
  <2>5. MemOK(mem)'
    BY <2>3, <2>4 DEF MemOK, Known, Belongs, Real
  <2>6. StageOK(todo, mem)'
    BY <2>2, <2>3, <2>4 DEF StageOK
  <2>7. ~Writing(todo')
    BY <2>2, <2>3 DEF Writing
  <2>8. script \in Bindings /\ files.payload # 0 => Frozen \cap Range(todo') = {}
    BY <2>2, <2>3 DEF EpochInv, OnceInv
  <2>9. QED BY <2>2, <2>3, <2>5, <2>6, <2>7, <2>8, Thinks
<1>3. QED BY <1>1, <1>2

-------------------------------------------------------------------------------
\* The steps behind the one that is taken.
LEMMA Behind ==
    ASSUME EpochInv, todo # << >>, ~Writing(todo)
    PROVE  /\ Range(todo) = {Head(todo)} \cup Range(Tail(todo))
           /\ Sensible(script, todo) /\ Sensible(script, Tail(todo))
           /\ {"tip", "read"} \cap Range(Tail(todo)) = {}
           /\ Head(todo) \in {"ntp", "roughtime"} => Head(todo) \notin Range(Tail(todo))
           /\ Tail(todo) # << >> =>
                 /\ ~Writing(Tail(todo)) /\ (Signing(Tail(todo)) => Signing(todo))
                 /\ Head(todo) # "sign"
           /\ Tail(todo) # << >> /\ Signing(Tail(todo)) =>
                 /\ Head(todo) = "frames" /\ script = "g6" => "assess" \in Range(Tail(todo))
                 /\ Head(todo) = "tip" /\ script \in Bindings => "challenge" \in Range(Tail(todo))
           /\ 1 \in DOMAIN todo /\ todo[1] = Head(todo)
<1>1. ~Writing(todo) /\ todo \in Seq(AskSteps \cup Files) /\ Sensible(script, todo)
  <2>1. ~Writing(todo) /\ todo \in Seq(AskSteps \cup Files)
    BY DEF EpochInv, TypeInv
  <2>2. QED BY <2>1 DEF EpochInv, StageOK
<1> DEFINE u == Tail(todo)
<1>2. /\ Sensible(script, u) /\ {"tip", "read"} \cap Range(u) = {}
      /\ Head(todo) \in {"ntp", "roughtime"} => Head(todo) \notin Range(u)
  BY <1>1, SensibleTail
<1>3. /\ Len(todo) \in Nat \ {0} /\ Len(u) = Len(todo) - 1 /\ Head(todo) = todo[1]
      /\ \A i \in DOMAIN u : i + 1 \in DOMAIN todo /\ u[i] = todo[i + 1]
      /\ u # << >> => u[Len(u)] = todo[Len(todo)]
      /\ Range(todo) = {Head(todo)} \cup Range(u)
      /\ u \in Seq(AskSteps \cup Files)
  BY <1>1, TailFacts
<1>4. /\ u # << >> => Len(todo) # 1
      /\ DOMAIN u = 1 .. Len(todo) - 1 /\ DOMAIN todo = 1 .. Len(todo)
  <2>1. PICK v \in Seq(AskSteps \cup Files) : v = u
    BY <1>3
  <2>2. v # << >> => Len(v) \in Nat \ {0}
    BY EmptySeq
  <2>3. QED BY <1>1, <1>3, <2>1, <2>2
<1> HIDE DEF u
<1>5. u # << >> => ~Writing(u) /\ (Signing(u) => Signing(todo)) /\ Head(todo) # "sign"
  <2>1. SUFFICES ASSUME u # << >> PROVE ~Writing(u) /\ (Signing(u) => Signing(todo)) /\ Head(todo) # "sign"
    OBVIOUS
  <2>2. Head(todo) = "sign" => 1 = Len(todo)
    BY <1>1, <1>3, <1>4 DEF Sensible
  <2>3. QED BY <1>1, <1>3, <1>4, <2>1, <2>2 DEF Writing, Signing
<1>6. ASSUME u # << >>, Signing(u)
      PROVE  /\ Head(todo) = "frames" /\ script = "g6" => "assess" \in Range(u)
             /\ Head(todo) = "tip" /\ script \in Bindings => "challenge" \in Range(u)
  <2>1. Signing(todo) /\ 1 \in DOMAIN todo
    BY <1>3, <1>4, <1>5, <1>6
  <2>2. ASSUME NEW j \in DOMAIN todo, j > 1 PROVE todo[j] \in Range(u)
    <3>1. j - 1 \in DOMAIN u /\ u[j - 1] = todo[j]
      BY <1>3, <1>4, <2>2
    <3>2. QED BY <3>1 DEF Range
  <2>3. CASE Head(todo) = "frames" /\ script = "g6"
    <3>1. PICK j \in DOMAIN todo : j > 1 /\ todo[j] = "assess"
      BY <1>1, <1>3, <2>1, <2>3 DEF Sensible
    <3>2. QED BY <2>2, <2>3, <3>1
  <2>4. CASE Head(todo) = "tip" /\ script \in Bindings
    <3>1. PICK j \in DOMAIN todo : j > 1 /\ todo[j] = "challenge"
      BY <1>1, <1>3, <2>1, <2>4 DEF Sensible
    <3>2. QED BY <2>2, <2>4, <3>1
  <2>5. QED BY <2>3, <2>4
<1>7. QED BY <1>1, <1>2, <1>3, <1>4, <1>5, <1>6 DEF u

\* What is known of the program that takes such a step.
LEMMA Before ==
    ASSUME EpochInv, todo # << >>, ~Writing(todo)
    PROVE  /\ script \in Scripts /\ script \in DOMAIN Plan
           /\ mem \in Memory /\ MemOK(mem) /\ tree \in Seq(BlockRecord) /\ signed \in Seq(Checkpoint)
           /\ sessions \in Seq(Nat) /\ files \in Directory
           /\ mem.b0 <= Len(tree)
           /\ Head(todo) \in {"tip", "read"} => mem = NoMemory
           /\ "ntp" \in Range(todo) =>
                 /\ \A i \in DOMAIN mem.witnesses : mem.witnesses[i].of = "roughtime"
                 /\ Len(mem.witnesses) <= 2 * Bounds[script].roughtime
           /\ Signing(todo) =>
                 /\ \A i \in DOMAIN mem.witnesses : mem.witnesses[i].by = Len(signed) + 1
                 /\ Head(todo) \notin {"tip", "read"} => mem.session # 0
                 /\ script \in Optical /\ "frames" \notin Range(todo) => mem.last # << >>
                 /\ script \in Bindings /\ {"record", "capture"} \cap Range(todo) = {} =>
                       mem.last # << >>
                 /\ script = "g6" /\ "assess" \notin Range(todo) =>
                       mem.coded \in Declarations(mem.frames)
                 /\ /\ script \in Bindings
                    /\ Head(todo) \notin {"tip", "read"} /\ "challenge" \notin Range(todo)
                    => files.session = mem.session /\ files.b0 = mem.b0
                 /\ script \in {"satroot", "pm"} => signed = << >>
<1>1. /\ script \in Scripts /\ mem \in Memory /\ MemOK(mem) /\ tree \in Seq(BlockRecord)
      /\ signed \in Seq(Checkpoint) /\ sessions \in Seq(Nat) /\ files \in Directory
  BY DEF EpochInv, TypeInv
<1>2. script \in DOMAIN Plan
  BY <1>1, ScriptsAssumption
<1>3. mem.b0 <= Len(tree)
  <2>1. CASE Nothing(mem.session, mem.b0)
    BY <1>1, <2>1 DEF Nothing
  <2>2. CASE Known(mem.session, mem.b0)
    <3>1. mem.b0 \in DOMAIN tree
      BY <2>2 DEF Known, EpochInv, WorldInv
    <3>2. QED BY <1>1, <3>1
  <2>3. QED BY <1>1, <2>1, <2>2 DEF MemOK
<1>4. ~Writing(todo) /\ StageOK(todo, mem)
  BY DEF EpochInv
<1>5. /\ Range(todo) = {Head(todo)} \cup Range(Tail(todo))
      /\ {"tip", "read"} \cap Range(Tail(todo)) = {}
  BY Behind
<1>6. QED BY <1>1, <1>2, <1>3, <1>4, <1>5 DEF StageOK

\* An item that is taken now belongs to the session in memory.
LEMMA ItemTaken ==
    ASSUME mem \in Memory, mem.b0 <= Len(tree), tree \in Seq(BlockRecord),
           NEW of \in Sources, NEW n \in Nat, NEW by \in Nat, NEW at \in Nat, at <= Len(tree),
           NEW frames \in FrameSets, at = Len(tree) \/ of \in {"capture", "camera"}
    PROVE  LET x == Item(of, n, by, at, frames)
           IN  /\ x \in Piece /\ Belongs(x, mem.session, mem.b0)
               /\ x.of = of /\ x.n = n /\ x.by = by /\ x.frames = frames
<1>1. mem.session \in Nat /\ mem.b0 \in Nat
  BY DEF Memory
<1>2. QED BY <1>1 DEF Item, Piece, Belongs, Real

\* k witnesses that completed leave two items each, numbered and of this run.
LEMMA WitnessesTaken ==
    ASSUME mem \in Memory, mem.b0 <= Len(tree), tree \in Seq(BlockRecord),
           signed \in Seq(Checkpoint), NEW of \in {"ntp", "roughtime"}, NEW k \in Nat
    PROVE  LET w == Witnesses(of, k)
           IN  /\ w \in Seq(Piece) /\ Len(w) = 2 * k /\ Len(w) \in Nat
               /\ \A i \in DOMAIN w :
                     /\ Belongs(w[i], mem.session, mem.b0)
                     /\ w[i].of = of /\ w[i].n = i /\ w[i].by = Len(signed) + 1
<1>1. ASSUME NEW i \in 1 .. 2 * k
      PROVE  LET x == Item(of, i, Len(signed) + 1, Len(tree), {})
             IN  /\ x \in Piece /\ Belongs(x, mem.session, mem.b0)
                 /\ x.of = of /\ x.n = i /\ x.by = Len(signed) + 1
  BY ItemTaken DEF Sources, FrameSets
<1>2. 2 * k \in Nat
  OBVIOUS
<1> DEFINE w == Witnesses(of, k)
<1>3. w = [i \in 1 .. 2 * k |-> Item(of, i, Len(signed) + 1, Len(tree), {})]
  BY DEF Witnesses
<1> HIDE DEF w
<1>4. w \in [1 .. 2 * k -> Piece]
  BY <1>1, <1>3
<1>5. w \in Seq(Piece) /\ Len(w) = 2 * k
  BY <1>2, <1>4
<1>6. \A i \in DOMAIN w : w[i] = Item(of, i, Len(signed) + 1, Len(tree), {}) /\ i \in 1 .. 2 * k
  BY <1>3
<1>7. QED BY <1>1, <1>2, <1>5, <1>6 DEF w

LEMMA AskRoughtimeKeeps == EpochInv /\ AskRoughtime => EpochInv'
<1> SUFFICES ASSUME EpochInv, AskRoughtime PROVE EpochInv'
  OBVIOUS
<1>1. PICK k \in 0 .. Bounds[script].roughtime :
         Go([mem EXCEPT !.witnesses = Witnesses("roughtime", k)])
  BY DEF AskRoughtime
<1>2. /\ todo # << >> /\ Head(todo) = "roughtime"
      /\ ~Writing(todo)
      /\ UNCHANGED <<chainVars, script, sessions, photos, signed, files, racing>>
  BY Asking DEF AskRoughtime, Step, AskSteps, InMemory
<1>3. k \in Nat /\ k <= Bounds[script].roughtime /\ Bounds[script].roughtime \in Nat
  BY <1>2, Before, BoundsFit
<1>4. /\ mem \in Memory /\ MemOK(mem) /\ mem.b0 <= Len(tree) /\ tree \in Seq(BlockRecord)
      /\ signed \in Seq(Checkpoint)
  BY <1>2, Before
<1> DEFINE w == Witnesses("roughtime", k)
           m == [mem EXCEPT !.witnesses = w]
<1>5. /\ w \in Seq(Piece) /\ Len(w) = 2 * k
      /\ \A i \in DOMAIN w :
            /\ Belongs(w[i], mem.session, mem.b0)
            /\ w[i].of = "roughtime" /\ w[i].n = i /\ w[i].by = Len(signed) + 1
  BY <1>3, <1>4, WitnessesTaken
<1> HIDE DEF w
<1>6. /\ m \in Memory /\ m.witnesses = w /\ m.session = mem.session /\ m.b0 = mem.b0
      /\ m.last = mem.last /\ m.frames = mem.frames /\ m.coded = mem.coded
  BY <1>4, <1>5 DEF Memory
<1> HIDE DEF m
<1>7. MemOK(m)
  <2>1. Len(w) <= Most(script) /\ Len(w) % 2 = 0
    BY SMTT(30), <1>2, <1>3, <1>5, Before, BoundsFit
  <2>2. \A i, j \in DOMAIN w : w[i] = w[j] => i = j
    BY <1>5
  <2>3. MemOK(mem)
    BY <1>4
  <2>4. \A i \in DOMAIN w : Belongs(w[i], mem.session, mem.b0) /\ w[i].of \in {"ntp", "roughtime"}
    BY <1>5
  <2>5. QED BY <1>6, <2>1, <2>2, <2>3, <2>4 DEF MemOK
<1>8. Tail(todo) # << >> => StageOK(Tail(todo), m)
  <2>1. 2 * k <= 2 * Bounds[script].roughtime
    BY <1>3
  <2>2. QED BY <1>2, <1>5, <1>6, <2>1, Behind, Before DEF StageOK
<1>9. QED BY <1>1, <1>2, <1>6, <1>7, <1>8, Goes DEF m, w

LEMMA StillEven ==
    ASSUME NEW x \in Nat, NEW k \in Nat, x % 2 = 0
    PROVE  (x + 2 * k) % 2 = 0
<1>1. x = 2 * (x \div 2) /\ x \div 2 \in Nat
  OBVIOUS
<1>2. ASSUME NEW h \in Nat PROVE (2 * h) % 2 = 0
  OBVIOUS
<1>3. x + 2 * k = 2 * (x \div 2 + k) /\ x \div 2 + k \in Nat
  BY <1>1
<1>4. QED BY <1>2, <1>3

\* The witnesses are asked once, before or after those of the other protocol.
LEMMA AskNtpKeeps == EpochInv /\ AskNtp => EpochInv'
<1> SUFFICES ASSUME EpochInv, AskNtp PROVE EpochInv'
  OBVIOUS
<1>2. /\ todo # << >> /\ Head(todo) = "ntp" /\ ~Writing(todo)
      /\ UNCHANGED <<chainVars, script, sessions, photos, signed, files, racing>>
  BY Asking DEF AskNtp, Step, AskSteps, InMemory
<1>1. \/ \E k \in 0 .. Bounds[script].ntp :
            Go([mem EXCEPT !.witnesses = mem.witnesses \o Witnesses("ntp", k)])
      \/ Exit
  BY DEF AskNtp
<1>exit. CASE Exit
  BY <1>2, <1>exit, Exits
<1>goes. ASSUME NEW k \in 0 .. Bounds[script].ntp,
                Go([mem EXCEPT !.witnesses = mem.witnesses \o Witnesses("ntp", k)])
         PROVE  EpochInv'
  <2>3. k \in Nat /\ k <= Bounds[script].ntp /\ Bounds[script].ntp \in Nat
    BY <1>2, Before, BoundsFit
  <2>1. mem.b0 <= Len(tree) /\ tree \in Seq(BlockRecord) /\ signed \in Seq(Checkpoint)
    BY <1>2, Before
  <2>4. /\ mem \in Memory /\ MemOK(mem) /\ mem.witnesses \in Seq(Piece)
        /\ \A i \in DOMAIN mem.witnesses : mem.witnesses[i].of = "roughtime"
        /\ Len(mem.witnesses) <= 2 * Bounds[script].roughtime
    BY <1>2, Before, Behind DEF Memory
  <2> DEFINE w == Witnesses("ntp", k)
             v == mem.witnesses
             a == v \o w
             m == [mem EXCEPT !.witnesses = a]
  <2>5. /\ w \in Seq(Piece) /\ Len(w) = 2 * k
        /\ \A i \in DOMAIN w :
              /\ Belongs(w[i], mem.session, mem.b0)
              /\ w[i].of = "ntp" /\ w[i].n = i /\ w[i].by = Len(signed) + 1
    BY <2>1, <2>3, <2>4, WitnessesTaken
  <2>m. Go(m)
    BY <1>goes
  <2>v. v \in Seq(Piece)
    BY <2>4
  <2> HIDE DEF w, v
  <2>6. /\ a \in Seq(Piece) /\ Len(a) = Len(v) + Len(w)
        /\ \A i \in 1 .. Len(v) + Len(w) : a[i] = IF i <= Len(v) THEN v[i] ELSE w[i - Len(v)]
    BY <2>v, <2>5, ConcatProperties
  <2> HIDE DEF a
  <2>7. /\ m \in Memory /\ m.witnesses = a /\ m.session = mem.session /\ m.b0 = mem.b0
        /\ m.last = mem.last /\ m.frames = mem.frames /\ m.coded = mem.coded
    BY <2>4, <2>6 DEF Memory
  <2>same. v = mem.witnesses
    BY DEF v
  <2> HIDE DEF m
  <2>8. /\ \A i \in DOMAIN v : Belongs(v[i], mem.session, mem.b0)
        /\ \A i, j \in DOMAIN v : v[i] = v[j] => i = j
        /\ Len(v) % 2 = 0
        /\ \A i \in DOMAIN v : v[i].of = "roughtime"
        /\ Len(v) <= 2 * Bounds[script].roughtime
    BY <2>4 DEF MemOK, v
  <2>9. \A i \in DOMAIN a :
           \/ i \in DOMAIN v /\ a[i] = v[i] /\ a[i].of = "roughtime"
           \/ i - Len(v) \in DOMAIN w /\ a[i] = w[i - Len(v)] /\ a[i].of = "ntp" /\ a[i].n = i - Len(v)
    <3>1. SUFFICES ASSUME NEW i \in DOMAIN a
                   PROVE  \/ i \in DOMAIN v /\ a[i] = v[i] /\ a[i].of = "roughtime"
                          \/ /\ i - Len(v) \in DOMAIN w /\ a[i] = w[i - Len(v)]
                             /\ a[i].of = "ntp" /\ a[i].n = i - Len(v)
      OBVIOUS
    <3>2. /\ i \in 1 .. Len(v) + Len(w) /\ Len(v) \in Nat /\ Len(w) \in Nat
          /\ DOMAIN v = 1 .. Len(v) /\ DOMAIN w = 1 .. Len(w)
      BY <2>v, <2>5, <2>6
    <3>3. CASE i <= Len(v)
      <4>1. i \in DOMAIN v /\ a[i] = v[i]
        BY <2>6, <3>2, <3>3
      <4>2. QED BY <2>8, <4>1
    <3>4. CASE ~(i <= Len(v))
      <4>1. i - Len(v) \in DOMAIN w /\ a[i] = w[i - Len(v)]
        BY <2>6, <3>2, <3>4
      <4>2. QED BY <2>5, <4>1
    <3>5. QED BY <3>3, <3>4
  <2>10. Len(v) \in Nat /\ \A i \in DOMAIN a : i \in Nat
    BY <2>6, <2>v
  <2>11. MemOK(m)
    <3>1. Len(a) <= Most(script) /\ Len(a) % 2 = 0
      <4>1. Len(a) = Len(v) + 2 * k /\ Len(v) % 2 = 0 /\ Len(v) \in Nat
        BY <2>5, <2>6, <2>8, <2>10
      <4>2. (Len(v) + 2 * k) % 2 = 0
        BY <4>1, <2>3, StillEven
      <4>b. /\ Bounds[script].roughtime \in Nat
            /\ Most(script) = 2 * (Bounds[script].ntp + Bounds[script].roughtime)
        BY <1>2, Before, BoundsFit
      <4>3. Len(a) <= Most(script)
        BY <4>1, <4>b, <2>3, <2>8
      <4>4. QED BY <4>1, <4>2, <4>3
    <3>2. \A i, j \in DOMAIN a : a[i] = a[j] => i = j
      <4>1. SUFFICES ASSUME NEW i \in DOMAIN a, NEW j \in DOMAIN a, a[i] = a[j] PROVE i = j
        OBVIOUS
      <4>2. CASE a[i].of = "roughtime"
        BY <2>8, <2>9, <4>1, <4>2
      <4>3. CASE a[i].of = "ntp"
        BY <2>9, <2>10, <4>1, <4>3
      <4>4. QED BY <2>9, <4>2, <4>3
    <3>3. \A i \in DOMAIN a :
             Belongs(a[i], mem.session, mem.b0) /\ a[i].of \in {"ntp", "roughtime"}
      BY <2>5, <2>8, <2>9
    <3>4. QED BY <2>4, <2>7, <3>1, <3>2, <3>3 DEF MemOK
  <2>12. Tail(todo) # << >> => StageOK(Tail(todo), m)
    <3>1. Signing(todo) => \A i \in DOMAIN a : a[i].by = Len(signed) + 1
      <4>1. Signing(todo) => \A i \in DOMAIN v : v[i].by = Len(signed) + 1
        BY <1>2, Before DEF v
      <4>2. QED BY <2>5, <2>9, <4>1
    <3>2. QED BY <1>2, <2>7, <3>1, Behind, Before DEF StageOK
  <2>13. QED BY <1>2, <2>m, <2>7, <2>11, <2>12, Goes
<1>3. QED BY <1>1, <1>exit, <1>goes

\* What another system's record, a capture and the camera have in common.
Taken(s) == CASE s = "record" -> "external" [] s = "capture" -> "capture" [] s = "frames" -> "camera"

\* As many records as naxytra was given, of the session in memory.
LEMMA Records ==
    ASSUME EpochInv, todo # << >>, Head(todo) \in {"record", "capture", "frames"},
           NEW last \in Seq(Piece), NEW frames \in FrameSets,
           Go([mem EXCEPT !.last = last, !.frames = frames]),
           Head(todo) = "frames" => frames # {} /\ \A i \in DOMAIN last : last[i].frames = frames,
           last # << >>, Len(last) <= (IF script = "naxytra" THEN Bounds[script].records ELSE 1),
           \A i \in DOMAIN last :
              Belongs(last[i], mem.session, mem.b0) /\ last[i].of = Taken(Head(todo)),
           UNCHANGED <<chainVars, script, sessions, photos, signed, files, racing>>
    PROVE  EpochInv'
<1> DEFINE m == [mem EXCEPT !.last = last, !.frames = frames]
<1>1. ~Writing(todo)
  BY Asking DEF AskSteps
<1>2. Go(m)
  OBVIOUS
<1>3. mem \in Memory /\ MemOK(mem)
  BY <1>1, Before
<1>4. /\ m \in Memory /\ m.witnesses = mem.witnesses /\ m.session = mem.session /\ m.b0 = mem.b0
      /\ m.last = last /\ m.frames = frames /\ m.coded = mem.coded
  BY <1>3 DEF Memory
<1> HIDE DEF m
<1>5. /\ Head(todo) = "frames" => script \in Optical
      /\ Head(todo) = "record" => script \in Bindings \ {"galileo"}
      /\ Head(todo) = "capture" => script = "galileo"
  BY <1>1, Behind DEF Sensible
<1>6. /\ Taken(Head(todo)) \in Rest(script) /\ (script \in Optical <=> Head(todo) = "frames")
      /\ Head(todo) = "frames" => Taken(Head(todo)) = "camera"
  BY <1>5 DEF Taken, Rest, Optical, Bindings
<1>7. MemOK(m)
  BY <1>3, <1>4, <1>6 DEF MemOK
<1>8. Tail(todo) # << >> => StageOK(Tail(todo), m)
  <2>1. /\ Range(todo) = {Head(todo)} \cup Range(Tail(todo)) /\ Sensible(script, Tail(todo))
        /\ {"tip", "read"} \cap Range(Tail(todo)) = {}
        /\ Tail(todo) # << >> => (Signing(Tail(todo)) => Signing(todo))
        /\ Tail(todo) # << >> /\ Signing(Tail(todo)) =>
              (Head(todo) = "frames" /\ script = "g6" => "assess" \in Range(Tail(todo)))
    BY <1>1, Behind
  <2>2. Signing(Tail(todo)) /\ Tail(todo) # << >> /\ script = "g6" /\ "assess" \notin Range(Tail(todo)) =>
           FALSE
    BY <1>5, <1>6, <2>1 DEF Optical
  <2>3. QED BY <1>1, <1>4, <2>1, <2>2, Before DEF StageOK
<1>9. QED BY <1>1, <1>2, <1>4, <1>7, <1>8, Goes

LEMMA MakeRecordKeeps == EpochInv /\ MakeRecord => EpochInv'
<1> SUFFICES ASSUME EpochInv, MakeRecord PROVE EpochInv'
  OBVIOUS
<1>1. /\ todo # << >> /\ Head(todo) = "record" /\ ~Writing(todo)
      /\ UNCHANGED <<chainVars, script, sessions, photos, signed, files, racing>>
  BY Asking DEF MakeRecord, Step, AskSteps, InMemory
<1>2. \/ \E k \in IF script = "naxytra" THEN 1 .. Bounds[script].records ELSE {1} :
            Go([mem EXCEPT !.last = [n \in 1 .. k |-> Item("external", n, 0, Len(tree), {})]])
      \/ Exit
  BY DEF MakeRecord
<1>exit. CASE Exit
  BY <1>1, <1>exit, Exits
<1>goes. ASSUME NEW k \in IF script = "naxytra" THEN 1 .. Bounds[script].records ELSE {1},
                Go([mem EXCEPT !.last = [n \in 1 .. k |-> Item("external", n, 0, Len(tree), {})]])
         PROVE  EpochInv'
  <2>1. /\ k \in Nat \ {0} /\ Bounds[script].records \in Nat
        /\ k <= (IF script = "naxytra" THEN Bounds[script].records ELSE 1)
    BY <1>1, Before, BoundsFit
  <2>2. mem \in Memory /\ mem.b0 <= Len(tree) /\ tree \in Seq(BlockRecord) /\ Len(tree) \in Nat
    BY <1>1, Before
  <2> DEFINE last == [n \in 1 .. k |-> Item("external", n, 0, Len(tree), {})]
  <2>3. ASSUME NEW n \in 1 .. k
        PROVE  LET x == Item("external", n, 0, Len(tree), {})
               IN  x \in Piece /\ Belongs(x, mem.session, mem.b0) /\ x.of = "external"
    <3>1. "external" \in Sources /\ {} \in FrameSets /\ n \in Nat /\ Len(tree) <= Len(tree)
      BY <2>1, <2>2 DEF Sources, FrameSets
    <3>2. QED BY <2>2, <3>1, ItemTaken
  <2>4. /\ last \in Seq(Piece) /\ Len(last) = k /\ last # << >>
        /\ \A i \in DOMAIN last : Belongs(last[i], mem.session, mem.b0) /\ last[i].of = "external"
    <3>1. last \in [1 .. k -> Piece] /\ \A i \in DOMAIN last : last[i] = Item("external", i, 0, Len(tree), {})
      BY <2>3
    <3>2. last \in Seq(Piece) /\ Len(last) = k
      BY <2>1, <3>1
    <3> HIDE DEF last
    <3>3. last # << >>
      BY <2>1, <3>2
    <3>4. DOMAIN last = 1 .. k
      BY <3>2
    <3>5. QED BY <2>3, <3>1, <3>2, <3>3, <3>4
  <2>5. mem.frames \in FrameSets /\ [mem EXCEPT !.last = last] = [mem EXCEPT !.last = last, !.frames = mem.frames]
    BY <2>2 DEF Memory
  <2>6. Go([mem EXCEPT !.last = last, !.frames = mem.frames])
    BY <1>goes, <2>5
  <2> HIDE DEF last
  <2>7. Taken(Head(todo)) = "external"
    BY <1>1 DEF Taken
  <2>8. QED BY <1>1, <2>1, <2>4, <2>5, <2>6, <2>7, Records
<1>3. QED BY <1>2, <1>exit, <1>goes

LEMMA ReadCaptureKeeps == EpochInv /\ ReadCapture => EpochInv'
<1> SUFFICES ASSUME EpochInv, ReadCapture PROVE EpochInv'
  OBVIOUS
<1>1. /\ todo # << >> /\ Head(todo) = "capture" /\ ~Writing(todo)
      /\ UNCHANGED <<chainVars, script, sessions, photos, signed, files, racing>>
  BY Asking DEF ReadCapture, Step, AskSteps, InMemory
<1>2. PICK at \in DOMAIN tree : Go([mem EXCEPT !.last = <<Item("capture", 1, 0, at, {})>>])
  BY DEF ReadCapture
<1>3. /\ mem \in Memory /\ mem.b0 <= Len(tree) /\ tree \in Seq(BlockRecord)
      /\ 1 <= (IF script = "naxytra" THEN Bounds[script].records ELSE 1)
  BY <1>1, Before, BoundsFit
<1>4. at \in Nat /\ at <= Len(tree)
  BY <1>3
<1> DEFINE x == Item("capture", 1, 0, at, {})
           last == <<x>>
<1>5. x \in Piece /\ Belongs(x, mem.session, mem.b0) /\ x.of = "capture"
  BY <1>3, <1>4, ItemTaken DEF Sources, FrameSets
<1>6. mem.frames \in FrameSets /\ [mem EXCEPT !.last = last] = [mem EXCEPT !.last = last, !.frames = mem.frames]
  BY <1>3 DEF Memory
<1>7. Go([mem EXCEPT !.last = last, !.frames = mem.frames])
  BY <1>2, <1>6
<1> HIDE DEF x
<1>8. /\ last \in Seq(Piece) /\ Len(last) = 1 /\ last # << >>
      /\ \A i \in DOMAIN last : last[i] = x
  BY <1>5
<1> HIDE DEF last
<1>9. Taken(Head(todo)) = "capture"
  BY <1>1 DEF Taken
<1>10. QED BY <1>1, <1>3, <1>5, <1>6, <1>7, <1>8, <1>9, Records

LEMMA HashFramesKeeps == EpochInv /\ HashFrames => EpochInv'
<1> SUFFICES ASSUME EpochInv, HashFrames PROVE EpochInv'
  OBVIOUS
<1>1. /\ todo # << >> /\ Head(todo) = "frames" /\ ~Writing(todo)
      /\ UNCHANGED <<chainVars, script, sessions, photos, signed, files, racing>>
      /\ photos.frames # {}
  BY Asking DEF HashFrames, Step, AskSteps, InMemory
<1> DEFINE x == Item("camera", 1, 0, photos.at, photos.frames)
           last == <<x>>
<1>2. Go([mem EXCEPT !.frames = photos.frames, !.last = last])
  BY DEF HashFrames
<1>3. /\ mem \in Memory /\ mem.b0 <= Len(tree) /\ tree \in Seq(BlockRecord)
      /\ 1 <= (IF script = "naxytra" THEN Bounds[script].records ELSE 1)
  BY <1>1, Before, BoundsFit
<1>4. photos.at \in Nat /\ photos.at <= Len(tree) /\ photos.frames \in FrameSets
  BY DEF EpochInv, TypeInv, WorldInv
<1>5. x \in Piece /\ Belongs(x, mem.session, mem.b0) /\ x.of = "camera" /\ x.frames = photos.frames
  <2>1. "camera" \in Sources /\ "camera" \in {"capture", "camera"} /\ 1 \in Nat /\ 0 \in Nat
    BY DEF Sources
  <2>2. QED BY <1>3, <1>4, <2>1, ItemTaken
<1>6. Go([mem EXCEPT !.last = last, !.frames = photos.frames])
  <2>1. [mem EXCEPT !.frames = photos.frames, !.last = last] = [mem EXCEPT !.last = last, !.frames = photos.frames]
    BY <1>3 DEF Memory
  <2>2. QED BY <1>2, <2>1
<1> HIDE DEF x
<1>7. /\ last \in Seq(Piece) /\ Len(last) = 1 /\ last # << >>
      /\ \A i \in DOMAIN last : last[i] = x
  BY <1>5
<1> HIDE DEF last
<1>8. Taken(Head(todo)) = "camera"
  BY <1>1 DEF Taken
<1>9. QED BY <1>1, <1>3, <1>4, <1>5, <1>6, <1>7, <1>8, Records

LEMMA AssessKeeps == EpochInv /\ Assess => EpochInv'
<1> SUFFICES ASSUME EpochInv, Assess PROVE EpochInv'
  OBVIOUS
<1>1. /\ todo # << >> /\ Head(todo) = "assess" /\ ~Writing(todo)
      /\ UNCHANGED <<chainVars, script, sessions, photos, signed, files, racing>>
  BY Asking DEF Assess, Step, AskSteps, InMemory
<1>2. \/ \E coded \in Declarations(mem.frames) : Go([mem EXCEPT !.coded = coded])
      \/ Exit
  BY DEF Assess
<1>exit. CASE Exit
  BY <1>1, <1>exit, Exits
<1>goes. ASSUME NEW coded \in Declarations(mem.frames), Go([mem EXCEPT !.coded = coded])
         PROVE  EpochInv'
  <2> DEFINE m == [mem EXCEPT !.coded = coded]
  <2>1. mem \in Memory /\ MemOK(mem)
    BY <1>1, Before
  <2>2. coded \in SUBSET UNION Series
    BY <2>1 DEF Declarations, Memory, FrameSets
  <2>3. /\ m \in Memory /\ m.witnesses = mem.witnesses /\ m.session = mem.session /\ m.b0 = mem.b0
        /\ m.last = mem.last /\ m.frames = mem.frames /\ m.coded = coded
    BY <2>1, <2>2 DEF Memory
  <2>4. Go(m)
    BY <1>goes
  <2> HIDE DEF m
  <2>5. MemOK(m)
    BY <2>1, <2>3 DEF MemOK
  <2>6. Tail(todo) # << >> => StageOK(Tail(todo), m)
    <3>1. m.coded \in Declarations(m.frames)
      BY <2>3
    <3>2. QED BY <1>1, <2>3, <3>1, Behind, Before DEF StageOK
  <2>7. QED BY <1>1, <2>3, <2>4, <2>5, <2>6, Goes
<1>3. QED BY <1>2, <1>exit, <1>goes

LEMMA ReadChallengeKeeps == EpochInv /\ ReadChallenge => EpochInv'
<1> SUFFICES ASSUME EpochInv, ReadChallenge PROVE EpochInv'
  OBVIOUS
<1>1. /\ todo # << >> /\ Head(todo) = "read" /\ ~Writing(todo)
      /\ UNCHANGED <<chainVars, script, sessions, photos, signed, files, racing>>
      /\ files.session # 0
  BY Asking DEF ReadChallenge, Step, AskSteps, InMemory
<1> DEFINE m == [mem EXCEPT !.session = files.session, !.b0 = files.b0]
<1>2. Go(m)
  BY DEF ReadChallenge
<1>3. /\ mem \in Memory /\ mem = NoMemory /\ files \in Directory /\ script \in Scripts
      /\ Signing(todo) /\ script \in {"satroot", "pm"} => signed = << >>
  BY <1>1, Before
<1>4. /\ m \in Memory /\ m.witnesses = << >> /\ m.session = files.session /\ m.b0 = files.b0
      /\ m.last = << >> /\ m.frames = mem.frames /\ m.coded = mem.coded
  BY <1>3 DEF Memory, NoMemory, Directory
<1> HIDE DEF m
<1>5. Known(files.session, files.b0)
  <2>1. script \in Opened
    BY <1>1, Behind DEF Sensible
  <2>2. script # "sandwich"
    BY <2>1 DEF Opened
  <2>3. QED BY <1>1, <2>2 DEF EpochInv, FilesInv, Nothing
<1>6. MemOK(m)
  BY <1>3, <1>4, <1>5, BoundsFit DEF MemOK
<1>7. Tail(todo) # << >> => StageOK(Tail(todo), m)
  <2>1. \A i \in DOMAIN m.witnesses : FALSE
    BY <1>4
  <2>2. Len(m.witnesses) <= 2 * Bounds[script].roughtime
    BY <1>3, <1>4, BoundsFit
  <2>3. Signing(todo) =>
           /\ script \in Optical => "frames" \in Range(todo)
           /\ script \in Bindings => {"record", "capture"} \cap Range(todo) # {}
           /\ script = "g6" => "assess" \in Range(todo)
    BY <1>1, <1>3, Before DEF NoMemory, Declarations
  <2>4. QED BY <1>1, <1>3, <1>4, <2>1, <2>2, <2>3, Behind DEF StageOK
<1>8. QED BY <1>1, <1>2, <1>4, <1>6, <1>7, Goes

\* A session is fixed: its B0 is the tip, and it is the last there is.
LEMMA FetchTipKeeps == EpochInv /\ FetchTip => EpochInv'
<1> SUFFICES ASSUME EpochInv, FetchTip PROVE EpochInv'
  OBVIOUS
<1>1. /\ todo # << >> /\ Head(todo) = "tip" /\ ~Writing(todo)
      /\ UNCHANGED <<chainVars, script, photos, signed, files, racing>>
      /\ sessions' = Append(sessions, best)
  BY Asking DEF FetchTip, Step, AskSteps, InMemory
<1> DEFINE m == [mem EXCEPT !.session = Len(sessions'), !.b0 = best]
<1>2. Go(m)
  BY DEF FetchTip
<1>3. /\ mem \in Memory /\ mem = NoMemory /\ script \in Scripts /\ sessions \in Seq(Nat)
      /\ tree \in Seq(BlockRecord)
      /\ Signing(todo) /\ script \in {"satroot", "pm"} => signed = << >>
  BY <1>1, Before
<1>4. best \in Nat /\ best \in DOMAIN tree
  BY <1>3 DEF EpochInv, TypeInv
<1>5. /\ sessions' \in Seq(Nat) /\ Len(sessions') = Len(sessions) + 1
      /\ Len(sessions') \in Nat \ {0} /\ sessions'[Len(sessions')] = best
  BY <1>1, <1>3, <1>4, AppendProperties
<1>6. /\ m \in Memory /\ m.witnesses = << >> /\ m.session = Len(sessions') /\ m.b0 = best
      /\ m.last = << >> /\ m.frames = {} /\ m.coded = {}
  BY <1>3, <1>4, <1>5 DEF Memory, NoMemory
<1> HIDE DEF m
<1>7. todo' = Tail(todo) /\ mem' = IF Len(todo) = 1 THEN NoMemory ELSE m
  BY <1>2 DEF Go
<1>8. MemOK(mem)'
  <2>1. Bounds[script].records \in Nat \ {0} /\ Most(script) \in Nat /\ script' = script
    BY <1>1, <1>3, BoundsFit
  <2>2. \/ Nothing(mem'.session, mem'.b0)
        \/ mem'.session \in DOMAIN sessions' /\ mem'.b0 = sessions'[mem'.session]
    BY <1>5, <1>6, <1>7 DEF NoMemory, Nothing
  <2>3. mem'.witnesses = << >> /\ mem'.last = << >>
    BY <1>6, <1>7 DEF NoMemory
  <2>4. Len(<< >>) <= Most(script) /\ Len(<< >>) % 2 = 0
        /\ Len(<< >>) <= (IF script = "naxytra" THEN Bounds[script].records ELSE 1)
    BY <2>1
  <2>5. Most(script') = Most(script) /\ DOMAIN << >> = {}
    BY <2>1
  <2>6. QED BY <2>1, <2>2, <2>3, <2>4, <2>5 DEF MemOK, Known
<1>9. CASE Tail(todo) = << >>
  <2>1. mem' = NoMemory
    <3>1. todo \in Seq(AskSteps \cup Files)
      BY DEF EpochInv, TypeInv
    <3>2. PICK u : u = Tail(todo) /\ Len(u) = Len(todo) - 1 /\ Len(todo) \in Nat
      BY <1>1, <3>1, TailFacts
    <3>3. Len(u) = 0
      BY <1>9, <3>2
    <3>4. QED BY <1>7, <3>2, <3>3
  <2>2. StageOK(todo, mem)'
    BY <1>7, <1>9 DEF StageOK, Sensible, Signing, Range
  <2>3. /\ todo' \in Seq(AskSteps) /\ mem' \in Memory /\ ~Writing(todo') /\ Range(todo') = {}
    <3>1. NoMemory \in Memory /\ << >> \in Seq(AskSteps) /\ ~Writing(<< >>) /\ Range(<< >>) = {}
      BY <1>3, Idle DEF Range
    <3>2. todo' = << >>
      BY <1>7, <1>9
    <3>3. QED BY <2>1, <3>1, <3>2
  <2>4. QED BY <1>1, <1>8, <2>2, <2>3, Thinks
<1>10. CASE Tail(todo) # << >>
  <2>1. mem' = m
    <3>1. todo \in Seq(AskSteps \cup Files)
      BY DEF EpochInv, TypeInv
    <3>2. PICK u \in Seq(AskSteps \cup Files) :
             u = Tail(todo) /\ Len(u) = Len(todo) - 1 /\ Len(todo) \in Nat
      BY <1>1, <3>1, TailFacts
    <3>3. Len(u) \in Nat \ {0}
      BY <1>10, <3>2, EmptySeq
    <3>4. QED BY <1>7, <3>2, <3>3
  <2>2. /\ Range(todo) = {"tip"} \cup Range(Tail(todo)) /\ Sensible(script, Tail(todo))
        /\ {"tip", "read"} \cap Range(Tail(todo)) = {}
        /\ ~Writing(Tail(todo)) /\ (Signing(Tail(todo)) => Signing(todo))
        /\ (Signing(Tail(todo)) /\ script \in Bindings => "challenge" \in Range(Tail(todo)))
    BY <1>1, <1>10, Behind
  <2>3. StageOK(todo, mem)'
    <3>1. script' = script /\ signed' = signed /\ files' = files
      BY <1>1
    <3>2. Len(m.witnesses) <= 2 * Bounds[script].roughtime /\ \A i \in DOMAIN m.witnesses : FALSE
      BY <1>3, <1>6, BoundsFit
    <3>3. Signing(todo) =>
             /\ script \in Optical => "frames" \in Range(todo)
             /\ script \in Bindings => {"record", "capture"} \cap Range(todo) # {}
             /\ script = "g6" => "assess" \in Range(todo)
      BY <1>1, <1>3, Before DEF NoMemory, Declarations
    <3>4. QED BY <1>3, <1>5, <1>6, <1>7, <2>1, <2>2, <3>1, <3>2, <3>3 DEF StageOK
  <2>4. todo' \in Seq(AskSteps)
    <3>1. Tail(todo) \in Seq(AskSteps \cup Files)
      BY <1>1, TailFacts DEF EpochInv, TypeInv
    <3>2. \A i \in DOMAIN Tail(todo) : Tail(todo)[i] \in AskSteps
      BY <2>2 DEF Sensible
    <3>3. PICK u : u = Tail(todo)
      OBVIOUS
    <3>4. u \in Seq(AskSteps)
      <4>1. u \in Seq(AskSteps \cup Files) /\ \A i \in DOMAIN u : u[i] \in AskSteps
        BY <3>1, <3>2, <3>3
      <4>2. u \in [1 .. Len(u) -> AskSteps] /\ Len(u) \in Nat
        BY <4>1
      <4>3. QED BY <4>2
    <3>5. QED BY <1>7, <3>3, <3>4
  <2>5. script \in Bindings /\ files.payload # 0 => Frozen \cap Range(todo') = {}
    BY <1>7, <2>2 DEF EpochInv, OnceInv
  <2>6. QED BY <1>1, <1>6, <1>7, <1>8, <2>1, <2>2, <2>3, <2>4, <2>5, Thinks
<1>11. QED BY <1>9, <1>10

\* The programs that open a session, and the rehearsals.
LEMMA TheOthers ==
    /\ Opener \in Seq(AskSteps) /\ \A s \in Opened : Sensible(s, Opener)
    /\ ~Signing(Opener) /\ ~Writing(Opener)
    /\ "ntp" \notin Range(Opener)
    /\ \A s \in DOMAIN Rehearsal :
          /\ Rehearsal[s] \in Seq(AskSteps) /\ Sensible(s, Rehearsal[s])
          /\ ~Signing(Rehearsal[s]) /\ ~Writing(Rehearsal[s])
          /\ Frozen \cap Range(Rehearsal[s]) = {} /\ "ntp" \notin Range(Rehearsal[s])
<1> DEFINE Good(s, t) ==
      /\ t \in Seq(AskSteps) /\ Sensible(s, t) /\ ~Signing(t) /\ ~Writing(t)
      /\ Frozen \cap Range(t) = {} /\ "ntp" \notin Range(t)
<1>1. PICK t : t = Opener
  OBVIOUS
<1>2. t = <<"tip", "challenge">>
  BY <1>1 DEF Opener
<1>3. /\ t \in Seq(AskSteps) /\ ~Signing(t) /\ ~Writing(t) /\ "ntp" \notin Range(t)
      /\ \A s \in Opened : Sensible(s, t)
  BY <1>2 DEF AskSteps, Signing, Writing, Sensible, Range, Opened
<1>4. ASSUME NEW s \in DOMAIN Rehearsal PROVE Good(s, Rehearsal[s])
  <2>1. CASE s = "g6"
    <3>1. PICK u : u = <<"read", "frames", "assess">> /\ u = Rehearsal[s]
      BY <2>1 DEF Rehearsal
    <3>2. Good(s, u)
      BY <2>1, <3>1 DEF AskSteps, Signing, Writing, Sensible, Range, Optical, Bindings, Opened, Frozen
    <3>3. QED BY <3>1, <3>2
  <2>2. CASE s = "satroot"
    <3>1. PICK u : u = <<"tip", "events", "record">> /\ u = Rehearsal[s]
      BY <2>2 DEF Rehearsal
    <3>2. Good(s, u)
      BY <2>2, <3>1 DEF AskSteps, Signing, Writing, Sensible, Range, Optical, Bindings, Opened, Frozen
    <3>3. QED BY <3>1, <3>2
  <2>3. CASE s = "pm"
    <3>1. PICK u : u = <<"tip", "record">> /\ u = Rehearsal[s]
      BY <2>3 DEF Rehearsal
    <3>2. Good(s, u)
      BY <2>3, <3>1 DEF AskSteps, Signing, Writing, Sensible, Range, Optical, Bindings, Opened, Frozen
    <3>3. QED BY <3>1, <3>2
  <2>4. QED BY <2>1, <2>2, <2>3 DEF Rehearsal
<1>5. QED BY <1>1, <1>3, <1>4

\* A program starts.
LEMMA Starts ==
    ASSUME EpochInv, NEW steps \in Seq(AskSteps), Begin(steps),
           Sensible(script, steps), ~Writing(steps),
           Signing(steps) =>
              /\ {"tip", "read"} \cap Range(steps) # {}
              /\ script \in Optical => "frames" \in Range(steps)
              /\ script \in Bindings => {"record", "capture"} \cap Range(steps) # {}
              /\ script = "g6" => "assess" \in Range(steps)
              /\ script \in {"satroot", "pm"} => signed = << >>,
           script \in Bindings /\ files.payload # 0 => Frozen \cap Range(steps) = {}
    PROVE  EpochInv'
<1>1. /\ UNCHANGED <<chainVars, script, sessions, photos, signed, files, racing>>
      /\ todo' = steps /\ mem' = NoMemory
  BY DEF Begin
<1>2. script \in Scripts /\ script' = script /\ signed' = signed /\ files' = files
  BY <1>1 DEF EpochInv, TypeInv
<1>3. MemOK(mem)'
  BY <1>1, <1>2, BoundsFit, EpochAssumption DEF NoMemory, MemOK, Nothing, Most
<1>4. StageOK(todo, mem)'
  <2>1. Len(NoMemory.witnesses) <= 2 * Bounds[script].roughtime /\ \A i \in DOMAIN NoMemory.witnesses : FALSE
    BY <1>2, BoundsFit DEF NoMemory
  <2>2. QED BY <1>1, <1>2, <2>1 DEF StageOK
<1>5. mem' \in Memory
  BY <1>1, <1>2, Idle
<1>6. QED BY <1>1, <1>3, <1>4, <1>5, Thinks

LEMMA BeginKeeps == EpochInv /\ (Open \/ Run \/ Rehearse) => EpochInv'
<1> SUFFICES ASSUME EpochInv, Open \/ Run \/ Rehearse PROVE EpochInv'
  OBVIOUS
<1>1. /\ script \in DOMAIN Plan /\ files \in Directory /\ signed \in Seq(Checkpoint)
      /\ sessions \in Seq(Nat)
  BY ScriptsAssumption DEF EpochInv, TypeInv
<1>2. script \in Bindings /\ files.payload # 0 => files.session # 0 /\ files.checkpoint # 0
  <2>1. SUFFICES ASSUME script \in Bindings, files.payload # 0
                 PROVE  files.session # 0 /\ files.checkpoint # 0
    OBVIOUS
  <2>2. files.payload \in DOMAIN signed
    BY <1>1, <2>1 DEF EpochInv, FilesInv, Directory
  <2>3. /\ files.checkpoint = files.payload
        /\ files.session = signed[files.payload].session
    BY <2>1 DEF EpochInv, OnceInv
  <2>4. signed[files.payload].session \in DOMAIN sessions
    BY <2>2 DEF EpochInv, SignedInv, Sealed, Known
  <2>5. QED BY <1>1, <2>1, <2>3, <2>4
<1>3. CASE Open
  <2>1. script \in Opened /\ files.session = 0 /\ Begin(Opener)
    BY <1>3 DEF Open, MayOpen
  <2>2. QED BY <1>2, <2>1, TheOthers, Starts
<1>4. CASE Run
  <2>1. MayRun /\ Begin(Plan[script].ask)
    BY <1>4 DEF Run
  <2>2. /\ Plan[script].ask \in Seq(AskSteps) /\ Sensible(script, Plan[script].ask)
        /\ Signing(Plan[script].ask)
        /\ {"tip", "read"} \cap Range(Plan[script].ask) # {}
        /\ script \in Optical => "frames" \in Range(Plan[script].ask)
        /\ script \in Bindings => {"record", "capture"} \cap Range(Plan[script].ask) # {}
        /\ script = "g6" => "assess" \in Range(Plan[script].ask)
    BY <1>1, TheScripts
  <2>3. ~Writing(Plan[script].ask)
    BY <2>2 DEF Signing, Writing
  <2>4. script \in {"satroot", "pm"} => signed = << >>
    BY <2>1 DEF MayRun, EpochInv, OnceInv, Bindings
  <2>5. ~(script \in Bindings /\ files.payload # 0)
    BY <1>2, <2>1 DEF MayRun, Bindings
  <2>6. QED BY <2>1, <2>2, <2>3, <2>4, <2>5, Starts
<1>5. CASE Rehearse
  <2>1. script \in DOMAIN Rehearsal /\ Begin(Rehearsal[script])
    BY <1>5 DEF Rehearse
  <2>2. QED BY <2>1, TheOthers, Starts
<1>6. QED BY <1>3, <1>4, <1>5

LEMMA CrashKeeps == EpochInv /\ Crash => EpochInv'
BY Exits DEF Crash, InMemory

-------------------------------------------------------------------------------
\* What is signed now.
Content(agreed) ==
    [session |-> mem.session, b0 |-> mem.b0, blobs |-> mem.witnesses \o mem.last,
     history |-> Observed, frames |-> mem.frames, coded |-> mem.coded, agreed |-> agreed]

\* What is known of the program that signs.
LEMMA BeforeSigning ==
    ASSUME EpochInv, Step("sign")
    PROVE  /\ mem \in Memory /\ MemOK(mem) /\ script \in Scripts /\ signed \in Seq(Checkpoint)
           /\ sessions \in Seq(Nat) /\ files \in Directory /\ script \in DOMAIN Plan
           /\ Tail(todo) = << >> /\ "sign" \in Range(todo)
           /\ \A i \in DOMAIN mem.witnesses : mem.witnesses[i].by = Len(signed) + 1
           /\ mem.session # 0 /\ Known(mem.session, mem.b0)
           /\ script \in Optical \cup Bindings => mem.last # << >>
           /\ script = "g6" => mem.coded \in Declarations(mem.frames)
           /\ script \in Bindings => files.session = mem.session /\ files.b0 = mem.b0
           /\ script \in {"satroot", "pm"} => signed = << >>
<1>1. todo # << >> /\ Head(todo) = "sign" /\ ~Writing(todo)
  BY Asking DEF Step, AskSteps
<1>2. /\ Tail(todo) = << >> /\ Range(todo) = {"sign"} \cup Range(Tail(todo))
      /\ 1 \in DOMAIN todo /\ todo[1] = "sign"
  BY <1>1, Behind
<1>3. Range(todo) = {"sign"}
  BY <1>2 DEF Range
<1>4. Signing(todo)
  <2>1. todo \in Seq(AskSteps \cup Files)
    BY DEF EpochInv, TypeInv
  <2>2. Len(todo) \in DOMAIN todo
    BY <1>2, <2>1
  <2>3. todo[Len(todo)] \in Range(todo)
    BY <2>2 DEF Range
  <2>4. QED BY <1>1, <1>3, <2>3 DEF Signing
<1>5. mem.session # 0 /\ MemOK(mem)
  BY <1>1, <1>4, Before
<1>6. Known(mem.session, mem.b0)
  BY <1>5 DEF MemOK, Nothing
<1>7. QED BY <1>1, <1>2, <1>3, <1>4, <1>5, <1>6, Before

\* The checkpoint commits to what the program knew, in the order it asked.
LEMMA SignedSealed ==
    ASSUME EpochInv, Step("sign"), Enrolled >= Sound, NEW agreed \in BOOLEAN
    PROVE  Content(agreed) \in Checkpoint /\ Sealed(Len(signed) + 1, Content(agreed))
<1> DEFINE w == mem.witnesses
           l == mem.last
           h == IF script \in Optical THEN l ELSE << >>
           b == w \o l
           o == w \o h
<1>1. /\ mem \in Memory /\ MemOK(mem) /\ script \in Scripts
      /\ \A i \in DOMAIN w : w[i].by = Len(signed) + 1
      /\ Known(mem.session, mem.b0)
      /\ script \in Optical \cup Bindings => l # << >>
      /\ script = "g6" => mem.coded \in Declarations(mem.frames)
  BY BeforeSigning
<1>2. w \in Seq(Piece) /\ l \in Seq(Piece) /\ h \in Seq(Piece)
  BY <1>1 DEF Memory
<1>3. /\ \A i \in DOMAIN w :
            Belongs(w[i], mem.session, mem.b0) /\ w[i].of \in {"ntp", "roughtime"}
      /\ \A i, j \in DOMAIN w : w[i] = w[j] => i = j
      /\ \A i \in DOMAIN l :
            /\ Belongs(l[i], mem.session, mem.b0) /\ l[i].of \in Rest(script)
            /\ script \in Optical => l[i].frames = mem.frames /\ mem.frames # {}
      /\ Len(w) <= Most(script) /\ Len(w) % 2 = 0
      /\ Len(l) <= (IF script = "naxytra" THEN Bounds[script].records ELSE 1)
  BY <1>1 DEF MemOK
<1>4. o = Observed
  BY DEF Observed
<1> HIDE DEF w, l
<1>5. /\ b \in Seq(Piece) /\ Len(b) = Len(w) + Len(l)
      /\ \A i \in 1 .. Len(w) + Len(l) : b[i] = IF i <= Len(w) THEN w[i] ELSE l[i - Len(w)]
  BY <1>2, ConcatProperties
<1> HIDE DEF h
<1>6. /\ o \in Seq(Piece) /\ Len(o) = Len(w) + Len(h)
      /\ \A i \in 1 .. Len(w) + Len(h) : o[i] = IF i <= Len(w) THEN w[i] ELSE h[i - Len(w)]
  BY <1>2, ConcatProperties
<1>7. /\ script \in Optical => h = l
      /\ script \notin Optical => Len(h) = 0
      /\ Len(w) \in Nat /\ Len(l) \in Nat /\ Len(h) \in Nat
      /\ DOMAIN w = 1 .. Len(w) /\ DOMAIN l = 1 .. Len(l)
      /\ script \in Optical \cup Bindings => Len(l) # 0
  <2>1. l # << >> => Len(l) # 0
    BY <1>2, EmptySeq
  <2>2. QED BY <1>1, <1>2, <2>1 DEF h
<1> HIDE DEF b, o
<1> DEFINE r == Content(agreed)
<1>8. /\ r.session = mem.session /\ r.b0 = mem.b0 /\ r.blobs = b /\ r.history = o
      /\ r.frames = mem.frames /\ r.coded = mem.coded
  BY <1>4 DEF Content, b, w, l
<1>9. r \in Checkpoint
  BY <1>1, <1>4, <1>5, <1>6 DEF Content, Checkpoint, Memory, b, w, l
<1>10. \A i \in DOMAIN b :
          \/ i \in DOMAIN w /\ b[i] = w[i]
          \/ i > Len(w) /\ i - Len(w) \in DOMAIN l /\ b[i] = l[i - Len(w)]
  <2>1. DOMAIN b = 1 .. Len(w) + Len(l)
    BY <1>5
  <2>2. QED BY <1>5, <1>7, <2>1
<1>11. /\ Rest(script) \subseteq {"camera", "capture", "external"}
       /\ script \in Optical => Rest(script) = {"camera"} /\ script \notin Bindings
       /\ script \notin Optical => "camera" \notin Rest(script)
       /\ script \in Optical => script # "naxytra"
  BY DEF Rest, Optical, Bindings
<1>12. \A i \in DOMAIN b :
          LET x == b[i]
          IN  /\ Belongs(x, mem.session, mem.b0)
              /\ i <= Len(o) <=> x.of \in {"ntp", "roughtime", "camera"}
              /\ x.of \in {"ntp", "roughtime"} => x.by = Len(signed) + 1
              /\ x.of = "camera" => i = Len(b) /\ x.frames = mem.frames
              /\ x.of \in {"ntp", "roughtime"} \cup Rest(script)
  <2>1. SUFFICES ASSUME NEW i \in DOMAIN b
                 PROVE  /\ Belongs(b[i], mem.session, mem.b0)
                        /\ i <= Len(o) <=> b[i].of \in {"ntp", "roughtime", "camera"}
                        /\ b[i].of \in {"ntp", "roughtime"} => b[i].by = Len(signed) + 1
                        /\ b[i].of = "camera" => i = Len(b) /\ b[i].frames = mem.frames
                        /\ b[i].of \in {"ntp", "roughtime"} \cup Rest(script)
    OBVIOUS
  <2>2. CASE i \in DOMAIN w /\ b[i] = w[i]
    <3>1. i <= Len(o)
      BY <1>6, <1>7, <2>2
    <3>2. QED BY <1>1, <1>3, <2>2, <3>1
  <2>3. CASE i > Len(w) /\ i - Len(w) \in DOMAIN l /\ b[i] = l[i - Len(w)]
    <3>1. PICK j \in DOMAIN l : j = i - Len(w) /\ b[i] = l[j]
      BY <2>3
    <3>2. /\ Belongs(b[i], mem.session, mem.b0) /\ b[i].of \in Rest(script)
          /\ script \in Optical => b[i].frames = mem.frames
      BY <1>3, <3>1
    <3>3. i \in Nat /\ i = Len(w) + j /\ j \in 1 .. Len(l)
      <4>1. i \in 1 .. Len(b)
        BY <1>5
      <4>2. QED BY <1>7, <3>1, <4>1
    <3>4. script \in Optical => i <= Len(o) /\ i = Len(b)
      BY <1>3, <1>5, <1>6, <1>7, <1>11, <3>3
    <3>5. script \notin Optical => ~(i <= Len(o))
      BY <1>6, <1>7, <3>3
    <3>6. QED BY <1>11, <3>2, <3>4, <3>5
  <2>4. QED BY <1>10, <2>2, <2>3
<1>13. Len(o) <= Len(b) /\ Len(b) <= Most(script) + Bounds[script].records
  <2>1. Bounds[script].records \in Nat \ {0} /\ Most(script) \in Nat
    BY <1>1, BoundsFit
  <2>2. Len(l) <= Bounds[script].records /\ Len(w) <= Most(script)
    BY <1>3, <1>7, <2>1
  <2>3. Len(h) <= Len(l)
    BY <1>7
  <2>4. QED BY <1>5, <1>6, <1>7, <2>1, <2>2, <2>3
<1>14. \A i \in DOMAIN o :
          /\ o[i] = b[i]
          /\ (i \in DOMAIN w /\ o[i] = w[i]) \/ (i = Len(w) + 1 /\ o[i].of = "camera")
  <2>1. SUFFICES ASSUME NEW i \in DOMAIN o
                 PROVE  /\ o[i] = b[i]
                        /\ (i \in DOMAIN w /\ o[i] = w[i]) \/ (i = Len(w) + 1 /\ o[i].of = "camera")
    OBVIOUS
  <2>2. i \in 1 .. Len(w) + Len(h) /\ i \in 1 .. Len(w) + Len(l)
    BY <1>6, <1>7
  <2>3. CASE i <= Len(w)
    <3>1. o[i] = w[i] /\ b[i] = w[i]
      BY <1>5, <1>6, <2>2, <2>3
    <3>2. QED BY <1>7, <2>2, <2>3, <3>1
  <2>4. CASE ~(i <= Len(w))
    <3>1. script \in Optical /\ h = l
      BY <1>7, <2>2, <2>4
    <3>2. i - Len(w) \in 1 .. Len(l) /\ Len(l) <= 1
      BY <1>3, <1>7, <1>11, <2>2, <2>4, <3>1
    <3>3. i = Len(w) + 1 /\ 1 \in DOMAIN l /\ i - Len(w) = 1
      BY <1>7, <2>2, <3>2
    <3>4. o[i] = l[1] /\ b[i] = l[1]
      BY <1>5, <1>6, <2>2, <2>4, <3>1, <3>3
    <3>5. l[1].of = "camera"
      BY <1>3, <1>11, <3>1, <3>3
    <3>6. QED BY <3>3, <3>4, <3>5
  <2>5. QED BY <2>3, <2>4
<1>15. \A i, j \in DOMAIN o : o[i] = o[j] => i = j
  <2>1. \A i \in DOMAIN w : w[i].of # "camera"
    BY <1>3
  <2>2. QED BY <1>3, <1>14, <2>1
<1>16. script \in Optical => Len(b) # 0 /\ b[Len(b)].of = "camera" /\ mem.frames # {}
  <2>1. SUFFICES ASSUME script \in Optical PROVE Len(b) # 0 /\ b[Len(b)].of = "camera" /\ mem.frames # {}
    OBVIOUS
  <2>2. Len(l) = 1 /\ Rest(script) = {"camera"}
    BY <1>3, <1>7, <1>11, <2>1
  <2>3. 1 \in DOMAIN l /\ Len(b) = Len(w) + 1 /\ b[Len(b)] = l[1]
    BY <1>5, <1>7, <2>2
  <2>4. QED BY <1>3, <1>7, <2>1, <2>2, <2>3
<1>17. script \in Bindings =>
          /\ Len(o) < Len(b) /\ Len(o) % 2 = 0
          /\ script # "naxytra" => Len(b) = Len(o) + 1
  BY SMTT(30), <1>3, <1>5, <1>6, <1>7, <1>11
<1>enrolled. Len(o) # 0
  <2>1. Sound \in Nat \ {0}
    BY EpochAssumption
  <2>2. Enrolled = Len(w) \div 2 + (IF script \in Optical THEN 1 ELSE 0)
    BY DEF Enrolled, w
  <2>3. Len(w) = 0 => Len(w) \div 2 = 0
    BY <1>7
  <2>4. script \notin Optical => Len(w) # 0
    BY <1>7, <2>1, <2>2, <2>3
  <2>5. QED BY <1>6, <1>7, <1>3, <1>11, <2>4
<1> HIDE DEF r
<1>18. Sealed(Len(signed) + 1, r)
  BY <1>enrolled, <1>1, <1>8, <1>12, <1>13, <1>14, <1>15, <1>16, <1>17 DEF Sealed
<1>19. QED BY <1>9, <1>18 DEF r

LEMMA SignKeeps == EpochInv /\ Sign => EpochInv'
<1> SUFFICES ASSUME EpochInv, Sign PROVE EpochInv'
  OBVIOUS
<1> USE DEF Content
<1>1. /\ UNCHANGED <<chainVars, script, photos, files, racing, sessions>>
      /\ \/ /\ Enrolled >= Sound
            /\ \E agreed \in BOOLEAN : signed' = Append(signed, Content(agreed))
            /\ todo' = Output(mem.witnesses \o mem.last) /\ mem' = mem
         \/ Exit /\ signed' = signed
  BY DEF Sign, InMemory
<1>2. Step("sign")
  BY DEF Sign
<1>3. CASE Exit /\ signed' = signed
  BY <1>1, <1>3, Exits
<1>4. ASSUME Enrolled >= Sound, NEW agreed \in BOOLEAN, signed' = Append(signed, Content(agreed)),
             todo' = Output(mem.witnesses \o mem.last), mem' = mem
      PROVE  EpochInv'
  <2>1. PICK r : r = Content(agreed)
    OBVIOUS
  <2> DEFINE p == Len(signed) + 1
  <2>2. r \in Checkpoint /\ Sealed(p, r)
    BY <1>2, <1>4, <2>1, SignedSealed
  <2>3. r.blobs = mem.witnesses \o mem.last /\ r.session = mem.session /\ r.b0 = mem.b0 /\ r.frames = mem.frames
    BY <2>1
  <2>4. /\ mem \in Memory /\ MemOK(mem) /\ script \in Scripts /\ signed \in Seq(Checkpoint)
        /\ script \in DOMAIN Plan /\ "sign" \in Range(todo) /\ mem.session # 0
        /\ script \in Bindings => files.session = mem.session /\ files.b0 = mem.b0
        /\ script \in {"satroot", "pm"} => signed = << >>
    BY <1>2, BeforeSigning
  <2>5. /\ signed' \in Seq(Checkpoint) /\ Len(signed') = p /\ Len(signed) \in Nat
        /\ \A q \in 1 .. Len(signed) : signed'[q] = signed[q]
        /\ signed'[p] = r
        /\ DOMAIN signed = 1 .. Len(signed) /\ DOMAIN signed' = 1 .. p
    <3>1. signed' = Append(signed, r)
      BY <1>4, <2>1
    <3>2. Append(signed, r) \in Seq(Checkpoint)
      BY <2>2, <2>4, AppendProperties
    <3>3. QED BY <2>2, <2>4, <3>1, <3>2, AppendProperties
  <2>6. /\ todo' \in Seq(Files) /\ Writing(todo') /\ Len(Closing) \in Nat
        /\ Ordered(script, todo', Len(r.blobs))
        /\ Len(r.blobs) + Len(Closing) <= Len(todo') /\ r.blobs \in Seq(Piece)
    <3>1. r.blobs \in Seq(Piece)
      BY <2>2 DEF Checkpoint
    <3>2. QED BY <1>4, <2>3, <2>4, <3>1, OutputShape
  <2>same. /\ tree' = tree /\ best' = best /\ script' = script /\ sessions' = sessions
           /\ photos' = photos /\ files' = files /\ racing' = racing /\ mem' = mem
    BY <1>1, <1>4 DEF chainVars
  <2>7. TypeInv'
    <3>1. todo' \in Seq(AskSteps \cup Files)
      BY <2>6, SeqMonotonic
    <3>2. TypeInv
      BY DEF EpochInv
    <3>3. QED BY <2>5, <2>same, <3>1, <3>2 DEF TypeInv
  <2>8. WorldInv'
    BY <2>same DEF EpochInv, WorldInv, TreeOK, Height, Grown, IsBranch
  <2>9. MemOK(mem)' /\ StageOK(todo, mem)'
    BY <2>same, <2>4, <2>6 DEF MemOK, Known, Belongs, Real, StageOK
  <2>10. SignedInv'
    <3>1. ASSUME NEW q \in DOMAIN signed' PROVE Sealed(q, signed[q])'
      <4>1. PICK x \in Checkpoint : x = signed'[q] /\ Sealed(q, x)
        BY <2>2, <2>5 DEF EpochInv, SignedInv
      <4>2. QED BY <4>1, <2>same DEF Sealed, Known, Belongs, Real
    <3>2. QED BY <3>1 DEF SignedInv
  <2>11. FilesInv'
    <3>1. \A i \in DOMAIN files.blobs :
             \E q \in DOMAIN signed' : i \in DOMAIN signed'[q].blobs /\ files.blobs[i] = signed'[q].blobs[i]
      BY <2>5 DEF EpochInv, FilesInv
    <3>2. files \in Directory
      BY DEF EpochInv, TypeInv
    <3>3. /\ files.history <= p /\ files.checkpoint <= p /\ files.payload <= p /\ files.expectation <= p
          /\ files.events <= Len(sessions)
          /\ IF script = "sandwich" THEN files.session <= Len(sessions)
             ELSE Nothing(files.session, files.b0) \/ Known(files.session, files.b0)
      BY <2>5, <3>2 DEF EpochInv, FilesInv, Directory
    <3>4. QED BY <2>5, <2>same, <3>1, <3>3 DEF FilesInv, Known
  <2>12. WrittenInv'
    <3>1. script' = script /\ mem' = mem /\ files' = files /\ signed' # << >> /\ Len(signed') = p /\ signed'[p] = r
      BY <2>5, <2>same
    <3>2. Closing' = Closing
      BY <2>same DEF Closing
    <3>3. \A j \in DOMAIN r.blobs : ~(j <= Len(r.blobs) - (Len(todo') - Len(Closing)))
      <4>1. Len(r.blobs) \in Nat /\ Len(todo') \in Nat /\ DOMAIN r.blobs = 1 .. Len(r.blobs)
        BY <2>6
      <4>2. QED BY <2>6, <4>1
    <3>4. ~(Len(todo') < Len(Closing)) /\ ~(Len(todo') < Len(Closing) - 1)
      <4>1. Len(r.blobs) \in Nat /\ Len(todo') \in Nat
        BY <2>6
      <4>2. QED BY <2>6, <4>1
    <3>5. Ordered(script, todo', Len(r.blobs))
      BY <2>6
    <3>6. QED BY <2>3, <2>4, <3>1, <3>2, <3>3, <3>4, <3>5 DEF WrittenInv
  <2>13. PaidInv'
    <3>1. /\ racing <= Len(signed) /\ racing \in Nat /\ tree \in Seq(BlockRecord)
          /\ \A c \in DOMAIN tree :
                /\ tree[c].payload <= Len(signed)
                /\ tree[c].payload # 0 =>
                      \A i \in DOMAIN signed[tree[c].payload].blobs :
                          signed[tree[c].payload].blobs[i].at < c
      BY DEF EpochInv, PaidInv, TypeInv
    <3>2. \A c \in DOMAIN tree : tree[c].payload \in Nat
      <4>1. \A c \in DOMAIN tree : tree[c] \in BlockRecord
        BY <3>1
      <4>2. QED BY <4>1 DEF BlockRecord
    <3>3. \A c \in DOMAIN tree :
             tree[c].payload # 0 =>
                signed'[tree[c].payload] = signed[tree[c].payload]
      BY <2>5, <3>1, <3>2
    <3>4. \A c \in DOMAIN tree : tree[c].payload <= Len(signed')
      BY <2>5, <3>1, <3>2
    <3>5. racing <= Len(signed')
      BY <2>5, <3>1
    <3>6. QED BY <2>same, <3>1, <3>3, <3>4, <3>5 DEF PaidInv
  <2>14. OnceInv'
    <3>1. script \in Bindings => files.payload = 0 /\ racing = 0 /\ \A c \in DOMAIN tree : tree[c].payload = 0
      BY <2>4 DEF EpochInv, OnceInv, Frozen
    <3>2. script \in {"satroot", "pm"} => Len(signed') = 1 /\ files.session # 0
      <4>1. signed = << >> => Len(signed) = 0
        OBVIOUS
      <4>2. QED BY <2>4, <2>5, <4>1 DEF Bindings
    <3>3. QED BY <2>same, <3>1, <3>2 DEF OnceInv
  <2>15. QED BY <2>7, <2>8, <2>9, <2>10, <2>11, <2>12, <2>13, <2>14 DEF EpochInv
<1>5. QED BY <1>1, <1>3, <1>4

-------------------------------------------------------------------------------
\* What does not depend on which file is written.
LEMMA WriteKeepsTheRest ==
    ASSUME EpochInv, Write, files' \in Directory
    PROVE  TypeInv' /\ WorldInv' /\ SignedInv' /\ PaidInv' /\ MemOK(mem)'
<1>1. /\ tree' = tree /\ best' = best /\ script' = script /\ sessions' = sessions
      /\ photos' = photos /\ signed' = signed /\ racing' = racing
      /\ todo # << >> /\ todo' = Tail(todo) /\ (mem' = mem \/ mem' = NoMemory)
  BY DEF Write, chainVars, Step, Go
<1>2. script \in Scripts /\ todo \in Seq(AskSteps \cup Files) /\ mem \in Memory
  BY DEF EpochInv, TypeInv
<1>3. TypeInv'
  <2>1. todo' \in Seq(AskSteps \cup Files)
    BY <1>1, <1>2, TailFacts
  <2>2. mem' \in Memory
    BY <1>1, <1>2, Idle
  <2>3. TypeInv
    BY DEF EpochInv
  <2>4. QED BY <1>1, <2>1, <2>2, <2>3 DEF TypeInv
<1>4. WorldInv'
  BY <1>1 DEF EpochInv, WorldInv, TreeOK, Height, Grown, IsBranch
<1>5. SignedInv'
  <2>1. ASSUME NEW p \in DOMAIN signed PROVE Sealed(p, signed[p])'
    <3>1. Sealed(p, signed[p])
      BY DEF EpochInv, SignedInv
    <3>2. QED BY <1>1, <3>1 DEF Sealed, Known, Belongs, Real
  <2>2. QED BY <1>1, <2>1 DEF SignedInv
<1>6. PaidInv'
  BY <1>1 DEF EpochInv, PaidInv
<1>7. MemOK(mem)'
  <2>1. MemOK(mem) /\ MemOK(NoMemory)
    BY <1>2, Idle DEF EpochInv
  <2>2. QED BY ZenonT(30), <1>1, <2>1 DEF MemOK, Known, Belongs, Real
<1>8. QED BY <1>3, <1>4, <1>5, <1>6, <1>7

\* A challenge, or the events beside it, before there is a checkpoint.
LEMMA AnnounceKeeps == EpochInv /\ Write /\ ~Writing(todo) => EpochInv'
<1> SUFFICES ASSUME EpochInv, Write, ~Writing(todo) PROVE EpochInv'
  OBVIOUS
<1>1. PICK f \in Files : Step(f) /\ files' = Written(f)
  BY DEF Write
<1>2. /\ tree' = tree /\ best' = best /\ script' = script /\ sessions' = sessions
      /\ photos' = photos /\ signed' = signed /\ racing' = racing
      /\ todo # << >> /\ Head(todo) = f /\ Go(mem)
  BY <1>1 DEF Write, chainVars, Step
<1>3. /\ script \in Scripts /\ mem \in Memory /\ MemOK(mem) /\ files \in Directory
      /\ signed \in Seq(Checkpoint)
  BY <1>2, Before
<1>4. /\ Range(todo) = {f} \cup Range(Tail(todo)) /\ Sensible(script, Tail(todo))
      /\ {"tip", "read"} \cap Range(Tail(todo)) = {}
      /\ Tail(todo) # << >> =>
            ~Writing(Tail(todo)) /\ (Signing(Tail(todo)) => Signing(todo))
      /\ Sensible(script, todo) /\ 1 \in DOMAIN todo /\ todo[1] = f
  BY <1>2, Behind
<1>5. /\ f = "challenge" \/ f = "events"
      /\ f = "challenge" => script \in (IF Signing(todo) THEN {"satroot", "pm"} ELSE Opened)
  <2>1. f \in AskSteps
    BY <1>4 DEF Sensible
  <2>2. QED BY <1>4, <2>1 DEF Sensible, AskSteps, Files
<1>6. /\ f = "challenge" => files' = [files EXCEPT !.b0 = mem.b0, !.session = mem.session]
      /\ f = "events" => files' = [files EXCEPT !.events = mem.session]
  BY <1>1 DEF Written
<1>7. /\ files' \in Directory
      /\ files'.blobs = files.blobs /\ files'.history = files.history
      /\ files'.checkpoint = files.checkpoint /\ files'.payload = files.payload
      /\ files'.expectation = files.expectation
      /\ f = "challenge" =>
            files'.b0 = mem.b0 /\ files'.session = mem.session /\ files'.events = files.events
      /\ f = "events" =>
            files'.b0 = files.b0 /\ files'.session = files.session /\ files'.events = mem.session
  BY <1>3, <1>5, <1>6 DEF Directory, Memory
<1>8. TypeInv' /\ WorldInv' /\ SignedInv' /\ PaidInv' /\ MemOK(mem)'
  BY <1>7, WriteKeepsTheRest
<1>9. todo' = Tail(todo) /\ (Tail(todo) # << >> => mem' = mem)
  <2>1. todo \in Seq(AskSteps \cup Files)
    BY DEF EpochInv, TypeInv
  <2>2. PICK u \in Seq(AskSteps \cup Files) : u = Tail(todo) /\ Len(u) = Len(todo) - 1 /\ Len(todo) \in Nat
    BY <1>2, <2>1, TailFacts
  <2>3. u # << >> => Len(u) \in Nat \ {0}
    BY <2>2, EmptySeq
  <2>4. QED BY <1>2, <2>2, <2>3 DEF Go
<1>10. StageOK(todo, mem)'
  <2>1. CASE Tail(todo) = << >>
    BY <1>9, <2>1 DEF StageOK, Sensible, Signing, Range
  <2>2. CASE Tail(todo) # << >>
    <3>1. mem' = mem /\ todo' = Tail(todo)
      BY <1>9, <2>2
    <3>2. /\ "ntp" \in Range(Tail(todo)) =>
                /\ \A i \in DOMAIN mem.witnesses : mem.witnesses[i].of = "roughtime"
                /\ Len(mem.witnesses) <= 2 * Bounds[script].roughtime
          /\ Signing(Tail(todo)) =>
                /\ \A i \in DOMAIN mem.witnesses : mem.witnesses[i].by = Len(signed) + 1
                /\ mem.session # 0
                /\ script \in Optical /\ "frames" \notin Range(Tail(todo)) => mem.last # << >>
                /\ script \in Bindings /\ {"record", "capture"} \cap Range(Tail(todo)) = {} =>
                      mem.last # << >>
                /\ script = "g6" /\ "assess" \notin Range(Tail(todo)) =>
                      mem.coded \in Declarations(mem.frames)
                /\ script \in Bindings /\ "challenge" \notin Range(todo) =>
                      files.session = mem.session /\ files.b0 = mem.b0
                /\ script \in {"satroot", "pm"} => signed = << >>
      BY <1>2, <1>4, <1>5, <2>2, Before
    <3>3. Signing(Tail(todo)) /\ script \in Bindings /\ "challenge" \notin Range(Tail(todo)) =>
             files'.session = mem.session /\ files'.b0 = mem.b0
      BY <1>4, <1>5, <1>7, <3>2
    <3>4. QED BY <1>2, <1>4, <3>1, <3>2, <3>3 DEF StageOK
  <2>3. QED BY <2>1, <2>2
<1>11. FilesInv'
  <2>1. Nothing(mem.session, mem.b0) \/ Known(mem.session, mem.b0)
    BY <1>3 DEF MemOK
  <2>2. mem.session <= Len(sessions)
    <3>1. sessions \in Seq(Nat)
      BY DEF EpochInv, TypeInv
    <3>2. QED BY <2>1, <3>1 DEF Nothing, Known
  <2>3. /\ script # "sandwich" => Nothing(files'.session, files'.b0) \/ Known(files'.session, files'.b0)
        /\ script = "sandwich" => files'.session <= Len(sessions)
        /\ files'.events <= Len(sessions)
    <3>1. f = "challenge" => script # "sandwich"
      BY <1>5 DEF Opened
    <3>2. QED BY <1>5, <1>7, <2>1, <2>2, <3>1 DEF EpochInv, FilesInv
  <2>4. FilesInv
    BY DEF EpochInv
  <2>5. QED BY <1>2, <1>7, <2>3, <2>4 DEF FilesInv, Known
<1>12. WrittenInv'
  BY <1>4, <1>9 DEF WrittenInv, Writing
<1>13. OnceInv'
  <2>1. SUFFICES ASSUME script \in Bindings PROVE OnceInv'
    BY <1>2 DEF OnceInv
  <2>2. OnceInv
    BY DEF EpochInv
  <2>3. CASE f = "challenge"
    <3>1. files.payload = 0
      BY <1>4, <2>1, <2>2, <2>3 DEF OnceInv, Frozen
    <3>2. script \in {"satroot", "pm"} => signed = << >>
      BY <1>2, <1>5, <2>3, Before DEF Opened
    <3>3. QED BY <1>2, <1>7, <2>1, <2>2, <3>1, <3>2 DEF OnceInv
  <2>4. CASE f = "events"
    BY <1>2, <1>4, <1>7, <1>9, <2>1, <2>2, <2>4 DEF OnceInv
  <2>5. QED BY <1>5, <2>3, <2>4
<1>14. QED BY <1>8, <1>10, <1>11, <1>12, <1>13 DEF EpochInv

\* The file that is written next, by how many are left.
LEMMA NextFile ==
    ASSUME EpochInv, Writing(todo)
    PROVE  LET p == Len(signed)
               r == signed[p]
               n == Len(r.blobs)
               c == Len(Closing)
           IN  /\ p \in DOMAIN signed /\ r \in Checkpoint /\ Sealed(p, r) /\ p \in Nat
               /\ n \in Nat /\ c \in Nat /\ c >= 3 /\ Len(todo) \in Nat \ {0}
               /\ \/ Head(todo) \in Late /\ Len(todo) < c - 2
                  \/ Head(todo) = "payload" /\ Len(todo) = c - 2
                  \/ Head(todo) = "checkpoint" /\ Len(todo) = c - 1
                  \/ Head(todo) = "history" /\ Len(todo) = c
                  \/ Head(todo) = "blob" /\ c < Len(todo) /\ Len(todo) <= c + n
                  \/ Head(todo) \in Early(script) /\ c + n < Len(todo)
               /\ Ordered(script, todo, n)
               /\ script \in DOMAIN Plan /\ c = 3 + Len(Plan[script].last)
<1> DEFINE p == Len(signed)
           r == signed[p]
           n == Len(r.blobs)
           c == Len(Closing)
<1>1. signed # << >> /\ signed \in Seq(Checkpoint) /\ todo \in Seq(AskSteps \cup Files) /\ todo # << >>
  BY DEF EpochInv, TypeInv, WrittenInv, Writing
<1>2. p \in DOMAIN signed /\ r \in Checkpoint /\ p \in Nat
  BY <1>1
<1>3. Sealed(p, r)
  BY <1>2 DEF EpochInv, SignedInv
<1>4. r.blobs \in Seq(Piece)
  BY <1>2 DEF Checkpoint
<1>5. n \in Nat
  BY <1>4
<1>6. script \in DOMAIN Plan
  BY ScriptsAssumption DEF EpochInv, TypeInv
<1>7. c = 3 + Len(Plan[script].last) /\ c \in Nat /\ Len(Plan[script].last) \in Nat /\ c >= 3
  <2>1. c = 3 + Len(Plan[script].last) /\ c \in Nat
    BY <1>4, <1>6, OutputShape
  <2>2. Len(Plan[script].last) \in Nat
    BY <1>6, TheFiles
  <2>3. QED BY <2>1, <2>2
<1>8. Ordered(script, todo, n)
  BY DEF EpochInv, WrittenInv
<1>9. /\ Len(todo) \in Nat \ {0} /\ 1 \in DOMAIN todo /\ Head(todo) = todo[1]
  BY <1>1
<1> HIDE DEF n, c
<1>10. LET e == Len(todo) - 1 IN
        /\ e < c - 3 => Head(todo) \in Late
        /\ e = c - 3 => Head(todo) = "payload"
        /\ e = c - 2 => Head(todo) = "checkpoint"
        /\ e = c - 1 => Head(todo) = "history"
        /\ c <= e /\ e < c + n => Head(todo) = "blob"
        /\ c + n <= e => Head(todo) \in Early(script)
  BY <1>7, <1>8, <1>9 DEF Ordered, Late, Early
<1>11. \/ Head(todo) \in Late /\ Len(todo) < c - 2
       \/ Head(todo) = "payload" /\ Len(todo) = c - 2
       \/ Head(todo) = "checkpoint" /\ Len(todo) = c - 1
       \/ Head(todo) = "history" /\ Len(todo) = c
       \/ Head(todo) = "blob" /\ c < Len(todo) /\ Len(todo) <= c + n
       \/ Head(todo) \in Early(script) /\ c + n < Len(todo)
  <2>1. CASE Len(todo) < c - 2
    BY <2>1, <1>5, <1>7, <1>9, <1>10
  <2>2. CASE Len(todo) = c - 2
    BY <2>2, <1>5, <1>7, <1>9, <1>10
  <2>3. CASE Len(todo) = c - 1
    BY <2>3, <1>5, <1>7, <1>9, <1>10
  <2>4. CASE Len(todo) = c
    BY <2>4, <1>5, <1>7, <1>9, <1>10
  <2>5. CASE c < Len(todo) /\ Len(todo) <= c + n
    BY <2>5, <1>5, <1>7, <1>9, <1>10
  <2>6. CASE c + n < Len(todo)
    BY <2>6, <1>5, <1>7, <1>9, <1>10
  <2>7. QED BY <2>1, <2>2, <2>3, <2>4, <2>5, <2>6, <1>5, <1>7, <1>9
<1> HIDE DEF r
<1>12. QED BY <1>2, <1>3, <1>5, <1>6, <1>7, <1>8, <1>9, <1>11, Zenon DEF n, c, r

\* Which blob is written next, and that the others stay.
LEMMA TheNextBlob ==
    ASSUME EpochInv, Writing(todo), Head(todo) = "blob"
    PROVE  LET r == signed[Len(signed)]
               k == Len(r.blobs) - (Len(todo) - Len(Closing)) + 1
           IN  /\ k \in DOMAIN r.blobs /\ NextBlob \in Seq(Piece)
               /\ k \in DOMAIN NextBlob /\ NextBlob[k] = r.blobs[k]
               /\ \A j \in DOMAIN NextBlob :
                     j # k => j \in DOMAIN files.blobs /\ NextBlob[j] = files.blobs[j]
               /\ \A j \in DOMAIN files.blobs : j \in DOMAIN NextBlob
<1> DEFINE r == signed[Len(signed)]
           b == r.blobs
           k == Len(b) - (Len(todo) - Len(Closing)) + 1
           f == files.blobs
<1>1. /\ r \in Checkpoint /\ Len(Closing) \in Nat /\ Len(todo) \in Nat \ {0}
      /\ Len(Closing) < Len(todo) /\ Len(todo) <= Len(Closing) + Len(b)
  BY NextFile DEF Late, Early
<1>2. b \in Seq(Piece) /\ f \in Seq(Piece)
  BY <1>1 DEF Checkpoint, EpochInv, TypeInv, Directory
<1>3. \A j \in DOMAIN b : j <= Len(b) - (Len(todo) - Len(Closing)) => j \in DOMAIN f /\ f[j] = b[j]
  BY DEF EpochInv, WrittenInv
<1>next. NextBlob = Replaced(f, k, b[k])
  BY DEF NextBlob
<1> HIDE DEF b, f
<1>4. k \in 1 .. Len(b) /\ Len(b) \in Nat /\ Len(f) \in Nat
  BY <1>1, <1>2
<1>5. DOMAIN b = 1 .. Len(b) /\ DOMAIN f = 1 .. Len(f)
  BY <1>2
<1>6. k - 1 <= Len(f)
  <2>1. CASE k = 1
    BY <2>1, <1>4
  <2>2. CASE k # 1
    <3>1. k - 1 \in 1 .. Len(b) /\ k - 1 <= Len(b) - (Len(todo) - Len(Closing))
      BY <1>1, <1>4, <2>2
    <3>2. k - 1 \in 1 .. Len(f)
      BY <1>3, <1>5, <3>1
    <3>3. QED BY <1>4, <3>2
  <2>3. QED BY <2>1, <2>2
<1> HIDE DEF k
<1>7. b[k] \in Piece
  BY <1>2, <1>4, <1>5
<1>8. CASE k <= Len(f)
  <2>1. NextBlob = [f EXCEPT ![k] = b[k]]
    BY <1>next, <1>8 DEF Replaced
  <2>2. k \in 1 .. Len(f)
    BY <1>4, <1>8
  <2>3. /\ NextBlob \in Seq(Piece) /\ Len(NextBlob) = Len(f)
        /\ \A j \in 1 .. Len(f) : NextBlob[j] = IF j = k THEN b[k] ELSE f[j]
    BY <1>2, <1>7, <2>1, <2>2, ExceptSeq
  <2>4. DOMAIN NextBlob = 1 .. Len(f)
    BY <2>3
  <2>5. QED BY <1>4, <1>5, <2>2, <2>3, <2>4 DEF b, f, k
<1>9. CASE ~(k <= Len(f))
  <2>1. NextBlob = Append(f, b[k]) /\ k = Len(f) + 1
    BY <1>next, <1>4, <1>6, <1>9 DEF Replaced
  <2>2. /\ NextBlob \in Seq(Piece) /\ Len(NextBlob) = Len(f) + 1
        /\ \A j \in 1 .. Len(f) : NextBlob[j] = f[j]
        /\ NextBlob[Len(f) + 1] = b[k]
    BY <1>2, <1>7, <2>1, AppendProperties
  <2>3. DOMAIN NextBlob = 1 .. Len(f) + 1
    BY <2>2
  <2>4. \A j \in 1 .. Len(f) + 1 : j # k => j \in 1 .. Len(f)
    BY <1>4, <2>1
  <2>5. /\ k \in DOMAIN b /\ k \in DOMAIN NextBlob /\ NextBlob[k] = b[k]
        /\ \A j \in DOMAIN NextBlob : j # k => j \in DOMAIN f /\ NextBlob[j] = f[j]
    BY <1>4, <1>5, <2>1, <2>2, <2>3, <2>4
  <2>6. \A j \in DOMAIN f : j \in DOMAIN NextBlob
    BY <1>4, <1>5, <2>3
  <2>7. QED BY <2>2, <2>5, <2>6 DEF b, f, k
<1>10. QED BY <1>8, <1>9

\* What the directory holds after a file is written.
LEMMA AfterFile ==
    ASSUME EpochInv, Writing(todo), Head(todo) \in Files, files' = Written(Head(todo))
    PROVE  LET f == Head(todo)
               p == Len(signed)
           IN  /\ files' \in Directory
               /\ files'.blobs = IF f = "blob" THEN NextBlob ELSE files.blobs
               /\ files'.history = IF f = "history" THEN p ELSE files.history
               /\ files'.checkpoint = IF f = "checkpoint" THEN p ELSE files.checkpoint
               /\ files'.payload = IF f = "payload" THEN p ELSE files.payload
               /\ files'.expectation = IF f = "expectation" THEN p ELSE files.expectation
               /\ files'.b0 = IF f \in {"b0", "challenge"} THEN mem.b0 ELSE files.b0
               /\ files'.session =
                     IF f \in {"session", "challenge"} THEN mem.session ELSE files.session
               /\ files'.events = IF f = "events" THEN mem.session ELSE files.events
<1> DEFINE f == Head(todo)
<1>1. /\ files \in Directory /\ mem \in Memory /\ Len(signed) \in Nat
      /\ f = "blob" => NextBlob \in Seq(Piece)
  BY TheNextBlob DEF EpochInv, TypeInv
<1> HIDE DEF f
<1>2. f \in Files /\ files' = Written(f)
  BY DEF f
<1> DEFINE Result ==
      /\ files' \in Directory
      /\ files'.blobs = IF f = "blob" THEN NextBlob ELSE files.blobs
      /\ files'.history = IF f = "history" THEN Len(signed) ELSE files.history
      /\ files'.checkpoint = IF f = "checkpoint" THEN Len(signed) ELSE files.checkpoint
      /\ files'.payload = IF f = "payload" THEN Len(signed) ELSE files.payload
      /\ files'.expectation = IF f = "expectation" THEN Len(signed) ELSE files.expectation
      /\ files'.b0 = IF f \in {"b0", "challenge"} THEN mem.b0 ELSE files.b0
      /\ files'.session = IF f \in {"session", "challenge"} THEN mem.session ELSE files.session
      /\ files'.events = IF f = "events" THEN mem.session ELSE files.events
<1>3. ASSUME f = "challenge" PROVE Result
  <2>1. files' = [files EXCEPT !.b0 = mem.b0, !.session = mem.session]
    BY <1>2, <1>3 DEF Written
  <2>2. QED BY <1>1, <1>3, <2>1 DEF Directory, Memory
<1>4. ASSUME f = "b0" PROVE Result
  <2>1. files' = [files EXCEPT !.b0 = mem.b0]
    BY <1>2, <1>4 DEF Written
  <2>2. QED BY <1>1, <1>4, <2>1 DEF Directory, Memory
<1>5. ASSUME f = "session" PROVE Result
  <2>1. files' = [files EXCEPT !.session = mem.session]
    BY <1>2, <1>5 DEF Written
  <2>2. QED BY <1>1, <1>5, <2>1 DEF Directory, Memory
<1>6. ASSUME f = "events" PROVE Result
  <2>1. files' = [files EXCEPT !.events = mem.session]
    BY <1>2, <1>6 DEF Written
  <2>2. QED BY <1>1, <1>6, <2>1 DEF Directory, Memory
<1>7. ASSUME f = "blob" PROVE Result
  <2>1. files' = [files EXCEPT !.blobs = NextBlob]
    BY <1>2, <1>7 DEF Written
  <2>2. QED BY <1>1, <1>7, <2>1 DEF Directory, Memory
<1>8. ASSUME f = "history" PROVE Result
  <2>1. files' = [files EXCEPT !.history = Len(signed)]
    BY <1>2, <1>8 DEF Written
  <2>2. QED BY <1>1, <1>8, <2>1 DEF Directory, Memory
<1>9. ASSUME f = "checkpoint" PROVE Result
  <2>1. files' = [files EXCEPT !.checkpoint = Len(signed)]
    BY <1>2, <1>9 DEF Written
  <2>2. QED BY <1>1, <1>9, <2>1 DEF Directory, Memory
<1>10. ASSUME f = "payload" PROVE Result
  <2>1. files' = [files EXCEPT !.payload = Len(signed)]
    BY <1>2, <1>10 DEF Written
  <2>2. QED BY <1>1, <1>10, <2>1 DEF Directory, Memory
<1>11. ASSUME f = "manifest" PROVE Result
  <2>1. files' = [files EXCEPT !.manifest = mem.frames]
    BY <1>2, <1>11 DEF Written
  <2>2. QED BY <1>1, <1>11, <2>1 DEF Directory, Memory
<1>12. ASSUME f = "expectation" PROVE Result
  <2>1. files' = [files EXCEPT !.expectation = Len(signed)]
    BY <1>2, <1>12 DEF Written
  <2>2. QED BY <1>1, <1>12, <2>1 DEF Directory, Memory
<1>13. ASSUME f = "closed" PROVE Result
  <2>1. files' = files
    BY <1>2, <1>13 DEF Written
  <2>2. QED BY <1>1, <1>13, <2>1 DEF Directory, Memory
<1>14. Result
  <2>1. \/ f = "challenge" \/ f = "b0" \/ f = "session" \/ f = "events" \/ f = "blob" \/ f = "history"
        \/ f = "checkpoint" \/ f = "payload" \/ f = "manifest" \/ f = "expectation" \/ f = "closed"
    BY <1>2 DEF Files
  <2> HIDE DEF Result
  <2>2. QED BY <2>1, <1>3, <1>4, <1>5, <1>6, <1>7, <1>8, <1>9, <1>10, <1>11, <1>12, <1>13
<1>15. QED BY <1>14 DEF f

\* A program that writes what it signed.
LEMMA PublishKeeps == EpochInv /\ Write /\ Writing(todo) => EpochInv'
<1> SUFFICES ASSUME EpochInv, Write, Writing(todo) PROVE EpochInv'
  OBVIOUS
<1>1. /\ tree' = tree /\ best' = best /\ script' = script /\ sessions' = sessions
      /\ photos' = photos /\ signed' = signed /\ racing' = racing
      /\ todo # << >> /\ todo' = Tail(todo) /\ Go(mem)
      /\ Head(todo) \in Files /\ files' = Written(Head(todo))
  BY DEF Write, chainVars, Step, Go
<1> DEFINE f == Head(todo)
           p == Len(signed)
           r == signed[p]
           n == Len(r.blobs)
           c == Len(Closing)
           L == Len(todo)
<1>2. /\ p \in DOMAIN signed /\ r \in Checkpoint /\ Sealed(p, r) /\ p \in Nat
      /\ n \in Nat /\ c \in Nat /\ c >= 3 /\ L \in Nat \ {0} /\ Ordered(script, todo, n)
      /\ script \in DOMAIN Plan /\ c = 3 + Len(Plan[script].last)
  BY NextFile
<1>3. \/ f \in Late /\ L < c - 2
      \/ f = "payload" /\ L = c - 2
      \/ f = "checkpoint" /\ L = c - 1
      \/ f = "history" /\ L = c
      \/ f = "blob" /\ c < L /\ L <= c + n
      \/ f \in Early(script) /\ c + n < L
  BY NextFile
<1>4. /\ files' \in Directory
      /\ files'.blobs = IF f = "blob" THEN NextBlob ELSE files.blobs
      /\ files'.history = IF f = "history" THEN p ELSE files.history
      /\ files'.checkpoint = IF f = "checkpoint" THEN p ELSE files.checkpoint
      /\ files'.payload = IF f = "payload" THEN p ELSE files.payload
      /\ files'.expectation = IF f = "expectation" THEN p ELSE files.expectation
      /\ files'.b0 = IF f \in {"b0", "challenge"} THEN mem.b0 ELSE files.b0
      /\ files'.session = IF f \in {"session", "challenge"} THEN mem.session ELSE files.session
      /\ files'.events = IF f = "events" THEN mem.session ELSE files.events
  BY <1>1, AfterFile
<1>5. TypeInv' /\ WorldInv' /\ SignedInv' /\ PaidInv' /\ MemOK(mem)'
  BY <1>4, WriteKeepsTheRest
<1>6. /\ todo \in Seq(AskSteps \cup Files) /\ files \in Directory /\ mem \in Memory
      /\ sessions \in Seq(Nat) /\ tree \in Seq(BlockRecord)
  BY DEF EpochInv, TypeInv
<1>7. /\ Len(todo') = L - 1 /\ Len(todo') \in Nat
      /\ Range(todo) = {f} \cup Range(todo')
      /\ \A i \in DOMAIN todo' : i \in Nat \ {0} /\ i <= L - 1
      /\ todo' # << >> => L # 1 /\ Writing(todo') /\ mem' = mem
      /\ Ordered(script, todo', n)
  <2>1. PICK u \in Seq(AskSteps \cup Files) : u = Tail(todo)
    BY <1>1, <1>6, TailFacts
  <2>2. /\ Len(u) = L - 1 /\ Range(todo) = {f} \cup Range(u)
        /\ u # << >> => u[Len(u)] = todo[Len(todo)]
    BY <1>1, <1>6, <2>1, TailFacts
  <2>3. u # << >> => Len(u) \in Nat \ {0}
    BY EmptySeq
  <2>4. Ordered(script, u, n)
    BY <1>1, <1>2, <1>6, <2>1, OrderedTail
  <2>5. /\ u # << >> => L # 1 /\ Writing(u) /\ mem' = mem
        /\ Len(u) \in Nat /\ DOMAIN u = 1 .. Len(u)
    BY <1>1, <1>2, <2>2, <2>3 DEF Writing, Go
  <2>6. \A i \in DOMAIN u : i \in Nat \ {0} /\ i <= L - 1
    BY <2>2, <2>5
  <2>7. QED BY <1>1, <2>1, <2>2, <2>4, <2>5, <2>6
<1>8. /\ mem.session = r.session /\ mem.b0 = r.b0 /\ mem.frames = r.frames
      /\ \A j \in DOMAIN r.blobs :
            j <= n - (L - c) => j \in DOMAIN files.blobs /\ files.blobs[j] = r.blobs[j]
      /\ L < c => files.history = p
      /\ L < c - 1 => files.checkpoint = p
      /\ script \in Bindings => files.session = r.session /\ files.b0 = r.b0
  BY DEF EpochInv, WrittenInv
<1>9. LET k == n - (L - c) + 1
      IN  f = "blob" =>
             /\ k \in DOMAIN r.blobs /\ k \in DOMAIN NextBlob /\ NextBlob[k] = r.blobs[k]
             /\ \A j \in DOMAIN NextBlob :
                   j # k => j \in DOMAIN files.blobs /\ NextBlob[j] = files.blobs[j]
             /\ \A j \in DOMAIN files.blobs : j \in DOMAIN NextBlob
  BY TheNextBlob
<1>10. DOMAIN r.blobs = 1 .. n
  BY <1>2 DEF Checkpoint
<1>11. Known(r.session, r.b0) /\ r.session \in DOMAIN sessions
  BY <1>2 DEF Sealed, Known
<1>12. Closing' = Closing
  BY <1>1 DEF Closing
<1>13. /\ f \in {"b0", "session", "challenge"} => script \in {"sandwich", "g5"}
       /\ f \in {"b0", "session"} => script = "sandwich"
       /\ f = "challenge" => script = "g5"
       /\ f # "events"
  BY <1>3 DEF Late, Early
<1> HIDE DEF f, p, r, n, c, L
<1>14. StageOK(todo, mem)'
  <2>1. CASE todo' = << >>
    BY <2>1 DEF StageOK, Sensible, Signing, Range
  <2>2. CASE todo' # << >>
    BY <1>7, <2>2 DEF StageOK
  <2>3. QED BY <2>1, <2>2
<1>15. FilesInv'
  <2>1. FilesInv
    BY DEF EpochInv
  <2>2. ASSUME NEW i \in DOMAIN files'.blobs
        PROVE  \E q \in DOMAIN signed :
                  i \in DOMAIN signed[q].blobs /\ files'.blobs[i] = signed[q].blobs[i]
    <3>1. CASE f = "blob"
      <4>1. DOMAIN files'.blobs = DOMAIN NextBlob /\ files'.blobs[i] = NextBlob[i]
        BY <1>4, <3>1
      <4>2. CASE i = n - (L - c) + 1
        BY <1>2, <1>9, <3>1, <4>1, <4>2 DEF r
      <4>3. CASE i # n - (L - c) + 1
        BY <1>9, <2>1, <3>1, <4>1, <4>3 DEF FilesInv
      <4>4. QED BY <4>2, <4>3
    <3>2. CASE f # "blob"
      BY <1>4, <2>1, <3>2 DEF FilesInv
    <3>3. QED BY <3>1, <3>2
  <2>3. /\ IF script = "sandwich" THEN files'.session <= Len(sessions)
           ELSE Nothing(files'.session, files'.b0) \/ Known(files'.session, files'.b0)
        /\ files'.events <= Len(sessions)
    <3>1. r.session <= Len(sessions)
      BY <1>6, <1>11
    <3>2. CASE script = "sandwich"
      BY <1>4, <1>8, <1>13, <2>1, <3>1, <3>2 DEF FilesInv
    <3>3. CASE script # "sandwich" /\ f = "challenge"
      BY <1>4, <1>8, <1>11, <2>1, <3>3 DEF FilesInv
    <3>4. CASE script # "sandwich" /\ f # "challenge"
      <4>1. files'.b0 = files.b0 /\ files'.session = files.session /\ files'.events = files.events
        BY <1>4, <1>13, <3>4
      <4>2. QED BY <2>1, <3>4, <4>1 DEF FilesInv
    <3>5. QED BY <3>2, <3>3, <3>4
  <2>4. /\ files'.history <= p /\ files'.checkpoint <= p /\ files'.payload <= p
        /\ files'.expectation <= p
    BY <1>2, <1>4, <2>1 DEF FilesInv, p
  <2>5. QED BY <1>1, <2>2, <2>3, <2>4 DEF FilesInv, Known, p
<1>16. /\ \A j \in DOMAIN r.blobs :
             j <= n - (L - 1 - c) => j \in DOMAIN files'.blobs /\ files'.blobs[j] = r.blobs[j]
       /\ L - 1 < c => files'.history = p
       /\ L - 1 < c - 1 => files'.checkpoint = p
       /\ script \in Bindings => files'.session = r.session /\ files'.b0 = r.b0
  <2>1. ASSUME NEW j \in DOMAIN r.blobs, j <= n - (L - 1 - c)
        PROVE  j \in DOMAIN files'.blobs /\ files'.blobs[j] = r.blobs[j]
    <3>1. CASE f = "blob"
      <4>1. DOMAIN files'.blobs = DOMAIN NextBlob /\ files'.blobs[j] = NextBlob[j]
        BY <1>4, <3>1
      <4>2. CASE j = n - (L - c) + 1
        BY <1>9, <3>1, <4>1, <4>2
      <4>3. CASE j # n - (L - c) + 1
        <5>1. j <= n - (L - c)
          BY <1>2, <1>10, <2>1, <4>3
        <5>2. QED BY <1>8, <1>9, <3>1, <4>1, <4>3, <5>1
      <4>4. QED BY <4>2, <4>3
    <3>2. CASE f # "blob"
      <4>1. \/ L <= c \/ c + n < L
        BY <1>2, <1>3, <3>2
      <4>2. j <= n - (L - c)
        <5>1. j \in 1 .. n
          BY <1>10
        <5>2. QED BY <1>2, <2>1, <4>1, <5>1
      <4>3. QED BY <1>4, <1>8, <3>2, <4>2
    <3>3. QED BY <3>1, <3>2
  <2>2. L - 1 < c => files'.history = p
    <3>1. CASE L = c
      <4>1. f = "history"
        BY <1>2, <1>3, <3>1
      <4>2. QED BY <1>4, <4>1
    <3>2. CASE L < c
      BY <1>4, <1>8, <3>2
    <3>3. QED BY <1>2, <3>1, <3>2
  <2>3. L - 1 < c - 1 => files'.checkpoint = p
    <3>1. CASE L = c - 1
      <4>1. f = "checkpoint"
        BY <1>2, <1>3, <3>1
      <4>2. QED BY <1>4, <4>1
    <3>2. CASE L < c - 1
      BY <1>4, <1>8, <3>2
    <3>3. QED BY <1>2, <3>1, <3>2
  <2>4. script \in Bindings => files'.session = r.session /\ files'.b0 = r.b0
    BY <1>4, <1>8, <1>13 DEF Bindings
  <2>5. QED BY <2>1, <2>2, <2>3, <2>4
<1>17. WrittenInv'
  <2>1. SUFFICES ASSUME Writing(todo') PROVE WrittenInv'
    BY DEF WrittenInv
  <2>2. mem' = mem /\ signed' = signed /\ script' = script
    BY <1>1, <1>7, <2>1 DEF Writing
  <2>3. signed # << >>
    <3>1. signed = << >> => DOMAIN signed = {}
      OBVIOUS
    <3>2. QED BY <1>2, <3>1
  <2>4. Len(todo') = L - 1
    BY <1>7
  <2>5. QED BY <1>7, <1>8, <1>12, <1>16, <2>2, <2>3, <2>4 DEF WrittenInv, p, r, n, c
<1>18. OnceInv'
  <2>1. SUFFICES ASSUME script \in Bindings PROVE OnceInv'
    BY <1>1 DEF OnceInv
  <2>2. OnceInv
    BY DEF EpochInv
  <2>3. CASE f \in {"blob", "history", "checkpoint", "payload"}
    <3>1. files.payload = 0 /\ racing = 0 /\ \A x \in DOMAIN tree : tree[x].payload = 0
      BY <1>7, <2>1, <2>2, <2>3 DEF OnceInv, Frozen
    <3>2. files'.session = files.session /\ files'.b0 = files.b0
      BY <1>4, <2>3
    <3>3. CASE f # "payload"
      <4>1. files'.payload = 0
        BY <1>4, <3>1, <3>3
      <4>2. QED BY <1>1, <2>1, <2>2, <3>1, <3>2, <4>1 DEF OnceInv
    <3>4. CASE f = "payload"
      <4>1. L = c - 2 /\ files'.payload = p /\ files'.history = p /\ files'.checkpoint = p
        BY <1>2, <1>3, <1>4, <1>16, <3>4 DEF Late, Early
      <4>2. \A i \in DOMAIN r.blobs : i \in DOMAIN files'.blobs /\ files'.blobs[i] = r.blobs[i]
        <5>1. \A i \in DOMAIN r.blobs : i <= n - (L - 1 - c)
          BY <1>2, <1>10, <4>1
        <5>2. QED BY <1>16, <5>1
      <4>3. Frozen \cap Range(todo') = {}
        <5>1. \A i \in DOMAIN todo' : todo'[i] \in Late
          <6>1. ASSUME NEW i \in DOMAIN todo' PROVE todo'[i] \in Late
            <7>1. Len(todo') - i < c - 3
              BY <1>2, <1>7, <4>1
            <7>2. QED BY <1>2, <1>7, <7>1 DEF Ordered, Late
          <6>2. QED BY <6>1
        <5>2. QED BY <5>1 DEF Range, Late, Frozen
      <4>4. \A i \in DOMAIN r.blobs : r.blobs[i] = files'.blobs[i] /\ i \in DOMAIN files'.blobs
        BY <4>2
      <4>5. signed'[files'.payload] = r /\ files'.session = r.session /\ files'.b0 = r.b0
        BY <1>1, <1>16, <2>1, <4>1 DEF r
      <4>6. QED BY <1>1, <2>1, <2>2, <3>1, <3>2, <4>1, <4>2, <4>3, <4>5 DEF OnceInv
    <3>5. QED BY <3>3, <3>4
  <2>4. CASE f \in Late
    <3>1. /\ files'.payload = files.payload /\ files'.history = files.history
          /\ files'.checkpoint = files.checkpoint /\ files'.session = files.session
          /\ files'.b0 = files.b0 /\ files'.blobs = files.blobs
      BY <1>4, <2>4 DEF Late
    <3>2. Range(todo') \subseteq Range(todo)
      BY <1>7
    <3>3. QED BY <1>1, <2>1, <2>2, <3>1, <3>2 DEF OnceInv
  <2>5. Early(script) = {}
    BY <2>1 DEF Bindings, Early
  <2>6. QED BY <1>3, <2>3, <2>4, <2>5
<1>19. QED BY <1>5, <1>14, <1>15, <1>17, <1>18 DEF EpochInv

LEMMA WriteKeeps == EpochInv /\ Write => EpochInv'
BY AnnounceKeeps, PublishKeeps

-------------------------------------------------------------------------------
\* A block more, found on one there was, has the branch of that one below it.
LEMMA GrownMore ==
    ASSUME NEW t \in Seq(BlockRecord), Grown(t), NEW parent \in DOMAIN t, NEW block \in BlockRecord,
           block.branch = Append(t[parent].branch, Len(t) + 1), block.parent = parent
    PROVE  Grown(Append(t, block))
<1> DEFINE u == Append(t, block)
           found == Len(t) + 1
           below == t[parent].branch
           blocks == block.branch
<1>1. /\ DOMAIN u = DOMAIN t \cup {found} /\ u[found] = block /\ found \in Nat
      /\ \A b \in DOMAIN t : u[b] = t[b]
  OBVIOUS
<1>2. below \in Seq(Nat) /\ IsBranch(t, below) /\ Len(below) # 0 /\ below[Len(below)] = parent
  <2>1. t[parent] \in BlockRecord
    OBVIOUS
  <2>2. QED BY <2>1 DEF BlockRecord, Grown
<1>3. blocks = Append(below, found) /\ block.parent = parent
  OBVIOUS
<1> HIDE DEF u, found, below, blocks
<1>4. /\ Len(below) \in Nat /\ Len(blocks) = Len(below) + 1
      /\ blocks[Len(below) + 1] = found
      /\ \A i \in 1 .. Len(below) : blocks[i] = below[i]
  BY <1>1, <1>2, <1>3
<1>5. IsBranch(u, blocks)
  <2> SUFFICES ASSUME NEW i \in 1 .. Len(blocks)
               PROVE  /\ blocks[i] \in DOMAIN u /\ Len(u[blocks[i]].branch) = i
                      /\ i > 1 => u[blocks[i]].parent = blocks[i - 1]
                      /\ \A j \in 1 .. i : u[blocks[i]].branch[j] = blocks[j]
    BY DEF IsBranch
  <2>1. CASE i = Len(below) + 1
    <3>1. u[blocks[i]] = block /\ blocks[i] = found /\ i - 1 = Len(below) /\ Len(below) \in 1 .. Len(below)
      BY <2>1, <1>1, <1>2, <1>4
    <3>2. blocks[i - 1] = parent
      BY <3>1, <1>2, <1>4
    <3>3. QED BY <2>1, <3>1, <3>2, <1>1, <1>3, <1>4 DEF blocks
  <2>2. CASE i \in 1 .. Len(below)
    <3>1. blocks[i] \in DOMAIN t /\ Len(t[blocks[i]].branch) = i
          /\ (i > 1 => t[blocks[i]].parent = below[i - 1])
          /\ \A j \in 1 .. i : t[blocks[i]].branch[j] = below[j]
      BY <2>2, <1>2, <1>4 DEF IsBranch
    <3>2. /\ \A j \in 1 .. i : blocks[j] = below[j]
          /\ i > 1 => blocks[i - 1] = below[i - 1]
      <4>1. i > 1 => i - 1 \in 1 .. Len(below)
        BY <2>2, <1>4
      <4>2. \A j \in 1 .. i : j \in 1 .. Len(below)
        BY <2>2, <1>4
      <4>3. QED BY <4>1, <4>2, <1>4
    <3>3. QED BY <3>1, <3>2, <1>1
  <2>3. QED BY <2>1, <2>2, <1>4
<1>6. ASSUME NEW b \in DOMAIN u
      PROVE  /\ Len(u[b].branch) # 0 /\ u[b].branch[Len(u[b].branch)] = b
             /\ IsBranch(u, u[b].branch)
  <2>1. CASE b \in DOMAIN t
    <3>1. Len(t[b].branch) # 0 /\ t[b].branch[Len(t[b].branch)] = b /\ IsBranch(t, t[b].branch)
      BY <2>1 DEF Grown
    <3>2. IsBranch(u, t[b].branch)
      <4>1. PICK old : old = t[b].branch /\ IsBranch(t, old)
        BY <3>1
      <4>2. ASSUME NEW i \in 1 .. Len(old)
            PROVE  old[i] \in DOMAIN t /\ u[old[i]] = t[old[i]]
        BY <4>1, <1>1 DEF IsBranch
      <4>3. ASSUME NEW i \in 1 .. Len(old)
            PROVE  /\ old[i] \in DOMAIN u /\ Len(u[old[i]].branch) = i
                   /\ i > 1 => u[old[i]].parent = old[i - 1]
                   /\ \A j \in 1 .. i : u[old[i]].branch[j] = old[j]
        <5>1. /\ Len(t[old[i]].branch) = i
              /\ i > 1 => t[old[i]].parent = old[i - 1]
              /\ \A j \in 1 .. i : t[old[i]].branch[j] = old[j]
          BY <4>1 DEF IsBranch
        <5>2. old[i] \in DOMAIN u
          BY <4>2, <1>1
        <5>3. QED BY <4>2, <5>1, <5>2
      <4>4. IsBranch(u, old)
        BY <4>3 DEF IsBranch
      <4>5. QED BY <4>1, <4>4
    <3>3. u[b] = t[b]
      BY <2>1, <1>1
    <3>4. QED BY <3>1, <3>2, <3>3
  <2>2. CASE b = found
    <3>1. u[b].branch = blocks
      BY <2>2, <1>1 DEF blocks
    <3>2. Len(blocks) # 0 /\ blocks[Len(blocks)] = found
      BY <1>4
    <3>3. QED BY <3>1, <3>2, <2>2, <1>5
  <2>3. QED BY <2>1, <2>2, <1>1
<1>7. QED BY <1>6 DEF Grown, u

\* What is signed, and what is on disk, came to be before now.
LEMMA AllReal ==
    ASSUME EpochInv
    PROVE  /\ \A p \in DOMAIN signed : \A i \in DOMAIN signed[p].blobs : Real(signed[p].blobs[i])
           /\ \A i \in DOMAIN files.blobs : Real(files.blobs[i])
<1>1. \A p \in DOMAIN signed : \A i \in DOMAIN signed[p].blobs : Real(signed[p].blobs[i])
  BY DEF EpochInv, SignedInv, Sealed, Belongs
<1>2. QED BY <1>1 DEF EpochInv, FilesInv

\* A block is found, with the payload of the race's template or without: what the
\* payload commits to came to be before.
LEMMA FindKeeps ==
    ASSUME EpochInv, NEW payload \in {0, racing}, Find(payload)
    PROVE  EpochInv'
<1>1. PICK b \in DOMAIN tree : Grow(b, payload)
  BY DEF Find
<1> DEFINE found == Len(tree) + 1
           block == [parent |-> b, payload |-> payload, branch |-> Append(tree[b].branch, found)]
<1>2. /\ tree' = Append(tree, block)
      /\ best' = IF Height(b) + 1 > Height(best) THEN found ELSE best
      /\ script' = script /\ sessions' = sessions /\ todo' = todo /\ mem' = mem
      /\ signed' = signed /\ files' = files /\ photos' = photos /\ racing' = racing
  BY <1>1 DEF Grow, Find, World, running
<1>3. /\ tree \in Seq(BlockRecord) /\ best \in DOMAIN tree /\ racing \in Nat /\ b \in Nat
      /\ sessions \in Seq(Nat) /\ signed \in Seq(Checkpoint) /\ files \in Directory /\ mem \in Memory
      /\ photos \in [frames : FrameSets, at : Nat, copies : Nat]
  BY DEF EpochInv, TypeInv
<1>4. block \in BlockRecord /\ found \in Nat
  <2>1. tree[b] \in BlockRecord
    BY <1>3
  <2>2. tree[b].branch \in Seq(Nat) /\ found \in Nat /\ payload \in Nat
    <3>1. tree[b].branch \in Seq(Nat)
      BY <2>1 DEF BlockRecord
    <3>2. QED BY <1>3, <3>1
  <2>3. Append(tree[b].branch, found) \in Seq(Nat)
    BY <2>2, AppendProperties
  <2>4. QED BY <1>3, <2>2, <2>3 DEF BlockRecord
<1>5. block.parent = b /\ block.payload = payload /\ block.branch = Append(tree[b].branch, found)
  OBVIOUS
<1> HIDE DEF block
<1>6. /\ tree' \in Seq(BlockRecord) /\ Len(tree') = found /\ Len(tree) \in Nat
      /\ DOMAIN tree' = DOMAIN tree \cup {found} /\ DOMAIN tree = 1 .. Len(tree)
      /\ tree'[found] = block /\ \A c \in DOMAIN tree : tree'[c] = tree[c]
  <2>1. /\ tree' \in Seq(BlockRecord) /\ Len(tree') = Len(tree) + 1
        /\ \A c \in 1 .. Len(tree) : tree'[c] = tree[c]
        /\ tree'[Len(tree) + 1] = block
    BY <1>2, <1>3, <1>4, AppendProperties
  <2>2. DOMAIN tree' = 1 .. Len(tree) + 1 /\ DOMAIN tree = 1 .. Len(tree) /\ Len(tree) \in Nat
    BY <2>1, <1>3
  <2>3. 1 .. Len(tree) + 1 = (1 .. Len(tree)) \cup {Len(tree) + 1}
    BY <2>2
  <2>4. QED BY <2>1, <2>2, <2>3
<1>7. TypeInv'
  <2>1. best' \in DOMAIN tree'
    BY <1>2, <1>3, <1>6
  <2>2. TypeInv
    BY DEF EpochInv
  <2>3. QED BY <1>2, <1>6, <2>1, <2>2 DEF TypeInv
<1>8. /\ TreeOK /\ Grown(tree) /\ photos.at <= Len(tree)
      /\ \A s \in DOMAIN sessions : sessions[s] \in DOMAIN tree
  BY DEF EpochInv, WorldInv
<1>9. TreeOK'
  <2>1. \A c \in DOMAIN tree' : tree'[c].parent \in 0 .. (c - 1)
    <3>1. tree'[found].parent \in 0 .. (found - 1)
      BY <1>3, <1>5, <1>6
    <3>2. QED BY <1>6, <1>8, <3>1 DEF TreeOK
  <2>2. \A c \in DOMAIN tree : Len(tree[c].branch) \in Nat /\ tree[c].branch \in Seq(Nat)
    <3>1. \A c \in DOMAIN tree : tree[c] \in BlockRecord
      BY <1>3
    <3>2. QED BY <3>1 DEF BlockRecord
  <2>3. Len(block.branch) = Len(tree[b].branch) + 1
    BY <1>4, <1>5, <2>2
  <2>4. \A c \in DOMAIN tree : Len(tree[c].branch) <= Len(tree[best].branch)
    BY <1>8 DEF TreeOK, Height
  <2>5. \A c \in DOMAIN tree' : Len(tree'[c].branch) <= Len(tree'[best'].branch)
    <3>1. CASE Len(tree[b].branch) + 1 > Len(tree[best].branch)
      <4>1. tree'[best'] = block
        BY <1>2, <1>6, <3>1 DEF Height
      <4>2. \A c \in DOMAIN tree : Len(tree[c].branch) <= Len(block.branch)
        BY SMTT(30), <1>3, <2>2, <2>3, <2>4, <3>1
      <4>3. QED BY <1>4, <1>6, <2>2, <2>3, <4>1, <4>2
    <3>2. CASE ~(Len(tree[b].branch) + 1 > Len(tree[best].branch))
      <4>1. tree'[best'] = tree[best] /\ best \in DOMAIN tree
        BY <1>2, <1>3, <1>6, <3>2 DEF Height
      <4>2. Len(block.branch) <= Len(tree[best].branch)
        BY <1>3, <2>2, <2>3, <3>2
      <4>3. QED BY <1>6, <2>4, <4>1, <4>2
    <3>3. QED BY <3>1, <3>2
  <2>6. QED BY <2>1, <2>5 DEF TreeOK, Height
<1>10. Grown(tree')
  BY <1>2, <1>3, <1>4, <1>5, <1>8, GrownMore
<1>11. WorldInv'
  <2>1. photos'.at <= Len(tree')
    BY <1>2, <1>3, <1>6, <1>8
  <2>2. \A s \in DOMAIN sessions' : sessions'[s] \in DOMAIN tree'
    BY <1>2, <1>6, <1>8
  <2>3. Grown(tree)'
    BY <1>10
  <2>4. QED BY <1>9, <2>1, <2>2, <2>3 DEF WorldInv
<1>12. /\ \A s, b0 : Known(s, b0) => Known(s, b0)'
       /\ \A x \in Piece : \A s, b0 : Belongs(x, s, b0) => Belongs(x, s, b0)'
       /\ \A p : \A r \in Checkpoint : Sealed(p, r) => Sealed(p, r)'
  <2>1. Len(tree) <= Len(tree')
    BY <1>3, <1>6
  <2>2. QED BY <1>2, <1>3, <1>6, <2>1, Outlives
<1>13. MemOK(mem)'
  <2>1. MemOK(mem) /\ mem.witnesses \in Seq(Piece) /\ mem.last \in Seq(Piece)
    BY <1>3 DEF EpochInv, Memory
  <2>2. \A i \in DOMAIN mem.witnesses : Belongs(mem.witnesses[i], mem.session, mem.b0)'
    <3>1. ASSUME NEW i \in DOMAIN mem.witnesses PROVE Belongs(mem.witnesses[i], mem.session, mem.b0)'
      <4>0. mem.witnesses[i] \in Piece /\ Belongs(mem.witnesses[i], mem.session, mem.b0)
        BY <2>1 DEF MemOK
      <4>1. PICK x, s, b0 :
               /\ x \in Piece /\ Belongs(x, s, b0)
               /\ x = mem.witnesses[i] /\ s = mem.session /\ b0 = mem.b0
        BY <4>0, Zenon
      <4>2. Belongs(x, s, b0)'
        BY <1>12, <4>1
      <4>3. QED BY <1>2, <4>1, <4>2 DEF Belongs, Real
    <3>2. QED BY <3>1
  <2>3. \A i \in DOMAIN mem.last : Belongs(mem.last[i], mem.session, mem.b0)'
    <3>1. ASSUME NEW i \in DOMAIN mem.last PROVE Belongs(mem.last[i], mem.session, mem.b0)'
      <4>0. mem.last[i] \in Piece /\ Belongs(mem.last[i], mem.session, mem.b0)
        BY <2>1 DEF MemOK
      <4>1. PICK x, s, b0 :
               /\ x \in Piece /\ Belongs(x, s, b0)
               /\ x = mem.last[i] /\ s = mem.session /\ b0 = mem.b0
        BY <4>0, Zenon
      <4>2. Belongs(x, s, b0)'
        BY <1>12, <4>1
      <4>3. QED BY <1>2, <4>1, <4>2 DEF Belongs, Real
    <3>2. QED BY <3>1
  <2>4. QED BY <1>2, <2>1, <2>2, <2>3 DEF MemOK, Known, Belongs, Real
<1>14. StageOK(todo, mem)' /\ WrittenInv'
  BY ZenonT(30), <1>2 DEF EpochInv, StageOK, WrittenInv, Closing
<1>15. SignedInv'
  <2>1. ASSUME NEW p \in DOMAIN signed PROVE Sealed(p, signed[p])'
    <3>1. PICK r \in Checkpoint : r = signed[p] /\ Sealed(p, r)
      BY <1>3 DEF EpochInv, SignedInv
    <3>2. Sealed(p, r)'
      BY <1>12, <3>1
    <3>3. r = signed'[p]
      BY <1>2, <3>1
    <3>4. QED BY <3>2, <3>3 DEF Sealed
  <2>2. QED BY <1>2, <2>1 DEF SignedInv
<1>16. FilesInv'
  BY <1>2 DEF EpochInv, FilesInv, Known
<1>17. \A i \in DOMAIN files.blobs : files.blobs[i].at < found
  <2>1. \A i \in DOMAIN files.blobs : files.blobs[i].at <= Len(tree) /\ files.blobs[i].at \in Nat
    <3>1. \A i \in DOMAIN files.blobs : files.blobs[i] \in Piece
      BY SMTT(30), <1>3 DEF Directory
    <3>2. \A i \in DOMAIN files.blobs : files.blobs[i].at <= Len(tree)
      BY AllReal DEF Real
    <3>3. QED BY <3>1, <3>2 DEF Piece
  <2>2. QED BY <1>3, <2>1
<1>18. \A p \in DOMAIN signed : \A i \in DOMAIN signed[p].blobs : signed[p].blobs[i].at < found
  <2>1. \A p \in DOMAIN signed : \A i \in DOMAIN signed[p].blobs : signed[p].blobs[i] \in Piece
    <3>1. \A p \in DOMAIN signed : signed[p] \in Checkpoint
      BY <1>3
    <3>2. QED BY <3>1 DEF Checkpoint
  <2>2. \A p \in DOMAIN signed : \A i \in DOMAIN signed[p].blobs : signed[p].blobs[i].at <= Len(tree)
    BY AllReal DEF Real
  <2>3. QED BY SMTT(30), <1>3, <2>1, <2>2 DEF Piece
<1>19. PaidInv'
  <2>1. /\ racing <= Len(signed)
        /\ \A c \in DOMAIN tree :
              /\ tree[c].payload <= Len(signed)
              /\ tree[c].payload # 0 =>
                    \A i \in DOMAIN signed[tree[c].payload].blobs :
                        signed[tree[c].payload].blobs[i].at < c
    BY DEF EpochInv, PaidInv
  <2>2. payload <= Len(signed) /\ (payload # 0 => payload \in DOMAIN signed)
    BY <1>3, <2>1
  <2>3. /\ tree'[found].payload = payload
        /\ payload # 0 => \A i \in DOMAIN signed[payload].blobs : signed[payload].blobs[i].at < found
    BY <1>5, <1>6, <1>18, <2>2
  <2>4. QED BY ZenonT(30), <1>2, <1>6, <2>1, <2>2, <2>3 DEF PaidInv
<1>20. OnceInv'
  <2>1. OnceInv
    BY DEF EpochInv
  <2>2. script \in Bindings => payload = 0 \/ payload = files.payload
    BY <2>1 DEF OnceInv
  <2>3. tree'[found].payload = payload
    BY <1>5, <1>6
  <2>4. QED BY <1>2, <1>6, <1>17, <2>1, <2>2, <2>3 DEF OnceInv
<1>21. QED BY <1>7, <1>11, <1>13, <1>14, <1>15, <1>16, <1>19, <1>20 DEF EpochInv

\* The race takes the payload up, or photographs are put there.
LEMMA AroundKeeps == EpochInv /\ (BuildTemplate \/ Shoot) => EpochInv'
<1> SUFFICES ASSUME EpochInv, BuildTemplate \/ Shoot PROVE EpochInv'
  OBVIOUS
<1>1. /\ tree' = tree /\ best' = best /\ script' = script /\ sessions' = sessions /\ todo' = todo
      /\ mem' = mem /\ signed' = signed /\ files' = files
  BY DEF BuildTemplate, Shoot, World, running, chainVars
<1>2. /\ tree \in Seq(BlockRecord) /\ racing \in Nat /\ files \in Directory
      /\ signed \in Seq(Checkpoint)
      /\ photos \in [frames : FrameSets, at : Nat, copies : Nat] /\ photos.at <= Len(tree)
      /\ racing <= Len(signed) /\ files.payload <= Len(signed)
      /\ script \in Bindings => racing = 0 \/ racing = files.payload
  BY DEF EpochInv, TypeInv, WorldInv, PaidInv, OnceInv, FilesInv
<1>3. /\ racing' = racing \/ racing' = files.payload
      /\ photos' \in [frames : FrameSets, at : Nat, copies : Nat] /\ photos'.at <= Len(tree)
  <2>1. CASE BuildTemplate
    BY <1>2, <2>1 DEF BuildTemplate
  <2>2. CASE Shoot
    <3>1. PICK frames \in Series :
             photos' = [frames |-> frames, at |-> Len(tree), copies |-> photos.copies + 1]
      BY <2>2 DEF Shoot
    <3>2. Len(tree) \in Nat /\ photos.copies + 1 \in Nat /\ frames \in FrameSets
      BY <1>2 DEF FrameSets
    <3>3. racing' = racing
      BY <2>2 DEF Shoot
    <3>4. QED BY <3>1, <3>2, <3>3
  <2>3. QED BY <2>1, <2>2
<1>4. racing' \in Nat /\ racing' <= Len(signed)
  BY <1>2, <1>3 DEF Directory
<1>5. TypeInv'
  BY <1>1, <1>3, <1>4 DEF EpochInv, TypeInv
<1>6. WorldInv'
  BY <1>1, <1>3 DEF EpochInv, WorldInv, TreeOK, Height, Grown, IsBranch
<1>7. MemOK(mem)' /\ StageOK(todo, mem)'
  BY ZenonT(30), <1>1 DEF EpochInv, MemOK, Known, Belongs, Real, StageOK
<1>8. SignedInv'
  <2>1. ASSUME NEW p \in DOMAIN signed PROVE Sealed(p, signed[p])'
    <3>1. Sealed(p, signed[p])
      BY DEF EpochInv, SignedInv
    <3>2. QED BY <1>1, <3>1 DEF Sealed, Known, Belongs, Real
  <2>2. QED BY <1>1, <2>1 DEF SignedInv
<1>9. FilesInv' /\ WrittenInv'
  BY <1>1 DEF EpochInv, FilesInv, Known, WrittenInv, Closing
<1>10. PaidInv'
  BY <1>1, <1>4 DEF EpochInv, PaidInv
<1>11. OnceInv'
  BY <1>1, <1>2, <1>3 DEF EpochInv, OnceInv
<1>12. QED BY <1>5, <1>6, <1>7, <1>8, <1>9, <1>10, <1>11 DEF EpochInv

-------------------------------------------------------------------------------
LEMMA EpochInit == Init => EpochInv
<1> SUFFICES ASSUME Init PROVE EpochInv
  OBVIOUS
<1>1. /\ tree = <<[parent |-> 0, branch |-> <<1>>, payload |-> 0]>> /\ best = 1
      /\ script \in Scripts /\ sessions = << >> /\ signed = << >>
      /\ photos = [frames |-> {}, at |-> 0, copies |-> 0]
      /\ todo = << >> /\ mem = NoMemory /\ racing = 0
      /\ files = [b0 |-> 0, session |-> 0, events |-> 0, blobs |-> << >>, history |-> 0,
                  checkpoint |-> 0, payload |-> 0, manifest |-> {}, expectation |-> 0]
  BY DEF Init, InitTree
<1>2. /\ tree \in Seq(BlockRecord) /\ DOMAIN tree = {1} /\ Len(tree) = 1 /\ tree[1].parent = 0
      /\ tree[1].branch = <<1>> /\ tree[1].payload = 0
  <2>1. PICK x : x = [parent |-> 0, branch |-> <<1>>, payload |-> 0]
    OBVIOUS
  <2>2. x \in BlockRecord /\ x.parent = 0 /\ x.branch = <<1>> /\ x.payload = 0
    BY <2>1 DEF BlockRecord
  <2>3. tree = <<x>>
    BY <1>1, <2>1
  <2>4. QED BY <2>2, <2>3
<1>3. TypeInv
  <2>1. sessions \in Seq(Nat) /\ signed \in Seq(Checkpoint) /\ todo \in Seq(AskSteps \cup Files)
    BY <1>1
  <2>2. mem \in Memory
    BY <1>1, Idle
  <2>3. files \in Directory /\ photos \in [frames : FrameSets, at : Nat, copies : Nat] /\ racing \in Nat
    BY <1>1 DEF Directory, FrameSets
  <2>4. QED BY <1>1, <1>2, <2>1, <2>2, <2>3 DEF TypeInv
<1>4. WorldInv
  <2>1. TreeOK
    BY <1>1, <1>2 DEF TreeOK, Height
  <2>2. Grown(tree)
    <3>1. PICK x : x = tree[1].branch /\ Len(x) = 1 /\ x[1] = 1
      BY <1>2
    <3>2. DOMAIN tree = {1} /\ \A i \in 1 .. Len(x) : i = 1
      BY <1>2, <3>1
    <3>3. IsBranch(tree, x)
      BY <3>1, <3>2 DEF IsBranch
    <3>4. \A b \in DOMAIN tree : tree[b].branch = x /\ x[Len(x)] = b /\ Len(x) # 0
      BY <3>1, <3>2
    <3>5. QED BY <3>3, <3>4 DEF Grown
  <2>3. QED BY <1>1, <1>2, <2>1, <2>2 DEF WorldInv
<1>5. MemOK(mem) /\ StageOK(todo, mem)
  BY <1>1, Idle
<1>6. SignedInv /\ WrittenInv
  BY <1>1 DEF SignedInv, WrittenInv, Writing
<1>7. FilesInv
  <2>1. DOMAIN files.blobs = {} /\ Len(sessions) = 0 /\ Len(signed) = 0
    BY <1>1
  <2>2. /\ files.session = 0 /\ files.b0 = 0 /\ files.events = 0 /\ files.history = 0
        /\ files.checkpoint = 0 /\ files.payload = 0 /\ files.expectation = 0
    BY <1>1
  <2>3. QED BY <2>1, <2>2 DEF FilesInv, Nothing
<1>8. PaidInv
  <2>1. racing <= Len(signed)
    BY <1>1
  <2>2. QED BY <1>1, <1>2, <2>1 DEF PaidInv
<1>9. OnceInv
  <2>1. files.payload = 0
    BY <1>1
  <2>2. QED BY <1>1, <1>2, <2>1 DEF OnceInv
<1>10. QED BY <1>3, <1>4, <1>5, <1>6, <1>7, <1>8, <1>9 DEF EpochInv

LEMMA EpochStep == EpochInv /\ [Next]_vars => EpochInv'
<1> SUFFICES ASSUME EpochInv, [Next]_vars PROVE EpochInv'
  OBVIOUS
<1>1. CASE Others \/ Anchor
  BY <1>1, FindKeeps DEF Others, Anchor
<1>2. CASE BuildTemplate \/ Shoot
  BY <1>2, AroundKeeps
<1>3. CASE Open \/ Run \/ Rehearse \/ Crash
  BY <1>3, BeginKeeps, CrashKeeps
<1>4. CASE FetchTip \/ ReadChallenge \/ AskRoughtime \/ AskNtp
  BY <1>4, FetchTipKeeps, ReadChallengeKeeps, AskRoughtimeKeeps, AskNtpKeeps
<1>5. CASE MakeRecord \/ ReadCapture \/ HashFrames \/ Assess
  BY <1>5, MakeRecordKeeps, ReadCaptureKeeps, HashFramesKeeps, AssessKeeps
<1>6. CASE Sign \/ Write
  BY <1>6, SignKeeps, WriteKeeps
<1>7. CASE UNCHANGED vars
  <2>1. /\ tree' = tree /\ best' = best /\ script' = script /\ sessions' = sessions /\ todo' = todo
        /\ mem' = mem /\ signed' = signed /\ files' = files /\ photos' = photos /\ racing' = racing
    BY <1>7 DEF vars, chainVars, running
  <2>2. TypeInv' /\ WorldInv' /\ PaidInv' /\ OnceInv'
    BY <2>1 DEF EpochInv, TypeInv, WorldInv, TreeOK, Height, Grown, IsBranch, PaidInv, OnceInv
  <2>3. MemOK(mem)' /\ StageOK(todo, mem)' /\ FilesInv' /\ WrittenInv'
    <3>1. MemOK(mem)' /\ StageOK(todo, mem)'
      BY ZenonT(30), <2>1 DEF EpochInv, MemOK, Known, Belongs, Real, StageOK
    <3>2. FilesInv' /\ WrittenInv'
      BY <2>1 DEF EpochInv, FilesInv, Known, WrittenInv, Closing
    <3>3. QED BY <3>1, <3>2
  <2>4. SignedInv'
    <3>1. ASSUME NEW p \in DOMAIN signed PROVE Sealed(p, signed[p])'
      <4>1. Sealed(p, signed[p])
        BY DEF EpochInv, SignedInv
      <4>2. QED BY <2>1, <4>1 DEF Sealed, Known, Belongs, Real
    <3>2. QED BY <2>1, <3>1 DEF SignedInv
  <2>5. QED BY <2>2, <2>3, <2>4 DEF EpochInv
<1>8. QED BY <1>1, <1>2, <1>3, <1>4, <1>5, <1>6, <1>7 DEF Next

\* The invariant holds of every epoch, whichever script, bounds and photographs.
LEMMA EpochAlways == Spec => []EpochInv
BY EpochInit, EpochStep, PTL DEF Spec

-------------------------------------------------------------------------------
\* What is always so of the blocks, of what is signed and of the directory.
LEMMA Around ==
    ASSUME EpochInv
    PROVE  /\ tree \in Seq(BlockRecord) /\ best \in DOMAIN tree /\ Grown(tree) /\ TreeOK
           /\ script \in Scripts /\ script \in DOMAIN Plan
           /\ signed \in Seq(Checkpoint) /\ files \in Directory /\ sessions \in Seq(Nat)
           /\ \A p \in DOMAIN signed : signed[p] \in Checkpoint /\ Sealed(p, signed[p])
           /\ \A c \in DOMAIN tree :
                 /\ c \in Nat /\ tree[c].payload \in Nat /\ tree[c].branch \in Seq(Nat)
                 /\ tree[c].payload # 0 => tree[c].payload \in DOMAIN signed
<1>1. /\ tree \in Seq(BlockRecord) /\ best \in DOMAIN tree /\ script \in Scripts
      /\ signed \in Seq(Checkpoint) /\ files \in Directory /\ sessions \in Seq(Nat)
  BY DEF EpochInv, TypeInv
<1>2. Grown(tree) /\ TreeOK
  BY DEF EpochInv, WorldInv
<1>3. \A p \in DOMAIN signed : signed[p] \in Checkpoint /\ Sealed(p, signed[p])
  BY <1>1 DEF EpochInv, SignedInv
<1>4. \A c \in DOMAIN tree : tree[c].payload <= Len(signed)
  BY DEF EpochInv, PaidInv
<1>5. ASSUME NEW c \in DOMAIN tree
      PROVE  /\ c \in Nat /\ tree[c].payload \in Nat /\ tree[c].branch \in Seq(Nat)
             /\ tree[c].payload # 0 => tree[c].payload \in DOMAIN signed
  <2>1. tree[c] \in BlockRecord /\ c \in Nat
    BY <1>1
  <2>2. tree[c].payload \in Nat /\ tree[c].branch \in Seq(Nat)
    BY <2>1 DEF BlockRecord
  <2>3. QED BY <1>1, <1>4, <2>1, <2>2
<1>6. script \in DOMAIN Plan
  BY <1>1, ScriptsAssumption
<1>7. QED BY <1>1, <1>2, <1>3, <1>5, <1>6

\* The blocks of the chain are blocks there are, each on the one before.
LEMMA TheChain ==
    ASSUME EpochInv
    PROVE  /\ chain \in Seq(Nat) /\ IsBranch(tree, chain)
           /\ \A i \in DOMAIN chain : chain[i] \in DOMAIN tree
<1>1. /\ best \in DOMAIN tree /\ Grown(tree) /\ tree[best].branch \in Seq(Nat)
  BY Around
<1>2. chain = tree[best].branch
  BY DEF chain, BranchOf
<1>3. IsBranch(tree, chain)
  BY <1>1, <1>2 DEF Grown
<1>4. \A i \in DOMAIN chain : chain[i] \in DOMAIN tree
  BY <1>1, <1>2, <1>3 DEF IsBranch
<1>5. QED BY <1>1, <1>2, <1>3, <1>4

\* A sequence that another starts with.
LEMMA Prefix ==
    ASSUME NEW S, NEW a \in Seq(S), NEW b \in Seq(S),
           \A i \in DOMAIN a : i \in DOMAIN b /\ b[i] = a[i]
    PROVE  a = SubSeq(b, 1, Len(a))
<1>1. Len(a) \in Nat /\ Len(b) \in Nat /\ DOMAIN a = 1 .. Len(a) /\ DOMAIN b = 1 .. Len(b)
  OBVIOUS
<1>2. Len(a) <= Len(b)
  <2>1. CASE Len(a) = 0
    BY <1>1, <2>1
  <2>2. CASE Len(a) # 0
    <3>1. Len(a) \in DOMAIN a
      BY <1>1, <2>2
    <3>2. Len(a) \in 1 .. Len(b)
      BY <1>1, <3>1
    <3>3. QED BY <3>2
  <2>3. QED BY <2>1, <2>2
<1>3. CASE Len(a) = 0
  <2>1. a = << >>
    BY <1>3, EmptySeq
  <2>2. SubSeq(b, 1, Len(a)) = << >>
    BY <1>3, SubSeqProperties
  <2>3. QED BY <2>1, <2>2
<1>4. CASE Len(a) # 0
  <2> DEFINE c == SubSeq(b, 1, Len(a))
  <2>1. c \in Seq(S) /\ Len(c) = Len(a) /\ \A i \in 1 .. Len(a) : c[i] = b[i]
    BY <1>1, <1>2, <1>4, SubSeqProperties
  <2> HIDE DEF c
  <2>2. a = c
    BY <1>1, <2>1, SeqEqual
  <2>3. QED BY <2>2 DEF c
<1>5. QED BY <1>3, <1>4

-------------------------------------------------------------------------------
LEMMA TypeHolds == EpochInv => TypeOK
<1> SUFFICES ASSUME EpochInv PROVE TypeOK
  OBVIOUS
<1>1. /\ tree \in Seq(BlockRecord) /\ TreeOK /\ script \in Scripts
      /\ signed \in Seq(Checkpoint) /\ files \in Directory /\ sessions \in Seq(Nat)
      /\ \A p \in DOMAIN signed : signed[p] \in Checkpoint /\ Sealed(p, signed[p])
  BY Around
<1>2. \A s \in DOMAIN sessions : sessions[s] \in DOMAIN tree
  BY DEF EpochInv, WorldInv
<1>3. \A r \in DOMAIN signed : signed[r].session \in DOMAIN sessions
  BY <1>1 DEF Sealed, Known
<1>4. mem.session \in 0 .. Len(sessions)
  <2>1. Nothing(mem.session, mem.b0) \/ Known(mem.session, mem.b0)
    BY DEF EpochInv, MemOK
  <2>2. QED BY <1>1, <2>1 DEF Nothing, Known
<1>5. /\ files.session \in Nat /\ files.events \in Nat /\ files.history \in Nat
      /\ files.checkpoint \in Nat /\ files.payload \in Nat /\ files.expectation \in Nat
      /\ files.blobs \in Seq(Piece)
  BY <1>1 DEF Directory
<1>6. /\ files.events <= Len(sessions)
      /\ files.history <= Len(signed) /\ files.checkpoint <= Len(signed)
      /\ files.payload <= Len(signed) /\ files.expectation <= Len(signed)
  BY DEF EpochInv, FilesInv
<1>7. files.session \in 0 .. Len(sessions)
  <2>1. \/ files.session <= Len(sessions)
        \/ Nothing(files.session, files.b0) \/ Known(files.session, files.b0)
    BY DEF EpochInv, FilesInv
  <2>2. QED BY <1>1, <1>5, <2>1 DEF Nothing, Known
<1>8. Len(files.blobs) <= 2 * (Bounds[script].ntp + Bounds[script].roughtime) + Bounds[script].records
  <2>1. /\ Bounds[script].records \in Nat /\ Most(script) \in Nat
        /\ Most(script) = 2 * (Bounds[script].ntp + Bounds[script].roughtime)
    BY <1>1, BoundsFit
  <2>2. CASE Len(files.blobs) = 0
    BY <2>1, <2>2
  <2>3. CASE Len(files.blobs) # 0
    <3>1. Len(files.blobs) \in DOMAIN files.blobs /\ Len(files.blobs) \in Nat
      BY <1>5, <2>3
    <3>2. PICK p \in DOMAIN signed : Len(files.blobs) \in DOMAIN signed[p].blobs
      BY <3>1 DEF EpochInv, FilesInv
    <3>3. signed[p].blobs \in Seq(Piece)
      BY <1>1 DEF Checkpoint
    <3>4. Len(signed[p].blobs) <= Most(script) + Bounds[script].records
      BY <1>1 DEF Sealed
    <3>5. QED BY <2>1, <3>1, <3>2, <3>3, <3>4
  <2>4. QED BY <2>2, <2>3
<1>9. {files.session, files.events, mem.session} \subseteq 0 .. Len(sessions)
  BY <1>1, <1>4, <1>5, <1>6, <1>7
<1>10. {files.history, files.checkpoint, files.payload, files.expectation} \subseteq 0 .. Len(signed)
  BY <1>1, <1>5, <1>6
<1>11. QED BY <1>1, <1>2, <1>3, <1>8, <1>9, <1>10 DEF TypeOK

\* Blocks form a tree, and whatever a file, a checkpoint or a running program names is
\* there: no step of a script or of the race refers to a session, a checkpoint or a blob
\* that does not exist, however many runs were killed.
THEOREM EpochTypes == Spec => []TypeOK
BY EpochAlways, TypeHolds, PTL

-------------------------------------------------------------------------------
LEMMA AnchoredHolds == EpochInv => AnchoredStaysOnDisk
<1> SUFFICES ASSUME EpochInv, script \in Bindings, NEW b \in Range(chain), tree[b].payload # 0
             PROVE  LET r == signed[tree[b].payload]
                    IN  /\ {files.history, files.checkpoint, files.payload} = {tree[b].payload}
                        /\ files.session = r.session /\ files.b0 = r.b0
                        /\ r.blobs = SubSeq(files.blobs, 1, Len(r.blobs))
  BY DEF AnchoredStaysOnDisk
<1>1. b \in DOMAIN tree
  BY TheChain DEF Range
<1>2. files.payload = tree[b].payload
  BY <1>1 DEF EpochInv, OnceInv
<1>3. PICK r : r = signed[files.payload]
  OBVIOUS
<1>4. /\ files.history = files.payload /\ files.checkpoint = files.payload
      /\ files.session = r.session /\ files.b0 = r.b0
      /\ \A i \in DOMAIN r.blobs : i \in DOMAIN files.blobs /\ files.blobs[i] = r.blobs[i]
  BY <1>2, <1>3 DEF EpochInv, OnceInv
<1>5. r \in Checkpoint /\ files \in Directory
  BY <1>1, <1>2, <1>3, Around
<1>6. r.blobs \in Seq(Piece) /\ files.blobs \in Seq(Piece)
  BY <1>5 DEF Checkpoint, Directory
<1>7. r.blobs = SubSeq(files.blobs, 1, Len(r.blobs))
  BY <1>4, <1>6, Prefix
<1>8. QED BY <1>2, <1>3, <1>4, <1>7

\* The scripts that refuse to run twice (run_satroot.py, run_binding_pm.py,
\* close_galileo.py, run_naxytra.py): nothing that may still run, be killed or be
\* started again takes from the directory what an anchored payload commits to.
THEOREM AnchoredIsKept == Spec => []AnchoredStaysOnDisk
BY EpochAlways, AnchoredHolds, PTL

-------------------------------------------------------------------------------
\* A set of numbers has a least.
LEMMA Least ==
    ASSUME NEW S, S \subseteq Nat, S # {}
    PROVE  \E x \in S : \A y \in S : x <= y
<1> DEFINE less == {ss \in Nat \X Nat : ss[1] < ss[2]}
<1>1. IsWellFoundedOn(less, Nat)
  BY NatLessThanWellFounded DEF OpToRel
<1>2. PICK x \in S : \A y \in S : ~(<<y, x>> \in less)
  <2> HIDE DEF less
  <2>1. QED BY <1>1, WFMin
<1>3. \A y \in S : <<y, x>> \in less <=> y < x
  OBVIOUS
<1> HIDE DEF less
<1>4. \A y \in S : x \in Nat /\ y \in Nat /\ ~(y < x)
  BY <1>2, <1>3
<1>5. QED BY <1>4

\* A finite set of numbers has a greatest: a smallest one without would have one less.
LEMMA Greatest ==
    ASSUME NEW S, S \subseteq Nat, S # {}, IsFiniteSet(S)
    PROVE  \E x \in S : \A y \in S : y <= x
<1> DEFINE Top(T) == \E x \in T : \A y \in T : y <= x
           sizes == {n \in Nat : \E T \in SUBSET S : T # {} /\ Cardinality(T) = n /\ ~Top(T)}
<1>1. SUFFICES ASSUME ~Top(S) PROVE FALSE
  OBVIOUS
<1>2. Cardinality(S) \in sizes
  BY <1>1, FS_CardinalityType
<1>3. sizes \subseteq Nat /\ sizes # {}
  BY <1>2
<1>4. PICK n \in sizes : \A m \in sizes : n <= m
  <2> HIDE DEF sizes
  <2>1. QED BY <1>3, Least
<1>5. PICK T \in SUBSET S : T # {} /\ Cardinality(T) = n /\ ~Top(T)
  BY <1>4
<1>6. PICK x \in T : TRUE
  BY <1>5
<1>7. IsFiniteSet(T) /\ IsFiniteSet(T \ {x}) /\ Cardinality(T \ {x}) = n - 1 /\ n - 1 \in Nat /\ n \in Nat
  <2>1. IsFiniteSet(T)
    BY FS_Subset
  <2>2. IsFiniteSet(T \ {x}) /\ Cardinality(T \ {x}) = Cardinality(T) - 1
    BY <1>6, <2>1, FS_RemoveElement
  <2>3. QED BY <1>5, <2>1, <2>2, FS_CardinalityType
<1>8. T \ {x} # {}
  <2>1. T \ {x} = {} => T = {x}
    BY <1>6
  <2>2. T = {x} => Top(T)
    OBVIOUS
  <2>3. QED BY <1>5, <2>1, <2>2
<1>9. Top(T \ {x})
  <2>1. ~(n - 1 \in sizes)
    <3> HIDE DEF sizes
    <3>1. QED BY <1>4, <1>7
  <2>2. T \ {x} \in SUBSET S
    BY <1>5
  <2>3. QED BY <1>7, <1>8, <2>1, <2>2
<1>10. PICK z \in T \ {x} : \A y \in T \ {x} : y <= z
  BY <1>9
<1>11. x \in Nat /\ z \in Nat /\ T \subseteq Nat
  BY <1>5, <1>6, <1>10
<1>12. CASE x <= z
  BY <1>5, <1>10, <1>11, <1>12
<1>13. CASE z <= x
  <2>1. \A y \in T : y <= x
    BY <1>10, <1>11, <1>13
  <2>2. QED BY <1>5, <1>6, <2>1
<1>14. QED BY <1>11, <1>12, <1>13

\* The span of a series is that of two of its slots.
LEMMA SpanOfTwo ==
    ASSUME NEW slots, slots \subseteq Nat, slots # {}, IsFiniteSet(slots)
    PROVE  \E i, j \in slots : Span(slots) = SlotLen * (j - i)
<1> DEFINE apart == {j - i : i, j \in slots}
<1>1. PICK low \in slots : \A y \in slots : low <= y
  BY Least
<1>2. PICK high \in slots : \A y \in slots : y <= high
  BY Greatest
<1>3. high - low \in apart
  BY <1>1, <1>2
<1>4. \A m \in apart : m <= high - low
  <2>1. \A i, j \in slots : j - i <= high - low
    <3>1. SUFFICES ASSUME NEW i \in slots, NEW j \in slots PROVE j - i <= high - low
      OBVIOUS
    <3>2. i \in Nat /\ j \in Nat /\ low \in Nat /\ high \in Nat /\ low <= i /\ j <= high
      BY <1>1, <1>2
    <3>3. QED BY <3>2
  <2>2. QED BY <2>1
<1>5. Span(slots) = SlotLen * CHOOSE n \in apart : \A m \in apart : m <= n
  BY DEF Span
<1>6. PICK n : n = CHOOSE k \in apart : \A m \in apart : m <= k
  OBVIOUS
<1> HIDE DEF apart
<1>7. n \in apart
  BY <1>3, <1>4, <1>6
<1>8. Span(slots) = SlotLen * n
  BY <1>5, <1>6
<1>9. QED BY <1>7, <1>8 DEF apart

\* A second is in its slot.
LEMMA SlotFits ==
    ASSUME NEW t \in Nat, NEW i, i = t \div SlotLen
    PROVE  i \in Nat /\ SlotLen * i <= t /\ t < SlotLen * i + SlotLen
<1>1. SlotLen \in Nat \ {0}
  BY RollingAssumption
<1>2. QED BY <1>1

\* The last slot less the first is at least the minimum, and a frame of the first
\* may have been taken at its end.
LEMMA StrongHolds == EpochInv => StrongSeriesLasts
<1> SUFFICES ASSUME EpochInv, NEW p \in DOMAIN signed, script = "g6",
                    Shortfall(signed[p].frames, signed[p].coded) = {}
             PROVE  LET coded == signed[p].coded
                    IN  /\ coded \subseteq signed[p].frames /\ Cardinality(coded) >= MinFrames
                        /\ \E x, y \in coded : y.at - x.at > MinSpan - SlotLen
  BY DEF StrongSeriesLasts
<1>1. PICK frames, coded : frames = signed[p].frames /\ coded = signed[p].coded
  OBVIOUS
<1>2. /\ coded \in SUBSET frames /\ coded # {} /\ frames \in FrameSets
  <2>1. signed[p] \in Checkpoint /\ Sealed(p, signed[p])
    BY Around
  <2>2. QED BY <1>1, <2>1 DEF Checkpoint, Sealed, Declarations
<1>3. IsFiniteSet(coded) /\ \A x \in coded : x.at \in Nat
  <2>1. frames \in Series
    BY <1>2 DEF FrameSets
  <2>2. IsFiniteSet(frames) /\ \A x \in frames : x.at \in Nat
    BY <2>1, EpochAssumption
  <2>3. QED BY <1>2, <2>2, FS_Subset
<1>4. SlotLen \in Nat \ {0} /\ MinSpan \in Nat \ {0} /\ MinFrames \in Nat /\ Cardinality(coded) \in Nat
  BY <1>3, RollingAssumption, FS_CardinalityType
<1> DEFINE slots == Slots(coded)
<1>5. ~(Cardinality(coded) < MinFrames) /\ ~(Span(slots) < MinSpan)
  BY <1>1 DEF Shortfall, CodeBearing
<1>6. slots \subseteq Nat /\ slots # {} /\ IsFiniteSet(slots)
  <2> DEFINE f == [x \in coded |-> x.at \div SlotLen]
  <2>1. \A x \in coded : x.at \div SlotLen \in Nat
    BY <1>3, SlotFits
  <2>2. f \in Surjection(coded, slots)
    BY DEF Surjection, Slots
  <2>3. slots \subseteq Nat /\ slots # {}
    BY <1>2, <2>1 DEF Slots
  <2> HIDE DEF slots, f
  <2>4. QED BY <1>3, <2>2, <2>3, FS_Surjection
<1>7. PICK i, j \in slots : Span(slots) = SlotLen * (j - i)
  <2> HIDE DEF slots
  <2>1. QED BY <1>6, SpanOfTwo
<1>8. PICK x \in coded : i = x.at \div SlotLen
  BY DEF Slots
<1>9. PICK y \in coded : j = y.at \div SlotLen
  BY DEF Slots
<1> HIDE DEF slots
<1>10. PICK u, v, w : u = SlotLen * i /\ v = SlotLen * j /\ w = SlotLen * (j - i)
  OBVIOUS
<1>11. /\ i \in Nat /\ j \in Nat /\ x.at \in Nat /\ y.at \in Nat
       /\ x.at < u + SlotLen /\ v <= y.at /\ u \in Nat /\ v \in Nat
  <2>1. x.at \in Nat /\ y.at \in Nat
    BY <1>3
  <2>2. i \in Nat /\ SlotLen * i <= x.at /\ x.at < SlotLen * i + SlotLen
    BY <1>8, <2>1, SlotFits
  <2>3. j \in Nat /\ SlotLen * j <= y.at
    BY <1>9, <2>1, SlotFits
  <2>4. SlotLen * i \in Nat /\ SlotLen * j \in Nat
    BY <1>4, <2>2, <2>3
  <2>5. QED BY <1>10, <2>1, <2>2, <2>3, <2>4
<1>12. w = v - u /\ w >= MinSpan
  BY <1>4, <1>5, <1>7, <1>10, <1>11
<1>13. y.at - x.at > MinSpan - SlotLen
  BY <1>4, <1>11, <1>12
<1>14. Cardinality(coded) >= MinFrames
  BY <1>4, <1>5
<1>15. QED BY <1>1, <1>2, <1>13, <1>14

\* run_g6.py, assess(): a series consolidated as strong has its code-bearing frames
\* among those of the manifest, enough of them, and two of them further apart than the
\* minimum less one slot, for any thresholds and any series.
THEOREM StrongMeansLong == Spec => []StrongSeriesLasts
BY EpochAlways, StrongHolds, PTL

-------------------------------------------------------------------------------
\* What a pass asks of a bundle nobody supplied an extension with.
LEMMA VerdictWhen ==
    ASSUME NEW b, NEW core \in BOOLEAN, b.core = Of(core), b.linked \in BOOLEAN,
           b.chained \in BOOLEAN, b.agreed \in BOOLEAN, b.expected = TRUE, b.framed = TRUE
    PROVE  Verdict(b, "absent") \in Passing <=>
              /\ core /\ Bound(b) /\ Echoed(b) /\ Tagged(b)
              /\ \A k \in DOMAIN b.history : Fits(b, b.history[k])
              /\ Counted(b) /\ Foreign(b) = {} /\ b.linked /\ b.chained
<1> DEFINE fit == Measured(b)
           R == Results(b, "absent")
<1>1. R = {Of(core), Of(Bound(b)), Of(Echoed(b)), Of(Tagged(b)), Of(fit), "true",
           IF Foreign(b) # {} THEN "NOT_CHECKED" ELSE "true", Of(b.linked), Of(b.chained),
           IF b.agreed THEN "true" ELSE "NOT_APPLICABLE"}
  <2>1. Of(~ExtensionFailed(b, "absent")) = "true"
    BY DEF ExtensionFailed, Of
  <2>2. Unchecked(b, "absent") <=> Foreign(b) # {}
    BY DEF Unchecked
  <2>3. Of(b.expected) = "true"
    BY DEF Of
  <2>4. QED BY <2>1, <2>2, <2>3, Zenon DEF Results
<1> HIDE DEF fit, R
<1>2. Verdict(b, "absent") \in Passing <=>
         "UNAVAILABLE" \notin R /\ "false" \notin R /\ "NOT_CHECKED" \notin R
  BY DEF Verdict, Passing, R
<1>3. \A test \in BOOLEAN : Of(test) \in {"true", "false"} /\ (Of(test) = "false" <=> ~test)
  BY DEF Of
<1>4. Bound(b) \in BOOLEAN /\ Echoed(b) \in BOOLEAN /\ Tagged(b) \in BOOLEAN /\ fit \in BOOLEAN
  BY DEF Bound, Echoed, Tagged, fit, Measured
<1>5. "UNAVAILABLE" \notin R
  BY <1>1, <1>3, <1>4
<1>6. "NOT_CHECKED" \notin R <=> Foreign(b) = {}
  BY <1>1, <1>3, <1>4
<1>7. "false" \notin R <=>
         core /\ Bound(b) /\ Echoed(b) /\ Tagged(b) /\ fit /\ b.linked /\ b.chained
  BY <1>1, <1>3, <1>4
<1>8. QED BY <1>2, <1>5, <1>6, <1>7 DEF fit, Measured

\* The blobs an observation can come from.
Positions == {i \in DOMAIN files.blobs : files.blobs[i].of \notin {"external", "capture"}}

Observations == signed[files.history].history

\* The bundle the assemblers make, as the verifier sees it.
LEMMA TheBundle ==
    ASSUME EpochInv, files.checkpoint \in DOMAIN signed, files.history \in DOMAIN signed
    PROVE  /\ Checked.core = Of(Committed /\ files.history = files.checkpoint)
           /\ Checked.linked = Linked(Path) /\ Checked.chained = Linked(Later)
           /\ Checked.agreed = Agreed /\ Agreed \in BOOLEAN /\ Checked.expected = TRUE
           /\ Checked.framed = TRUE
           /\ Range(Checked.evidence) = {View(files.blobs[i]) : i \in DOMAIN files.blobs}
           /\ Foreign(Checked) = {}
           /\ Indexed(Checked) = {View(files.blobs[i]) : i \in Positions}
           /\ DOMAIN Checked.history = DOMAIN Observations
           /\ \A k \in DOMAIN Observations :
                 /\ Checked.history[k].cites = <<View(Observations[k])>>
                 /\ Checked.history[k].sound = TRUE
           /\ Measurable(Checked) = Cardinality(Positions)
           /\ Len(Checked.history) = Len(Observations)
<1> DEFINE b == Checked
<1>1. /\ b.core = Of(Committed /\ files.history = files.checkpoint)
      /\ b.linked = Linked(Path) /\ b.chained = Linked(Later)
      /\ b.agreed = Agreed /\ b.expected = TRUE /\ b.framed = TRUE
      /\ b.evidence = [i \in DOMAIN files.blobs |-> View(files.blobs[i])]
      /\ b.history = [k \in DOMAIN Observations |->
                         [cites |-> <<View(Observations[k])>>, sound |-> TRUE]]
  BY DEF Checked, Seen, Observations
<1> HIDE DEF b
<1>2. Agreed \in BOOLEAN
  BY Around DEF Agreed, Checkpoint
<1>3. DOMAIN b.evidence = DOMAIN files.blobs /\ \A i \in DOMAIN files.blobs : b.evidence[i] = View(files.blobs[i])
  BY <1>1
<1>4. Range(b.evidence) = {View(files.blobs[i]) : i \in DOMAIN files.blobs}
  BY <1>3 DEF Range
<1>5. \A x : View(x).typ = IF x.of \in {"external", "capture"} THEN "EXTERNAL" ELSE "NTP"
  BY DEF View, TypeOf
<1>6. Foreign(b) = {}
  BY <1>4, <1>5 DEF Foreign
<1>7. Indexed(b) = {View(files.blobs[i]) : i \in Positions}
  <2>1. ASSUME NEW y PROVE y \in Indexed(b) <=> y \in {View(files.blobs[i]) : i \in Positions}
    BY <1>4, <1>5 DEF Indexed, Positions
  <2>2. QED BY <2>1, Zenon
<1>8. {i \in DOMAIN b.evidence : b.evidence[i].typ # "EXTERNAL"} = Positions
  BY <1>3, <1>5 DEF Positions
<1>9. Len(b.history) = Len(Observations)
  <2>1. Observations \in Seq(Piece)
    BY Around DEF Observations, Checkpoint
  <2>2. DOMAIN b.history = 1 .. Len(Observations) /\ Len(Observations) \in Nat
    BY <1>1, <2>1
  <2>3. PICK n \in Nat : n = Len(Observations)
    BY <2>2
  <2>4. PICK S : \A k \in 1 .. n : b.history[k] \in S
    <3>1. \A k \in 1 .. n : b.history[k] \in Range(b.history)
      BY <2>2, <2>3 DEF Range
    <3>2. QED BY <3>1
  <2>5. b.history = [k \in 1 .. n |-> b.history[k]]
    BY <1>1, <2>2, <2>3
  <2>6. b.history \in Seq(S) /\ Len(b.history) = n
    <3>1. b.history \in [1 .. n -> S]
      BY <2>4, <2>5
    <3>2. QED BY <2>3, <2>2, <3>1, LenProperties, SeqDef
  <2>7. QED BY <2>3, <2>6
<1>10. Measurable(b) = Cardinality(Positions)
  BY <1>8 DEF Measurable
<1>11. /\ DOMAIN b.history = DOMAIN Observations
       /\ \A k \in DOMAIN Observations :
             b.history[k].cites = <<View(Observations[k])>> /\ b.history[k].sound = TRUE
  BY <1>1
<1>12. QED BY <1>1, <1>2, <1>4, <1>6, <1>7, <1>9, <1>10, <1>11 DEF b

\* The anchor taken is the lowest of those there are.
LEMMA TheAnchor ==
    ASSUME EpochInv, Anchors # {}
    PROVE  /\ AnchorAt \in DOMAIN chain /\ tree[chain[AnchorAt]].payload = files.payload
           /\ \E k \in DOMAIN chain : chain[k] = files.b0 /\ k < AnchorAt
<1>1. chain \in Seq(Nat)
  BY TheChain
<1>2. Anchors \subseteq Nat
  BY <1>1 DEF Anchors, AnchorsAbove
<1>3. \E i \in Anchors : \A j \in Anchors : i <= j
  BY <1>2, Least
<1>4. AnchorAt \in Anchors
  BY <1>3, Zenon DEF AnchorAt
<1>5. QED BY <1>4 DEF Anchors, AnchorsAbove

\* What passes, in the terms of the directory and of what is signed.
LEMMA PassMeans ==
    ASSUME EpochInv, Passes
    PROVE  /\ files.checkpoint \in DOMAIN signed /\ files.history = files.checkpoint
           /\ 0 \notin {files.b0, files.session, files.payload} /\ Anchors # {} /\ Manifested
           /\ tree[chain[AnchorAt]].payload = files.checkpoint
           /\ \A i \in DOMAIN files.blobs : Mine(files.blobs[i])
           /\ \A i \in Positions : files.blobs[i].of = "camera" => files.blobs[i].frames = files.manifest
           /\ \A k \in DOMAIN signed[files.checkpoint].history :
                 \E i \in Positions : files.blobs[i] = signed[files.checkpoint].history[k]
           /\ Cardinality(Positions) = Len(signed[files.checkpoint].history)
<1>1. /\ 0 \notin {files.b0, files.session, files.history, files.checkpoint, files.payload}
      /\ Anchors # {} /\ Verdict(Checked, "absent") \in Passing
  BY DEF Passes, CanAssemble
<1>2. files.checkpoint \in DOMAIN signed /\ files.history \in DOMAIN signed
  <2>1. files \in Directory /\ signed \in Seq(Checkpoint)
    BY Around
  <2>2. files.checkpoint \in Nat /\ files.history \in Nat
    BY <2>1 DEF Directory
  <2>3. files.checkpoint <= Len(signed) /\ files.history <= Len(signed)
    BY DEF EpochInv, FilesInv
  <2>4. QED BY <1>1, <2>1, <2>2, <2>3
<1> DEFINE b == Checked
           core == Committed /\ files.history = files.checkpoint
<1>3. /\ b.core = Of(core) /\ b.linked = Linked(Path) /\ b.chained = Linked(Later)
      /\ b.agreed \in BOOLEAN /\ b.expected = TRUE /\ b.framed = TRUE
      /\ Range(b.evidence) = {View(files.blobs[i]) : i \in DOMAIN files.blobs}
      /\ Foreign(b) = {} /\ Indexed(b) = {View(files.blobs[i]) : i \in Positions}
      /\ DOMAIN b.history = DOMAIN Observations
      /\ \A k \in DOMAIN Observations : b.history[k].cites = <<View(Observations[k])>>
      /\ Measurable(b) = Cardinality(Positions) /\ Len(b.history) = Len(Observations)
  BY <1>2, TheBundle
<1>4. core \in BOOLEAN /\ Linked(Path) \in BOOLEAN /\ Linked(Later) \in BOOLEAN
  BY DEF Linked, Committed
<1> HIDE DEF b, core
<1>5. /\ core /\ Bound(b) /\ Echoed(b) /\ Counted(b)
      /\ \A k \in DOMAIN b.history : Fits(b, b.history[k])
  BY <1>1, <1>3, <1>4, VerdictWhen DEF b
<1>6. files.history = files.checkpoint /\ Manifested /\ tree[chain[AnchorAt]].payload = files.checkpoint
  BY <1>5 DEF core, Committed
<1>7. Observations = signed[files.checkpoint].history
  BY <1>6 DEF Observations
<1>8. \A i \in DOMAIN files.blobs : Mine(files.blobs[i])
  <2>1. \A i \in DOMAIN files.blobs : View(files.blobs[i]).bound
    BY <1>3, <1>5, Zenon DEF Bound
  <2>2. \A x : View(x).bound = Mine(x)
    BY DEF View
  <2>3. QED BY <2>1, <2>2, Zenon
<1>9. \A i \in Positions : files.blobs[i].of = "camera" => files.blobs[i].frames = files.manifest
  <2>1. \A i \in Positions : View(files.blobs[i]).sound
    BY <1>3, <1>5, Zenon DEF Echoed
  <2>2. \A x : View(x).sound = (Mine(x) /\ (x.of = "camera" => x.frames = files.manifest))
    BY DEF View
  <2>3. QED BY <2>1, <2>2, Zenon
<1>10. ASSUME NEW k \in DOMAIN Observations
       PROVE  \E i \in Positions : files.blobs[i] = Observations[k]
  <2>1. Fits(b, b.history[k]) /\ b.history[k].cites = <<View(Observations[k])>>
    BY <1>3, <1>5
  <2>2. Cited(b.history[k]) = {View(Observations[k])}
    BY <2>1 DEF Cited, Range
  <2>3. View(Observations[k]) \in Indexed(b)
    BY <1>3, <2>1, <2>2 DEF Fits, Extended
  <2>4. PICK i \in Positions : View(files.blobs[i]) = View(Observations[k])
    BY <1>3, <2>3
  <2>5. \A x : View(x).id = x
    BY DEF View
  <2>6. files.blobs[i] = Observations[k]
    BY <2>4, <2>5, Zenon
  <2>7. QED BY <2>6
<1>11. Cardinality(Positions) = Len(Observations)
  BY <1>3, <1>5 DEF Counted
<1>12. QED BY <1>1, <1>2, <1>6, <1>7, <1>8, <1>9, <1>10, <1>11

-------------------------------------------------------------------------------
\* What a checkpoint commits to, item by item.
Itemised(p, r) ==
    /\ r.blobs \in Seq(Piece) /\ r.history \in Seq(Piece)
    /\ Len(r.history) \in Nat /\ Len(r.history) # 0
    /\ Len(r.history) <= Len(r.blobs) /\ Len(r.blobs) \in Nat
    /\ DOMAIN r.history = 1 .. Len(r.history) /\ DOMAIN r.blobs = 1 .. Len(r.blobs)
    /\ \A i \in 1 .. Len(r.history) : r.history[i] = r.blobs[i]
    /\ \A i, j \in 1 .. Len(r.history) : r.history[i] = r.history[j] => i = j
    /\ \A i \in 1 .. Len(r.blobs) :
          /\ r.blobs[i].session = r.session /\ r.blobs[i].b0 = r.b0
          /\ i <= Len(r.history) <=> r.blobs[i].of \in {"ntp", "roughtime", "camera"}
          /\ r.blobs[i].of \in {"ntp", "roughtime"} => r.blobs[i].by = p
          /\ r.blobs[i].of = "camera" => i = Len(r.blobs) /\ r.blobs[i].frames = r.frames
          /\ r.blobs[i].of \in {"ntp", "roughtime"} \cup Rest(script)
    /\ script \in Optical => r.blobs[Len(r.blobs)].of = "camera"
    /\ script \in Bindings =>
          /\ Len(r.history) < Len(r.blobs) /\ Len(r.history) % 2 = 0
          /\ script # "naxytra" => Len(r.blobs) = Len(r.history) + 1

LEMMA TheItems ==
    ASSUME EpochInv, NEW p \in DOMAIN signed
    PROVE  Itemised(p, signed[p])
<1> DEFINE r == signed[p]
<1>1. r \in Checkpoint /\ Sealed(p, r)
  BY Around
<1>2. r.blobs \in Seq(Piece) /\ r.history \in Seq(Piece)
  BY <1>1 DEF Checkpoint
<1>3. /\ Len(r.history) \in Nat /\ Len(r.blobs) \in Nat
      /\ DOMAIN r.history = 1 .. Len(r.history) /\ DOMAIN r.blobs = 1 .. Len(r.blobs)
  BY <1>2
<1> HIDE DEF r
<1>4. Itemised(p, r)
  BY <1>1, <1>2, <1>3 DEF Sealed, Belongs, Itemised
<1>5. QED BY <1>4 DEF r

\* An item of the directory is one that some run signed, at the same place.
LEMMA OnDisk ==
    ASSUME EpochInv, NEW i \in DOMAIN files.blobs, NEW x, x = files.blobs[i]
    PROVE  \E q \in DOMAIN signed :
              /\ i \in DOMAIN signed[q].blobs /\ x = signed[q].blobs[i]
              /\ i <= Len(signed[q].history) <=> x.of \in {"ntp", "roughtime", "camera"}
              /\ x.of \in {"ntp", "roughtime"} => x.by = q
              /\ x.of \in {"ntp", "roughtime"} \cup Rest(script)
<1>1. PICK q \in DOMAIN signed : i \in DOMAIN signed[q].blobs /\ x = signed[q].blobs[i]
  BY DEF EpochInv, FilesInv
<1>2. Sealed(q, signed[q])
  BY Around
<1>3. QED BY <1>1, <1>2 DEF Sealed

\* The place of a witness in the directory is that in the run that asked it.
LEMMA ItsPlace ==
    ASSUME EpochInv, NEW p \in DOMAIN signed, NEW i \in DOMAIN files.blobs,
           NEW k \in DOMAIN signed[p].history, files.blobs[i] = signed[p].history[k],
           files.blobs[i].of \in {"ntp", "roughtime"}
    PROVE  i = k
<1>1. PICK x : x = files.blobs[i]
  OBVIOUS
<1>2. PICK q \in DOMAIN signed :
         /\ i \in DOMAIN signed[q].blobs /\ x = signed[q].blobs[i]
         /\ i <= Len(signed[q].history) <=> x.of \in {"ntp", "roughtime", "camera"}
         /\ x.of \in {"ntp", "roughtime"} => x.by = q
  BY <1>1, OnDisk
<1>3. PICK r : r = signed[p]
  OBVIOUS
<1>4. /\ DOMAIN r.history = 1 .. Len(r.history) /\ Len(r.history) <= Len(r.blobs)
      /\ DOMAIN r.blobs = 1 .. Len(r.blobs) /\ Len(r.history) \in Nat /\ Len(r.blobs) \in Nat
      /\ \A j \in 1 .. Len(r.history) : r.history[j] = r.blobs[j]
      /\ \A j, l \in 1 .. Len(r.history) : r.history[j] = r.history[l] => j = l
      /\ \A j \in 1 .. Len(r.blobs) : r.blobs[j].of \in {"ntp", "roughtime"} => r.blobs[j].by = p
  <2>1. Itemised(p, r)
    BY <1>3, TheItems
  <2>2. QED BY <2>1 DEF Itemised
<1>5. k \in 1 .. Len(r.blobs) /\ r.blobs[k] = x
  BY <1>1, <1>3, <1>4
<1>6. x.by = p /\ x.by = q
  BY <1>1, <1>2, <1>4, <1>5
<1>7. i \in 1 .. Len(r.history) /\ r.history[i] = x
  BY <1>1, <1>2, <1>3, <1>4, <1>6
<1>8. QED BY <1>1, <1>3, <1>4, <1>7

\* Where a pass needs an interval: the blobs are as many as the observations, and
\* each is at the place its run gave it.
LEMMA WholeRun ==
    ASSUME EpochInv, Passes, script \notin Bindings
    PROVE  LET r == signed[files.checkpoint]
           IN  /\ Len(files.blobs) = Len(r.blobs)
               /\ \A i \in DOMAIN r.blobs : i \in DOMAIN files.blobs /\ files.blobs[i] = r.blobs[i]
               /\ r.session = files.session /\ r.b0 = files.b0
               /\ script \in Optical => r.frames = files.manifest
<1>1. PICK p \in DOMAIN signed : p = files.checkpoint
  BY PassMeans
<1>2. PICK r : r = signed[p]
  OBVIOUS
<1> DEFINE K == Len(r.history)
<1>3. /\ K \in Nat /\ K # 0 /\ K <= Len(r.blobs) /\ Len(r.blobs) \in Nat
      /\ DOMAIN r.history = 1 .. K /\ DOMAIN r.blobs = 1 .. Len(r.blobs)
      /\ \A i \in 1 .. K : r.history[i] = r.blobs[i]
      /\ \A i, j \in 1 .. K : r.history[i] = r.history[j] => i = j
      /\ \A i \in 1 .. Len(r.blobs) :
            /\ r.blobs[i].session = r.session /\ r.blobs[i].b0 = r.b0
            /\ i <= K <=> r.blobs[i].of \in {"ntp", "roughtime", "camera"}
            /\ r.blobs[i].of = "camera" => i = Len(r.blobs) /\ r.blobs[i].frames = r.frames
            /\ r.blobs[i].of \in {"ntp", "roughtime"} \cup Rest(script)
      /\ script \in Optical => r.blobs[Len(r.blobs)].of = "camera"
  <2>1. Itemised(p, r)
    BY <1>2, TheItems
  <2>2. QED BY <2>1 DEF Itemised
<1>4. /\ \A i \in DOMAIN files.blobs : Mine(files.blobs[i])
      /\ \A i \in Positions : files.blobs[i].of = "camera" => files.blobs[i].frames = files.manifest
      /\ \A k \in 1 .. K : \E i \in Positions : files.blobs[i] = r.history[k]
      /\ Cardinality(Positions) = K
  BY SMTT(30), <1>1, <1>2, <1>3, PassMeans
<1> HIDE DEF K
<1>5. Rest(script) \subseteq {"camera"}
  BY DEF Rest, Bindings, Optical
<1>6. K = Len(r.blobs)
  <2>1. Len(r.blobs) \in 1 .. Len(r.blobs)
    BY <1>3
  <2>2. r.blobs[Len(r.blobs)].of \in {"ntp", "roughtime", "camera"}
    BY <1>3, <1>5, <2>1
  <2>3. Len(r.blobs) <= K
    BY <1>3, <2>1, <2>2
  <2>4. QED BY <1>3, <2>3
<1>7. Positions = DOMAIN files.blobs
  <2>1. ASSUME NEW i \in DOMAIN files.blobs PROVE files.blobs[i].of \in {"ntp", "roughtime", "camera"}
    <3>1. files.blobs[i].of \in {"ntp", "roughtime"} \cup Rest(script)
      BY OnDisk
    <3>2. QED BY <1>5, <3>1
  <2>2. QED BY <2>1 DEF Positions
<1>8. files.blobs \in Seq(Piece)
  BY Around DEF Directory
<1>9. Len(files.blobs) = K /\ Positions = 1 .. K
  <2>1. Len(files.blobs) \in Nat /\ Positions = 1 .. Len(files.blobs)
    BY <1>7, <1>8
  <2>2. Cardinality(1 .. Len(files.blobs)) = Len(files.blobs)
    BY <2>1, FS_Interval
  <2>3. QED BY <1>4, <2>1, <2>2
<1>10. ASSUME NEW k \in 1 .. K, r.history[k].of # "camera"
       PROVE  files.blobs[k] = r.history[k]
  <2>1. PICK i \in Positions : files.blobs[i] = r.history[k]
    BY <1>4
  <2>2. r.history[k].of \in {"ntp", "roughtime"}
    BY <1>3, <1>5, <1>6, <1>10
  <2>3. i = k
    BY <1>1, <1>2, <1>3, <1>7, <2>1, <2>2, ItsPlace
  <2>4. QED BY <2>1, <2>3
<1>11. ASSUME NEW k \in 1 .. K, r.history[k].of = "camera"
       PROVE  files.blobs[k] = r.history[k]
  <2>1. PICK i \in 1 .. K : files.blobs[i] = r.history[k]
    BY <1>4, <1>9
  <2>2. k = K /\ (i # K => r.history[i].of # "camera")
    BY <1>3, <1>6, <1>11
  <2>3. i # K => r.history[i] = r.history[k]
    BY <1>10, <2>1, <2>2
  <2>4. i = k
    BY <1>3, <2>2, <2>3
  <2>5. QED BY <2>1, <2>4
<1>12. \A i \in DOMAIN r.blobs : i \in DOMAIN files.blobs /\ files.blobs[i] = r.blobs[i]
  BY <1>3, <1>6, <1>7, <1>9, <1>10, <1>11
<1>13. r.session = files.session /\ r.b0 = files.b0
  <2>1. 1 \in 1 .. Len(r.blobs)
    BY <1>3
  <2>2. 1 \in DOMAIN files.blobs /\ files.blobs[1] = r.blobs[1]
    BY <1>3, <1>12, <2>1
  <2>3. QED BY <1>3, <1>4, <2>1, <2>2 DEF Mine
<1>14. script \in Optical => r.frames = files.manifest
  <2>1. Len(r.blobs) \in 1 .. Len(r.blobs)
    BY <1>3
  <2>2. QED BY <1>3, <1>4, <1>7, <1>12, <2>1
<1>15. QED BY <1>1, <1>2, <1>6, <1>9, <1>12, <1>13, <1>14

\* Where a script refuses to run twice: what is past the blobs of the run that is
\* anchored is a record that an earlier attempt left.
LEMMA OnlyRecordsLeft ==
    ASSUME EpochInv, Passes, script \in Bindings
    PROVE  LET r == signed[files.checkpoint]
           IN  /\ \A i \in DOMAIN r.blobs : i \in DOMAIN files.blobs /\ files.blobs[i] = r.blobs[i]
               /\ r.session = files.session /\ r.b0 = files.b0
               /\ \A i \in DOMAIN files.blobs \ DOMAIN r.blobs :
                     script = "naxytra" /\ files.blobs[i].of = "external"
               /\ \A i \in DOMAIN files.blobs : files.blobs[i].at < chain[AnchorAt]
<1>1. PICK p \in DOMAIN signed : p = files.checkpoint
  BY PassMeans
<1>2. PICK r : r = signed[p]
  OBVIOUS
<1> DEFINE K == Len(r.history)
<1>3. /\ K \in Nat /\ K # 0 /\ K < Len(r.blobs) /\ Len(r.blobs) \in Nat /\ K % 2 = 0
      /\ DOMAIN r.history = 1 .. K /\ DOMAIN r.blobs = 1 .. Len(r.blobs)
      /\ \A i \in 1 .. Len(r.blobs) : i <= K <=> r.blobs[i].of \in {"ntp", "roughtime", "camera"}
      /\ script # "naxytra" => Len(r.blobs) = K + 1
  <2>1. Itemised(p, r)
    BY <1>2, TheItems
  <2>2. QED BY <2>1 DEF Itemised
<1>4. /\ Anchors # {} /\ tree[chain[AnchorAt]].payload = p /\ Cardinality(Positions) = K
  BY <1>1, <1>2, PassMeans
<1> HIDE DEF K
<1>5. chain[AnchorAt] \in DOMAIN tree /\ p # 0
  <2>1. signed \in Seq(Checkpoint)
    BY Around
  <2>2. QED BY <1>4, <2>1, TheAnchor, TheChain
<1>6. files.payload = p /\ \A i \in DOMAIN files.blobs : files.blobs[i].at < chain[AnchorAt]
  BY <1>4, <1>5 DEF EpochInv, OnceInv
<1>7. /\ files.session = r.session /\ files.b0 = r.b0
      /\ \A i \in DOMAIN r.blobs : i \in DOMAIN files.blobs /\ files.blobs[i] = r.blobs[i]
  BY <1>2, <1>5, <1>6 DEF EpochInv, OnceInv
<1>8. DOMAIN files.blobs = 1 .. Len(files.blobs) /\ Len(files.blobs) \in Nat
  <2>1. files.blobs \in Seq(Piece)
    BY Around DEF Directory
  <2>2. QED BY <2>1
<1>9. Positions = 1 .. K
  <2>1. 1 .. K \subseteq Positions
    <3>1. SUFFICES ASSUME NEW i \in 1 .. K PROVE i \in Positions
      OBVIOUS
    <3>2. i \in 1 .. Len(r.blobs)
      BY <1>3
    <3>3. i \in DOMAIN files.blobs /\ files.blobs[i].of \in {"ntp", "roughtime", "camera"}
      BY <1>3, <1>7, <3>2
    <3>4. QED BY <3>3 DEF Positions
  <2>2. IsFiniteSet(Positions)
    <3>1. IsFiniteSet(1 .. Len(files.blobs)) /\ Positions \in SUBSET (1 .. Len(files.blobs))
      BY <1>8, FS_Interval DEF Positions
    <3>2. QED BY <3>1, FS_Subset
  <2>3. Cardinality(1 .. K) = K
    BY <1>3, FS_Interval
  <2>4. QED BY <1>4, <2>1, <2>2, <2>3, FS_Subset
<1>10. ASSUME NEW i \in DOMAIN files.blobs \ DOMAIN r.blobs
       PROVE  script = "naxytra" /\ files.blobs[i].of = "external"
  <2>1. i \in Nat /\ i > Len(r.blobs) /\ i <= Len(files.blobs) /\ i > K
    BY <1>3, <1>8
  <2>2. files.blobs[i].of \in {"external", "capture"}
    <3>1. i \notin 1 .. K
      BY <1>3, <2>1
    <3>2. QED BY <1>9, <1>10, <3>1, Zenon DEF Positions
  <2>3. script = "naxytra"
    <3>1. SUFFICES ASSUME script # "naxytra" PROVE FALSE
      OBVIOUS
    <3>2. K + 2 \in DOMAIN files.blobs /\ K + 2 \notin 1 .. K
      BY <1>3, <1>8, <2>1, <3>1
    <3>3. files.blobs[K + 2].of \in {"external", "capture"}
      BY <1>9, <3>2 DEF Positions
    <3>4. PICK x : x = files.blobs[K + 2]
      OBVIOUS
    <3>5. PICK q \in DOMAIN signed :
             /\ K + 2 \in DOMAIN signed[q].blobs /\ x = signed[q].blobs[K + 2]
             /\ K + 2 <= Len(signed[q].history) <=> x.of \in {"ntp", "roughtime", "camera"}
      BY <3>2, <3>4, OnDisk
    <3>6. PICK z : z = signed[q]
      OBVIOUS
    <3>7. PICK k, n : k = Len(z.history) /\ n = Len(z.blobs)
      OBVIOUS
    <3>8. k \in Nat /\ k % 2 = 0 /\ n = k + 1 /\ DOMAIN z.blobs = 1 .. n
      <4>1. Itemised(q, z)
        BY <3>6, TheItems
      <4>2. QED BY <3>1, <3>7, <4>1 DEF Itemised
    <3>9. K + 2 \in 1 .. n /\ ~(K + 2 <= k)
      BY <3>3, <3>4, <3>5, <3>6, <3>7, <3>8
    <3>10. K + 2 = k + 1
      BY <1>3, <3>8, <3>9
    <3>11. k = K + 1
      BY <1>3, <3>8, <3>10
    <3>12. \A m \in Nat : m % 2 = 0 => (m + 1) % 2 # 0
      OBVIOUS
    <3>13. QED BY <1>3, <3>8, <3>11, <3>12
  <2>4. files.blobs[i].of \in {"ntp", "roughtime"} \cup Rest(script)
    BY OnDisk
  <2>5. Rest(script) = {"external"}
    BY <2>3 DEF Rest, Bindings, Optical
  <2>6. QED BY <2>2, <2>3, <2>4, <2>5
<1>11. QED BY <1>1, <1>2, <1>6, <1>7, <1>10

LEMMA OneRunHolds == EpochInv => OneRun
<1> SUFFICES ASSUME EpochInv, Passes
             PROVE  LET r == signed[files.checkpoint]
                    IN  /\ files.history = files.checkpoint
                        /\ r.session = files.session /\ r.b0 = files.b0
                        /\ r.blobs = SubSeq(files.blobs, 1, Len(r.blobs))
                        /\ \A i \in DOMAIN files.blobs \ DOMAIN r.blobs :
                              script = "naxytra" /\ files.blobs[i].of = "external"
                        /\ script \in Optical => r.frames = files.manifest
  BY DEF OneRun
<1>1. PICK r : r = signed[files.checkpoint]
  OBVIOUS
<1>2. files.checkpoint \in DOMAIN signed /\ files.history = files.checkpoint
  BY PassMeans
<1>3. r.blobs \in Seq(Piece) /\ files.blobs \in Seq(Piece)
  BY <1>1, <1>2, Around DEF Checkpoint, Directory
<1>4. /\ \A i \in DOMAIN r.blobs : i \in DOMAIN files.blobs /\ files.blobs[i] = r.blobs[i]
      /\ r.session = files.session /\ r.b0 = files.b0
  BY <1>1, WholeRun, OnlyRecordsLeft
<1>5. r.blobs = SubSeq(files.blobs, 1, Len(r.blobs))
  BY <1>3, <1>4, Prefix
<1>6. script \in Optical => r.frames = files.manifest
  <2>1. script \in Optical => script \notin Bindings
    BY DEF Optical, Bindings
  <2>2. QED BY <1>1, <2>1, WholeRun
<1>7. \A i \in DOMAIN files.blobs \ DOMAIN r.blobs : script = "naxytra" /\ files.blobs[i].of = "external"
  <2>1. CASE script \in Bindings
    BY <1>1, <2>1, OnlyRecordsLeft
  <2>2. CASE script \notin Bindings
    <3>1. Len(files.blobs) = Len(r.blobs)
      BY <1>1, <2>2, WholeRun
    <3>2. DOMAIN files.blobs = DOMAIN r.blobs
      BY <1>3, <3>1
    <3>3. QED BY <3>2
  <2>3. QED BY <2>1, <2>2
<1>8. QED BY <1>1, <1>2, <1>4, <1>5, <1>6, <1>7

\* What an assembler may make is the work of one run: the history and the checkpoint
\* are of the same one, its blobs stand where it wrote them, and nothing else is there
\* but records that naxytra left.
THEOREM BundleOfOneRun == Spec => []OneRun
BY EpochAlways, OneRunHolds, PTL

-------------------------------------------------------------------------------
LEMMA CausalHolds == EpochInv => CausalBound
<1> SUFFICES ASSUME EpochInv, Passes
             PROVE  LET c == chain[AnchorAt]
                    IN  /\ \A i \in DOMAIN files.blobs :
                              LET x == files.blobs[i]
                              IN  x.at < c /\ (x.of \in {"capture", "camera"} \/ files.b0 <= x.at)
                        /\ files.b0 \in Range(BranchOf(c))
  BY DEF CausalBound
<1>1. PICK c : c = chain[AnchorAt]
  OBVIOUS
<1>2. /\ files.checkpoint \in DOMAIN signed /\ Anchors # {} /\ tree[c].payload = files.checkpoint
      /\ \A i \in DOMAIN files.blobs : Mine(files.blobs[i])
  BY <1>1, PassMeans
<1>3. AnchorAt \in DOMAIN chain /\ \E k \in DOMAIN chain : chain[k] = files.b0 /\ k < AnchorAt
  BY <1>2, TheAnchor
<1>4. c \in DOMAIN tree
  BY <1>1, <1>3, TheChain
<1>5. \A i \in DOMAIN files.blobs : files.blobs[i].at < c
  <2>1. CASE script \in Bindings
    BY <1>1, <2>1, OnlyRecordsLeft
  <2>2. CASE script \notin Bindings
    <3>1. PICK r : r = signed[files.checkpoint]
      OBVIOUS
    <3>2. signed \in Seq(Checkpoint) /\ r \in Checkpoint /\ files \in Directory
      BY <1>2, <3>1, Around
    <3>3. \A i \in DOMAIN r.blobs : r.blobs[i].at < c
      BY <1>2, <1>4, <3>1, <3>2 DEF EpochInv, PaidInv
    <3>4. /\ Len(files.blobs) = Len(r.blobs)
          /\ \A i \in DOMAIN r.blobs : i \in DOMAIN files.blobs /\ files.blobs[i] = r.blobs[i]
      BY <2>2, <3>1, WholeRun
    <3>5. DOMAIN files.blobs = DOMAIN r.blobs
      <4>1. files.blobs \in Seq(Piece) /\ r.blobs \in Seq(Piece)
        BY <3>2 DEF Directory, Checkpoint
      <4>2. QED BY <3>4, <4>1
    <3>6. QED BY <3>3, <3>4, <3>5
  <2>3. QED BY <2>1, <2>2
<1>6. \A i \in DOMAIN files.blobs :
         files.blobs[i].of \in {"capture", "camera"} \/ files.b0 <= files.blobs[i].at
  BY <1>2, AllReal DEF Real, Mine
<1>7. files.b0 \in Range(BranchOf(c))
  <2>1. PICK k \in DOMAIN chain : chain[k] = files.b0 /\ k < AnchorAt
    BY <1>3
  <2>2. chain \in Seq(Nat) /\ IsBranch(tree, chain)
    BY TheChain
  <2>3. AnchorAt \in 1 .. Len(chain) /\ k \in 1 .. AnchorAt
    BY <1>3, <2>1, <2>2
  <2>4. Len(tree[c].branch) = AnchorAt /\ tree[c].branch[k] = chain[k]
    BY <1>1, <2>2, <2>3 DEF IsBranch
  <2>5. tree[c].branch \in Seq(Nat)
    BY <1>4, Around
  <2>6. k \in DOMAIN tree[c].branch
    BY <2>3, <2>4, <2>5
  <2>7. QED BY <2>1, <2>4, <2>6 DEF BranchOf, Range
<1>8. QED BY <1>1, <1>5, <1>6, <1>7

\* REALITY-SANDWICH.md, "B0 < acquisition < C": where a bundle would pass, everything
\* in it came to be before C was found and, where it holds the challenge, after B0; and
\* C stands on B0.
THEOREM BetweenB0AndC == Spec => []CausalBound
BY EpochAlways, CausalHolds, PTL

-------------------------------------------------------------------------------
\* A part of the chain is linked.
LEMMA LinkedPart ==
    ASSUME EpochInv, NEW m \in Nat \ {0}, NEW n \in Nat, n <= Len(chain)
    PROVE  Linked(SubSeq(chain, m, n))
<1> DEFINE part == SubSeq(chain, m, n)
<1>1. chain \in Seq(Nat) /\ IsBranch(tree, chain) /\ Len(chain) \in Nat
  BY TheChain
<1>2. /\ Len(part) = IF m <= n THEN n - m + 1 ELSE 0
      /\ \A i \in 1 .. n - m + 1 : part[i] = chain[m + i - 1]
  <2>1. \A i \in m .. n : chain[i] \in Nat
    BY <1>1
  <2>2. m \in Int /\ n \in Int
    OBVIOUS
  <2> HIDE DEF part
  <2>3. QED BY <2>1, <2>2, SubSeqProperties DEF part
<1> HIDE DEF part
<1>3. ASSUME NEW i \in 2 .. Len(part) PROVE tree[part[i]].parent = part[i - 1]
  <2>1. m <= n /\ Len(part) = n - m + 1
    BY <1>2
  <2>2. i \in 1 .. n - m + 1 /\ i - 1 \in 1 .. n - m + 1
    BY <2>1
  <2>3. part[i] = chain[m + i - 1] /\ part[i - 1] = chain[m + (i - 1) - 1]
    BY <1>2, <2>2
  <2>4. PICK k \in 1 .. Len(chain) : k = m + i - 1 /\ k > 1 /\ k - 1 = m + (i - 1) - 1
    BY <1>1, <2>1, <2>2
  <2>5. tree[chain[k]].parent = chain[k - 1]
    BY <1>1, <2>4 DEF IsBranch
  <2>6. QED BY <2>3, <2>4, <2>5
<1>4. QED BY <1>3 DEF Linked, part

\* The directory holds the files of one finished run and no more.
Finished ==
    LET r == signed[files.checkpoint]
    IN  /\ files.checkpoint # 0 /\ files.history = files.checkpoint
        /\ files.payload = files.checkpoint
        /\ script = "g6" => files.expectation # 0 /\ photos.frames = r.frames
        /\ script \in Optical => files.manifest = r.frames
        /\ files.session = r.session /\ files.b0 = r.b0 /\ files.blobs = r.blobs
        /\ Anchors # {} /\ (Agreed \/ script \in Bindings)

\* The items of a finished run are its own, and the observations the first of them.
LEMMA FinishedFacts ==
    ASSUME EpochInv, Finished
    PROVE  /\ files.checkpoint \in DOMAIN signed
           /\ Itemised(files.checkpoint, signed[files.checkpoint])
           /\ files.session \in Nat \ {0} /\ files.b0 \in DOMAIN tree
           /\ script \in Optical => files.manifest # {}
           /\ \A i \in DOMAIN files.blobs :
                 /\ Mine(files.blobs[i])
                 /\ files.blobs[i].of = "camera" => files.blobs[i].frames = files.manifest
           /\ Positions = 1 .. Len(Observations)
           /\ Observations = signed[files.checkpoint].history
<1>1. files.checkpoint \in DOMAIN signed
  <2>1. files.checkpoint \in Nat /\ signed \in Seq(Checkpoint)
    BY Around DEF Directory
  <2>2. files.checkpoint <= Len(signed) /\ files.checkpoint # 0
    BY DEF EpochInv, FilesInv, Finished
  <2>3. QED BY <2>1, <2>2
<1>2. PICK p \in DOMAIN signed : p = files.checkpoint
  BY <1>1
<1>3. PICK r : r = signed[p]
  OBVIOUS
<1>4. Itemised(p, r) /\ r \in Checkpoint /\ Sealed(p, r) /\ sessions \in Seq(Nat)
  BY <1>3, TheItems, Around
<1>5. /\ files.session = r.session /\ files.b0 = r.b0 /\ files.blobs = r.blobs
      /\ script \in Optical => files.manifest = r.frames
      /\ Observations = r.history
  BY <1>2, <1>3 DEF Finished, Observations
<1>6. files.session \in Nat \ {0} /\ files.b0 \in DOMAIN tree
  <2>1. Known(r.session, r.b0)
    BY <1>4 DEF Sealed
  <2>2. QED BY <1>4, <1>5, <2>1 DEF Known, EpochInv, WorldInv
<1>7. script \in Optical => files.manifest # {}
  BY <1>4, <1>5 DEF Sealed
<1>8. ASSUME NEW i \in DOMAIN files.blobs
      PROVE  /\ Mine(files.blobs[i])
             /\ files.blobs[i].of = "camera" => files.blobs[i].frames = files.manifest
             /\ i \in Positions <=> i <= Len(Observations)
  <2>1. i \in 1 .. Len(r.blobs) /\ files.blobs[i] = r.blobs[i]
    BY <1>4, <1>5 DEF Itemised
  <2>2. /\ r.blobs[i].session = r.session /\ r.blobs[i].b0 = r.b0
        /\ i <= Len(r.history) <=> r.blobs[i].of \in {"ntp", "roughtime", "camera"}
        /\ r.blobs[i].of = "camera" => r.blobs[i].frames = r.frames
        /\ r.blobs[i].of \in {"ntp", "roughtime"} \cup Rest(script)
    BY <1>4, <2>1 DEF Itemised
  <2>3. Mine(files.blobs[i])
    BY <1>5, <2>1, <2>2 DEF Mine
  <2>4. Rest(script) \subseteq {"camera", "capture", "external"}
        /\ (script \notin Optical => "camera" \notin Rest(script))
    BY DEF Rest
  <2>5. files.blobs[i].of = "camera" => files.blobs[i].frames = files.manifest
    BY <1>5, <2>1, <2>2, <2>4
  <2>6. i \in Positions <=> files.blobs[i].of \notin {"external", "capture"}
    BY DEF Positions
  <2>7. i \in Positions <=> i <= Len(Observations)
    BY <1>5, <2>1, <2>2, <2>4, <2>6
  <2>8. QED BY <2>3, <2>5, <2>7
<1>9. Positions = 1 .. Len(Observations)
  <2>1. /\ DOMAIN files.blobs = 1 .. Len(r.blobs) /\ Len(Observations) <= Len(r.blobs)
        /\ Len(Observations) \in Nat /\ Len(r.blobs) \in Nat
    BY <1>4, <1>5 DEF Itemised
  <2>2. \A i : i \in 1 .. Len(Observations) <=> i \in 1 .. Len(r.blobs) /\ i <= Len(Observations)
    BY <2>1
  <2>3. \A i : i \in Positions => i \in DOMAIN files.blobs
    BY DEF Positions
  <2>4. \A i : i \in Positions <=> i \in 1 .. Len(Observations)
    BY <1>8, <2>1, <2>2, <2>3, Zenon
  <2>5. QED BY <2>4, Zenon
<1>10. QED BY <1>2, <1>3, <1>4, <1>5, <1>6, <1>7, <1>8, <1>9

\* What the assembler demands of the directory is there.
LEMMA FinishedCanAssemble ==
    ASSUME EpochInv, Finished
    PROVE  CanAssemble /\ Committed
<1>1. PICK r : r = signed[files.checkpoint] /\ Itemised(files.checkpoint, r)
  BY FinishedFacts
<1>2. /\ files.session # 0 /\ files.b0 # 0
      /\ script \in Optical => files.manifest # {}
      /\ \A i \in DOMAIN files.blobs : Mine(files.blobs[i])
      /\ files.blobs = r.blobs
  <2>1. tree \in Seq(BlockRecord)
    BY Around
  <2>2. QED BY <1>1, <2>1, FinishedFacts DEF Finished
<1>3. 0 \notin {files.b0, files.session, files.history, files.checkpoint, files.payload} /\ Anchors # {}
  BY <1>2 DEF Finished
<1>4. script \in Bindings => Answered
  <2>1. SUFFICES ASSUME script \in Bindings PROVE Answered
    OBVIOUS
  <2>2. PICK n : n = Len(r.blobs) /\ n \in 1 .. Len(r.blobs) /\ n \in DOMAIN files.blobs
    BY <1>1, <1>2 DEF Itemised
  <2>3. r.blobs[n].of \in {"external", "capture"}
    <3>1. /\ r.blobs[n].of \notin {"ntp", "roughtime", "camera"}
          /\ r.blobs[n].of \in {"ntp", "roughtime"} \cup Rest(script)
      BY <1>1, <2>1, <2>2 DEF Itemised
    <3>2. Rest(script) \subseteq {"capture", "external"}
      BY <2>1 DEF Rest, Bindings, Optical
    <3>3. QED BY <3>1, <3>2
  <2>4. External # {}
    BY <1>2, <2>2, <2>3 DEF External
  <2>5. External \subseteq Nat
    BY <1>1, <1>2 DEF External, Itemised
  <2>6. \E i \in External : \A j \in External : i <= j
    BY <2>4, <2>5, Least
  <2>7. (CHOOSE i \in External : \A j \in External : i <= j) \in External
    BY <2>6
  <2>8. \A i \in External : files.blobs[i].session = files.session
    BY <1>2 DEF External, Mine
  <2>9. QED BY <2>4, <2>7, <2>8 DEF Answered
<1>5. Complete
  <2>1. script \in {"g2b", "g6"} => files.manifest # {}
    BY <1>2 DEF Optical
  <2>2. script = "g6" => files.expectation # 0 /\ files.manifest = photos.frames
    BY DEF Finished, Optical
  <2>3. script \notin Bindings => Agreed
    BY DEF Finished
  <2>4. QED BY <1>4, <2>1, <2>2, <2>3 DEF Complete
<1>6. Manifested
  <2>1. script \in Optical => Len(r.blobs) \in DOMAIN r.blobs /\ r.blobs[Len(r.blobs)].of = "camera"
    BY <1>1 DEF Itemised
  <2>2. QED BY <1>2, <2>1 DEF Manifested
<1>7. tree[chain[AnchorAt]].payload = files.checkpoint
  BY <1>3, TheAnchor DEF Finished
<1>8. QED BY <1>3, <1>5, <1>6, <1>7 DEF CanAssemble, Committed

\* Each observation cites one blob and finds it.
LEMMA FinishedCounts ==
    ASSUME EpochInv, Finished
    PROVE  Counted(Checked) /\ \A k \in DOMAIN Checked.history : Fits(Checked, Checked.history[k])
<1> DEFINE b == Checked
<1>1. PICK r : r = signed[files.checkpoint] /\ Itemised(files.checkpoint, r)
  BY FinishedFacts
<1>2. files.checkpoint \in DOMAIN signed /\ files.history = files.checkpoint /\ files.blobs = r.blobs
      /\ Positions = 1 .. Len(Observations) /\ Observations = r.history
  BY <1>1, FinishedFacts DEF Finished
<1>3. PICK K : K = Len(r.history) /\ K \in Nat /\ DOMAIN r.history = 1 .. K
               /\ \A k \in 1 .. K : r.history[k] = r.blobs[k]
  BY <1>1 DEF Itemised
<1>4. /\ Foreign(b) = {} /\ Indexed(b) = {View(files.blobs[i]) : i \in Positions}
      /\ DOMAIN b.history = 1 .. K
      /\ \A k \in 1 .. K : b.history[k].cites = <<View(r.history[k])>> /\ b.history[k].sound = TRUE
      /\ Measurable(b) = Cardinality(Positions) /\ Len(b.history) = K
  BY <1>2, <1>3, TheBundle
<1> HIDE DEF b
<1>5. \A k \in 1 .. K : View(r.history[k]) \in Indexed(b)
  BY <1>2, <1>3, <1>4
<1>6. ASSUME NEW k \in 1 .. K
      PROVE  Fits(b, b.history[k]) /\ Found(b, b.history[k]) = {1}
  <2>1. PICK u : u = b.history[k] /\ u.cites = <<View(r.history[k])>> /\ u.sound = TRUE
    BY <1>4
  <2>2. DOMAIN u.cites = {1} /\ u.cites[1] = View(r.history[k])
    BY <2>1
  <2>3. Cited(u) = {View(r.history[k])}
    BY <2>2 DEF Cited, Range
  <2>4. ~Extended(b, u)
    BY <1>4 DEF Extended
  <2>5. Fits(b, u)
    BY <1>5, <2>1, <2>3, <2>4 DEF Fits
  <2>6. Found(b, u) = {1}
    BY <1>5, <2>2, <2>4 DEF Found
  <2>7. QED BY <2>1, <2>5, <2>6
<1>7. Matched(b) = K
  <2> DEFINE S == UNION {{k} \X Found(b, b.history[k]) : k \in DOMAIN b.history}
             f == [k \in 1 .. K |-> <<k, 1>>]
  <2>1. S = {<<k, 1>> : k \in 1 .. K}
    <3>1. ASSUME NEW z PROVE z \in S <=> z \in {<<k, 1>> : k \in 1 .. K}
      <4>1. z \in S <=> \E k \in 1 .. K : z \in {k} \X Found(b, b.history[k])
        BY <1>4
      <4>2. \A k \in 1 .. K : {k} \X Found(b, b.history[k]) = {<<k, 1>>}
        <5>1. \A k : {k} \X {1} = {<<k, 1>>}
          OBVIOUS
        <5>2. QED BY <1>6, <5>1
      <4>3. QED BY <4>1, <4>2
    <3>2. QED BY <3>1, Zenon
  <2>2. Matched(b) = Cardinality(S)
    BY DEF Matched
  <2> HIDE DEF S
  <2>3. f \in Bijection(1 .. K, S)
    BY <2>1 DEF Bijection, Injection, Surjection, IsInjective
  <2>4. ExistsBijection(1 .. K, S)
    BY <2>3 DEF ExistsBijection
  <2>5. IsFiniteSet(1 .. K) /\ Cardinality(1 .. K) = K
    BY <1>3, FS_Interval
  <2>6. QED BY <2>2, <2>4, <2>5, FS_Bijection
<1>8. Cardinality(Positions) = K
  BY <1>2, <1>3, FS_Interval
<1>9. QED BY <1>4, <1>6, <1>7, <1>8 DEF Counted, b

LEMMA CleanHolds == EpochInv => CleanRunPasses
<1> SUFFICES ASSUME EpochInv, Finished PROVE Passes
  <2>1. Finished <=>
           LET r == signed[files.checkpoint]
           IN  /\ files.checkpoint # 0 /\ files.history = files.checkpoint
               /\ files.payload = files.checkpoint
               /\ script = "g6" => files.expectation # 0 /\ photos.frames = r.frames
               /\ script \in Optical => files.manifest = r.frames
               /\ files.session = r.session /\ files.b0 = r.b0 /\ files.blobs = r.blobs
               /\ Anchors # {} /\ (Agreed \/ script \in Bindings)
    BY DEF Finished
  <2>2. {files.history, files.payload} = {files.checkpoint} =>
           files.history = files.checkpoint /\ files.payload = files.checkpoint
    BY Zenon
  <2>3. QED BY <2>1, <2>2 DEF CleanRunPasses
<1> DEFINE b == Checked
           core == Committed /\ files.history = files.checkpoint
<1>1. CanAssemble /\ core
  BY FinishedCanAssemble DEF Finished
<1>2. Counted(b) /\ \A k \in DOMAIN b.history : Fits(b, b.history[k])
  BY FinishedCounts
<1>3. /\ files.checkpoint \in DOMAIN signed /\ files.history \in DOMAIN signed
      /\ files.b0 \in DOMAIN tree
      /\ \A i \in DOMAIN files.blobs :
            /\ Mine(files.blobs[i])
            /\ files.blobs[i].of = "camera" => files.blobs[i].frames = files.manifest
  BY FinishedFacts DEF Finished
<1>4. /\ b.core = Of(core) /\ b.linked = Linked(Path) /\ b.chained = Linked(Later)
      /\ b.agreed \in BOOLEAN /\ b.expected = TRUE /\ b.framed = TRUE
      /\ Range(b.evidence) = {View(files.blobs[i]) : i \in DOMAIN files.blobs}
      /\ Foreign(b) = {} /\ Indexed(b) = {View(files.blobs[i]) : i \in Positions}
  BY <1>3, TheBundle
<1>5. core \in BOOLEAN /\ Linked(Path) \in BOOLEAN /\ Linked(Later) \in BOOLEAN
  BY DEF Linked, Committed
<1> HIDE DEF b, core
<1>6. \A i \in DOMAIN files.blobs : View(files.blobs[i]).bound /\ View(files.blobs[i]).sound
  BY <1>3 DEF View
<1>7. Bound(b) /\ Echoed(b) /\ Tagged(b)
  <2>1. \A x \in Range(b.evidence) : x.bound /\ x.sound
    BY <1>4, <1>6
  <2>2. QED BY <2>1 DEF Bound, Echoed, Tagged, Indexed
<1>8. Linked(Path) /\ Linked(Later)
  <2>1. chain \in Seq(Nat) /\ Grown(tree) /\ \A c \in DOMAIN tree : tree[c].branch \in Seq(Nat)
    BY TheChain, Around
  <2>2. AnchorAt \in DOMAIN chain
    BY <1>1, TheAnchor DEF CanAssemble
  <2>3. Height(files.b0) \in Nat \ {0}
    BY <1>3, <2>1 DEF Height, Grown
  <2>4. AnchorAt \in Nat \ {0} /\ AnchorAt <= Len(chain) /\ Len(chain) \in Nat
    BY <2>1, <2>2
  <2>5. QED BY <2>3, <2>4, LinkedPart DEF Path, Later
<1>9. Verdict(b, "absent") \in Passing
  BY <1>1, <1>2, <1>4, <1>5, <1>7, <1>8, VerdictWhen
<1>10. QED BY <1>1, <1>9 DEF Passes, b

\* A run that finished, with its payload in a block above its B0, is never refused,
\* whether or not its neighbours were killed: the count of blobs, the places they are
\* read from and the links between the headers all fit.
THEOREM FinishedRunPasses == Spec => []CleanRunPasses
BY EpochAlways, CleanHolds, PTL
===============================================================================
