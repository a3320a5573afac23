----------------------------- MODULE EpochSession -----------------------------
(***************************************************************************)
(* One epoch: a script of scripts/ fixes B0 or takes a session that was    *)
(* opened before, asks its witnesses, signs, and writes file after file    *)
(* into its work directory; the race anchors the payload; an assembler     *)
(* makes a bundle of what the directory and the chain hold.  Any of them   *)
(* may be killed between two steps and started again, others find blocks,  *)
(* and the chain is reorganised.                                           *)
(*                                                                         *)
(* The scripts share their steps and differ in which they take, in what    *)
(* they demand, and in what keeps them from running twice; each is a       *)
(* record of steps up to the signature, files before and files after those *)
(* all write.  An assembler changes no file it reads, so what it would     *)
(* make is a function of the state.                                        *)
(***************************************************************************)
EXTENDS SandwichChecks, BlockTree, RollingCode

CONSTANTS
    Scripts,        \* the scripts that may be the one of this epoch
    Demanded,       \* complete NTP witnesses most scripts demand (3)
    Sound,          \* witnesses the consensus demands (3f + 1 = 4)
    Series,         \* the series of photographs there may be
    Bounds          \* bounds, for each script: NTP hosts that answer (of 5), Roughtime
                    \* servers that answer (of 2), records of another system, blocks in
                    \* the world, sessions fixed, checkpoints signed, times photographs
                    \* are copied or replaced

ASSUME EpochAssumption ==
    /\ Demanded \in Nat /\ Sound \in Nat \ {0}
    /\ \A frames \in Series : IsFiniteSet(frames) /\ \A x \in frames : x.at \in Nat
    /\ Bounds \in [Scripts -> [ntp : Nat, roughtime : Nat, records : Nat \ {0}, blocks : Nat,
                              sessions : Nat, runs : Nat, shoots : Nat]]

VARIABLES
    script,     \* the script of the epoch
    sessions,   \* B0 of every session ever fixed, by number
    photos,     \* the photographs: their series, and when they were put there
    todo,       \* the steps the running program has before it
    mem,        \* what it has in memory
    signed,     \* what each checkpoint commits to, by number
    files,      \* the work directory, by the numbers of what its files hold
    racing      \* the payload of the race's last template, or 0

running == <<todo, mem>>
vars == <<chainVars, script, sessions, photos, running, signed, files, racing>>

-------------------------------------------------------------------------------
\* The scripts: the steps up to the signature, the files written before the blobs,
\* the history, the checkpoint and the payload, and the files written after them.
Optical == {"g2b", "g6"}
Bindings == {"satroot", "pm", "galileo", "naxytra"}

RunSandwich == [ask |-> <<"tip", "ntp", "sign">>, first |-> <<"b0", "session">>, last |-> << >>]
RunG2b == [ask |-> <<"read", "frames", "ntp", "sign">>, first |-> << >>, last |-> <<"manifest">>]
RunG5 == [ask |-> <<"tip", "roughtime", "ntp", "sign">>, first |-> <<"challenge">>, last |-> << >>]
RunG6 == [ask |-> <<"read", "frames", "assess", "ntp", "sign">>, first |-> << >>,
          last |-> <<"manifest", "expectation">>]
RunSatroot == [ask |-> <<"tip", "events", "record", "challenge", "ntp", "sign">>,
               first |-> << >>, last |-> << >>]
RunPm == [ask |-> <<"tip", "record", "challenge", "ntp", "sign">>, first |-> << >>, last |-> << >>]
CloseGalileo == [ask |-> <<"read", "capture", "ntp", "sign">>, first |-> << >>,
                 last |-> <<"closed">>]
RunNaxytra == [ask |-> <<"read", "record", "ntp", "sign">>, first |-> << >>, last |-> << >>]

Plan ==
    [sandwich |-> RunSandwich, g2b |-> RunG2b, g5 |-> RunG5, g6 |-> RunG6,
     satroot |-> RunSatroot, pm |-> RunPm, galileo |-> CloseGalileo, naxytra |-> RunNaxytra]

ASSUME ScriptsAssumption == Scripts \subseteq DOMAIN Plan

\* The programs that only open a session, and the rehearsals.
Opened == {"g2b", "g6", "galileo", "naxytra"}
Opener == <<"tip", "challenge">>
Rehearsal == [g6 |-> <<"read", "frames", "assess">>, satroot |-> <<"tip", "events", "record">>,
              pm |-> <<"tip", "record">>]

NoMemory == [session |-> 0, b0 |-> 0, frames |-> {}, coded |-> {}, witnesses |-> << >>,
             last |-> << >>]

Init ==
    /\ InitTree
    /\ script \in Scripts
    /\ sessions = << >> /\ signed = << >>
    /\ photos = [frames |-> {}, at |-> 0, copies |-> 0]
    /\ todo = << >> /\ mem = NoMemory /\ racing = 0
    /\ files = [b0 |-> 0, session |-> 0, events |-> 0, blobs |-> << >>, history |-> 0,
                checkpoint |-> 0, payload |-> 0, manifest |-> {}, expectation |-> 0]

-------------------------------------------------------------------------------
\* The world: blocks, with the race's payload or another, and photographs.
World == UNCHANGED <<script, sessions, running, signed, files>>

Find(payload) ==
    /\ Len(tree) < Bounds[script].blocks
    /\ \E b \in DOMAIN tree : Grow(b, payload)
    /\ World /\ UNCHANGED <<photos, racing>>

Others == Find(0)
Anchor == racing # 0 /\ Find(racing)

BuildTemplate ==
    /\ files.payload \notin {0, racing}
    /\ racing' = files.payload
    /\ World /\ UNCHANGED <<chainVars, photos>>

Shoot ==
    /\ script \in Optical /\ photos.copies < Bounds[script].shoots
    /\ \E frames \in Series :
          photos' = [frames |-> frames, at |-> Len(tree), copies |-> photos.copies + 1]
    /\ World /\ UNCHANGED <<chainVars, racing>>

-------------------------------------------------------------------------------
\* Mutant: a session is opened over one that is open.
MayOpenAnyTime == script \in Opened

MayOpen == script \in Opened /\ files.session = 0

\* What keeps a script from running over what an earlier run left.
MayRun ==
    /\ script \in Opened => files.session # 0
    /\ script \in {"satroot", "pm"} => files.session = 0
    /\ script = "galileo" => files.checkpoint = 0
    /\ script = "naxytra" => files.payload = 0

Begin(steps) ==
    /\ todo = << >> /\ Len(signed) < Bounds[script].runs
    /\ "tip" \in Range(steps) => Len(sessions) < Bounds[script].sessions
    /\ todo' = steps /\ mem' = NoMemory
    /\ UNCHANGED <<chainVars, script, sessions, photos, signed, files, racing>>

Open == MayOpen /\ Begin(Opener)
Run == MayRun /\ Begin(Plan[script].ask)
Rehearse == script \in DOMAIN Rehearsal /\ Begin(Rehearsal[script])

\* The next step is taken, or the program ends without taking those behind it.
Step(s) == todo # << >> /\ Head(todo) = s
Go(m) == todo' = Tail(todo) /\ mem' = IF Len(todo) = 1 THEN NoMemory ELSE m
Exit == todo' = << >> /\ mem' = NoMemory
InMemory == UNCHANGED <<chainVars, script, photos, files, racing>>

Crash ==
    /\ todo # << >> /\ Exit
    /\ InMemory /\ UNCHANGED <<sessions, signed>>

FetchTip ==
    /\ Step("tip")
    /\ sessions' = Append(sessions, best)
    /\ Go([mem EXCEPT !.session = Len(sessions'), !.b0 = best])
    /\ InMemory /\ UNCHANGED signed

\* challenge.json, whose q is that of its B0 and its session.
ReadChallenge ==
    /\ Step("read") /\ files.session # 0
    /\ Go([mem EXCEPT !.session = files.session, !.b0 = files.b0])
    /\ InMemory /\ UNCHANGED <<sessions, signed>>

-------------------------------------------------------------------------------
\* Evidence.  An item is a blob; of says what it is, at when what it is about came
\* to be, by the run it was taken in.  A witness that completed has two exchanges.
Item(of, n, by, at, frames) ==
    [of |-> of, n |-> n, by |-> by, at |-> at, frames |-> frames,
     session |-> mem.session, b0 |-> mem.b0]

Witnesses(of, k) ==
    [n \in 1..2 * k |-> Item(of, n, Len(signed) + 1, Len(tree), {})]

AskRoughtime ==
    /\ Step("roughtime")
    /\ \E k \in 0..Bounds[script].roughtime :
          Go([mem EXCEPT !.witnesses = Witnesses("roughtime", k)])
    /\ InMemory /\ UNCHANGED <<sessions, signed>>

\* The program ends where too few witnesses completed both exchanges.
Enough(k) ==
    CASE script = "sandwich" -> k >= Sound
      [] script = "g5" -> Len(mem.witnesses) + 2 * k >= 2 * Sound
      [] OTHER -> k >= Demanded

AskNtp ==
    /\ Step("ntp")
    /\ \E k \in 0..Bounds[script].ntp :
          \/ Enough(k) /\ Go([mem EXCEPT !.witnesses = @ \o Witnesses("ntp", k)])
          \/ ~Enough(k) /\ Exit
    /\ InMemory /\ UNCHANGED <<sessions, signed>>

\* Another system's record, made with the tag of the session in memory; naxytra
\* binds as many as it was given.
MakeRecord ==
    /\ Step("record")
    /\ \/ \E k \in IF script = "naxytra" THEN 1..Bounds[script].records ELSE {1} :
             Go([mem EXCEPT !.last = [n \in 1..k |-> Item("external", n, 0, Len(tree), {})]])
       \/ Exit
    /\ InMemory /\ UNCHANGED <<sessions, signed>>

\* A capture holds no tag: it is one that was made at any time before.
ReadCapture ==
    /\ Step("capture")
    /\ \E at \in DOMAIN tree : Go([mem EXCEPT !.last = <<Item("capture", 1, 0, at, {})>>])
    /\ InMemory /\ UNCHANGED <<sessions, signed>>

HashFrames ==
    /\ Step("frames") /\ photos.frames # {}
    /\ Go([mem EXCEPT !.frames = photos.frames,
                      !.last = <<Item("camera", 1, 0, photos.at, photos.frames)>>])
    /\ InMemory /\ UNCHANGED <<sessions, signed>>

\* run_g6.py: a series below its thresholds ends the program, unless --allow-weak.
Assess ==
    /\ Step("assess")
    /\ \E coded \in Declarations(mem.frames), allowWeak \in BOOLEAN :
          \/ /\ allowWeak \/ Shortfall(mem.frames, coded) = {}
             /\ Go([mem EXCEPT !.coded = coded])
          \/ ~allowWeak /\ Shortfall(mem.frames, coded) # {} /\ Exit
    /\ InMemory /\ UNCHANGED <<sessions, signed>>

\* The checkpoint.  An observation is signed for each exchange and for the camera.
\* build_checkpoint() raises where the consensus has too few witnesses, and a
\* program that reads the epoch before from another directory may find another
\* epoch there.
Observed == mem.witnesses \o (IF script \in Optical THEN mem.last ELSE << >>)

Enrolled == Len(mem.witnesses) \div 2 + (IF script \in Optical THEN 1 ELSE 0)

Closing == <<"history", "checkpoint", "payload">> \o Plan[script].last

Output(blobs) == Plan[script].first \o [i \in DOMAIN blobs |-> "blob"] \o Closing

Sign ==
    /\ Step("sign")
    /\ LET blobs == mem.witnesses \o mem.last
       IN  \/ /\ Enrolled >= Sound
              /\ \E agreed \in BOOLEAN :
                    signed' = Append(signed, [session |-> mem.session, b0 |-> mem.b0,
                                  blobs |-> blobs, history |-> Observed,
                                  frames |-> mem.frames, coded |-> mem.coded,
                                  agreed |-> agreed])
              /\ todo' = Output(blobs) /\ UNCHANGED mem
           \/ /\ Enrolled < Sound \/ script \in {"g6"} \cup Bindings
              /\ Exit /\ UNCHANGED signed
    /\ InMemory /\ UNCHANGED sessions

-------------------------------------------------------------------------------
\* Mutant: blobs are added behind those that are there.
Accumulated(blobs, i, x) == Append(blobs, x)

Replaced(blobs, i, x) ==
    IF i <= Len(blobs) THEN [blobs EXCEPT ![i] = x] ELSE Append(blobs, x)

\* The next blob of the checkpoint being written.
NextBlob ==
    LET blobs == signed[Len(signed)].blobs
        i == Len(blobs) - (Len(todo) - Len(Closing)) + 1
    IN  Replaced(files.blobs, i, blobs[i])

Written(f) ==
    CASE f = "challenge" -> [files EXCEPT !.b0 = mem.b0, !.session = mem.session]
      [] f = "b0" -> [files EXCEPT !.b0 = mem.b0]
      [] f = "blob" -> [files EXCEPT !.blobs = NextBlob]
      [] f = "session" -> [files EXCEPT !.session = mem.session]
      [] f = "events" -> [files EXCEPT !.events = mem.session]
      [] f = "history" -> [files EXCEPT !.history = Len(signed)]
      [] f = "checkpoint" -> [files EXCEPT !.checkpoint = Len(signed)]
      [] f = "payload" -> [files EXCEPT !.payload = Len(signed)]
      [] f = "expectation" -> [files EXCEPT !.expectation = Len(signed)]
      [] f = "manifest" -> [files EXCEPT !.manifest = mem.frames]
      [] f = "closed" -> files

Files == {"challenge", "b0", "session", "events", "blob", "history", "checkpoint", "payload",
          "manifest", "expectation", "closed"}

Write ==
    /\ \E f \in Files : Step(f) /\ files' = Written(f)
    /\ Go(mem)
    /\ UNCHANGED <<chainVars, script, sessions, photos, signed, racing>>

Next ==
    \/ Others \/ Anchor \/ BuildTemplate \/ Shoot
    \/ Open \/ Run \/ Rehearse \/ Crash
    \/ FetchTip \/ ReadChallenge \/ AskRoughtime \/ AskNtp
    \/ MakeRecord \/ ReadCapture \/ HashFrames \/ Assess \/ Sign \/ Write

Spec == Init /\ [][Next]_vars

-------------------------------------------------------------------------------
\* The assemblers: the bundle they would make now.
External == {i \in DOMAIN files.blobs : files.blobs[i].of \in {"external", "capture"}}

Agreed == signed[files.checkpoint].agreed

\* The first external blob carries the challenge of the session.
Answered ==
    /\ External # {}
    /\ files.blobs[CHOOSE i \in External : \A j \in External : i <= j].session = files.session

\* Mutant: a record of another system needs an interval too.
IntervalForAll ==
    /\ script = "g2b" => files.manifest # {}
    /\ script = "g6" => files.expectation # 0 /\ files.manifest = photos.frames
    /\ script \in Bindings => Answered
    /\ Agreed

\* What each demands of the directory beyond the files all of them read.
Complete ==
    /\ script = "g2b" => files.manifest # {}
    /\ script = "g6" => files.expectation # 0 /\ files.manifest = photos.frames
    /\ script \in Bindings => Answered
    /\ script \notin Bindings => Agreed

Anchors == AnchorsAbove(chain, files.b0, files.payload)
AnchorAt == CHOOSE i \in Anchors : \A j \in Anchors : i <= j

CanAssemble ==
    /\ 0 \notin {files.b0, files.session, files.history, files.checkpoint, files.payload}
    /\ Complete
    /\ Anchors # {}

Mine(x) == x.session = files.session /\ x.b0 = files.b0
TypeOf(x) == IF x.of \in {"external", "capture"} THEN "EXTERNAL" ELSE "NTP"

\* Mutant: the frames a camera blob speaks of are not those of the manifest.
AnyFrames(x) == [typ |-> TypeOf(x), id |-> x, bound |-> Mine(x), sound |-> Mine(x)]

\* What the verifier sees of a blob: its challenge is that of B0 and the session,
\* and a camera's frames are those of the manifest.
View(x) ==
    [typ |-> TypeOf(x), id |-> x, bound |-> Mine(x),
     sound |-> Mine(x) /\ (x.of = "camera" => x.frames = files.manifest)]

\* A bundle with a manifest has a camera.
Manifested ==
    script \in Optical => \E i \in DOMAIN files.blobs : files.blobs[i].of = "camera"

\* B0, path_headers and C; then C and b1_headers.
Path == SubSeq(chain, Height(files.b0), AnchorAt)
Later == SubSeq(chain, AnchorAt, Len(chain))

Seen(core) ==
    LET observed == signed[files.history].history
    IN  [evidence |-> [i \in DOMAIN files.blobs |-> View(files.blobs[i])],
         history |-> [k \in DOMAIN observed |-> [cites |-> <<View(observed[k])>>, sound |-> TRUE]],
         framed |-> TRUE, core |-> Of(core), linked |-> Linked(Path), chained |-> Linked(Later),
         burial |-> Len(Later) - 1, agreed |-> Agreed, expected |-> TRUE]

Committed == Manifested /\ tree[chain[AnchorAt]].payload = files.checkpoint

\* Mutant: the history is not that of the checkpoint.
AnyHistory == Seen(Committed)

Checked == Seen(Committed /\ files.history = files.checkpoint)

Passes == CanAssemble /\ Verdict(Checked, "absent") \in Passing

-------------------------------------------------------------------------------
\* Blocks form a tree, and files and memory refer to what there is.
TypeOK ==
    /\ TreeOK
    /\ \A s \in DOMAIN sessions : sessions[s] \in DOMAIN tree
    /\ \A r \in DOMAIN signed : signed[r].session \in DOMAIN sessions
    /\ {files.session, files.events, mem.session} \subseteq 0..Len(sessions)
    /\ {files.history, files.checkpoint, files.payload, files.expectation}
          \subseteq 0..Len(signed)
    /\ Len(files.blobs) <= 2 * (Bounds[script].ntp + Bounds[script].roughtime)
                              + Bounds[script].records

\* REALITY-SANDWICH.md: "B0 < acquisition < C".  Where a bundle would pass, each
\* piece of its evidence came to be before C was found, and after B0 too unless
\* nothing in it holds the challenge (photographs, a capture); and C stands on B0.
\* However runs are killed and write over each other, however the chain is
\* reorganised and however often the payload is anchored.
CausalBound ==
    Passes =>
        LET c == chain[AnchorAt]
        IN  /\ \A i \in DOMAIN files.blobs :
                  LET x == files.blobs[i]
                  IN  x.at < c /\ (x.of \in {"capture", "camera"} \/ files.b0 <= x.at)
            /\ files.b0 \in Range(BranchOf(c))

\* A bundle that passes is the work of one run: files that another run left, also
\* blobs numbered past its own or a manifest of other photographs, never pass
\* for its evidence.  Only naxytra, which may bind several records, can leave
\* records of an attempt cut short behind those of a smaller one: the history
\* accounts for the blobs of the witnesses and of the camera, not for these.
OneRun ==
    Passes =>
        LET r == signed[files.checkpoint]
        IN  /\ files.history = files.checkpoint
            /\ r.session = files.session /\ r.b0 = files.b0
            /\ r.blobs = SubSeq(files.blobs, 1, Len(r.blobs))
            /\ \A i \in DOMAIN files.blobs \ DOMAIN r.blobs :
                  script = "naxytra" /\ files.blobs[i].of = "external"
            /\ script \in Optical => r.frames = files.manifest

\* Nothing an honest run does is refused: where the directory holds the files of
\* one finished run and no more, and the photographs are those it hashed, an
\* assembly passes once the payload is in a block above B0, whichever block that
\* is and however deep - unless the witnesses disagree and the assembler needs
\* their interval.
CleanRunPasses ==
    LET r == signed[files.checkpoint]
    IN  /\ todo = << >> /\ files.checkpoint # 0
        /\ {files.history, files.payload} = {files.checkpoint}
        /\ script = "g6" => files.expectation = files.checkpoint /\ photos.frames = r.frames
        /\ script \in Optical => files.manifest = r.frames
        /\ files.session = r.session /\ files.b0 = r.b0 /\ files.blobs = r.blobs
        /\ Anchors # {} /\ (Agreed \/ script \in Bindings)
        => Passes

\* The scripts that refuse to run twice: once the payload of a run is in a block of
\* the chain, the directory holds its session, its history, its checkpoint and all
\* its blobs, and goes on holding them.  (Blobs an earlier attempt left past them
\* may have to be removed.)
AnchoredStaysOnDisk ==
    script \in Bindings =>
        \A b \in Range(chain) :
            tree[b].payload # 0 =>
                LET r == signed[tree[b].payload]
                IN  /\ {files.history, files.checkpoint, files.payload} = {tree[b].payload}
                    /\ files.session = r.session /\ files.b0 = r.b0
                    /\ r.blobs = SubSeq(files.blobs, 1, Len(r.blobs))

\* run_g6.py:147: "elapsed time, which is the entire claim the rolling code exists
\* to support".  A series consolidated as strong has its code-bearing frames among
\* those the manifest names, enough of them, and they span the minimum up to one
\* slot: the span is counted in slots.
StrongSeriesLasts ==
    \A r \in DOMAIN signed :
        LET coded == signed[r].coded
        IN  script = "g6" /\ Shortfall(signed[r].frames, coded) = {} =>
                /\ coded \subseteq signed[r].frames /\ Cardinality(coded) >= MinFrames
                /\ \E x, y \in coded : y.at - x.at > MinSpan - SlotLen
================================================================================
