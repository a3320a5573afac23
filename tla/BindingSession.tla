---------------------------- MODULE BindingSession ----------------------------
(***************************************************************************)
(* A record of another system between two blocks:                          *)
(* scripts/open_binding_session.py fixes B0 and gives out a tag, the other *)
(* system signs records that carry it, scripts/close_binding_session.py    *)
(* commits to the verified ones in a checkpoint, the race anchors it, and  *)
(* scripts/assemble_binding_bundle.py makes the bundle.  Each batch of a   *)
(* recurring binding has a directory, which may continue the session of    *)
(* another.  A closing may be killed between any two files it writes.      *)
(***************************************************************************)
EXTENDS SandwichChecks, BlockTree

CONSTANTS
    Dirs,           \* work directories
    MaxWitnesses,   \* len(HOSTS)
    Needed,         \* complete NTP witnesses build_checkpoint needs (4: 3f + 1)
    MaxRecords,     \* bound: records made by the other system
    MaxClosings     \* bound: closings that come to write their files

ASSUME BindingAssumption ==
    /\ MaxWitnesses \in Nat /\ Needed \in 1..MaxWitnesses
    /\ MaxRecords \in Nat /\ MaxClosings \in Nat

VARIABLES
    opened,     \* every session ever opened, by number: its B0
    records,    \* every record of the other system: the session whose tag it
                \* carries, and how many blocks there were when it was made
    dirs,       \* the files of each directory
    closings,   \* what each closing has in memory: its directory and its blobs
    written,    \* how many files the running closing has written, -1: none runs
    racing,     \* the payload of the race's last template, or 0
    bundle      \* the last bundle assembled, and its verdict

vars == <<chainVars, opened, records, dirs, closings, written, racing, bundle>>

EmptyDir == [challenge |-> 0, blobs |-> << >>, history |-> 0, checkpoint |-> 0,
             payload |-> 0]
NoBundle == [dir |-> "none", b0 |-> 0, c |-> 0, tip |-> 0, burial |-> 0, session |-> 0,
             blobs |-> << >>, history |-> 0, checkpoint |-> 0, verdict |-> "none"]

Init ==
    /\ InitTree
    /\ opened = << >> /\ records = << >> /\ closings = << >>
    /\ dirs = [d \in Dirs |-> EmptyDir]
    /\ written = -1 /\ racing = 0 /\ bundle = NoBundle

-------------------------------------------------------------------------------
Find(parent, payload) ==
    /\ Grow(parent, payload)
    /\ UNCHANGED <<opened, records, dirs, closings, written, racing, bundle>>

Others == \E b \in DOMAIN tree : Find(b, 0)
Anchor == racing # 0 /\ \E b \in DOMAIN tree : Find(b, racing)

BuildTemplate(d) ==
    /\ dirs[d].payload \notin {0, racing}
    /\ racing' = dirs[d].payload
    /\ UNCHANGED <<chainVars, opened, records, dirs, closings, written, bundle>>

-------------------------------------------------------------------------------
\* open_binding_session.py: a new B0, session id and tag, unless one is open.
Open(d) ==
    /\ dirs[d].challenge = 0
    /\ opened' = Append(opened, best)
    /\ dirs' = [dirs EXCEPT ![d].challenge = Len(opened')]
    /\ UNCHANGED <<chainVars, records, closings, written, racing, bundle>>

\* --continue-from: the bytes of another directory's challenge.json.
Continue(d, from) ==
    /\ dirs[d].challenge = 0 /\ dirs[from].challenge # 0
    /\ dirs' = [dirs EXCEPT ![d].challenge = dirs[from].challenge]
    /\ UNCHANGED <<chainVars, opened, records, closings, written, racing, bundle>>

\* The other system signs a record with the tag it was given.
MakeRecord ==
    /\ Len(records) < MaxRecords
    /\ \E s \in DOMAIN opened :
          records' = Append(records, [tag |-> s, made |-> Len(tree)])
    /\ UNCHANGED <<chainVars, opened, dirs, closings, written, racing, bundle>>

-------------------------------------------------------------------------------
\* close_binding_session.py.  The NTP round is that of EpochSession, here one
\* item for the two exchanges of a witness; then one blob for each record.
Witnessed(d, k) ==
    [i \in 1..k |-> [typ |-> "NTP", session |-> dirs[d].challenge,
                     by |-> Len(closings) + 1, record |-> 0]]

Committed(d, batch) ==
    [i \in DOMAIN batch |-> [typ |-> "EXTERNAL", session |-> dirs[d].challenge,
                             by |-> 0, record |-> batch[i]]]

\* The records somebody may want to bind, sorted by their sequence.
Batches ==
    {batch \in UNION {[1..n -> DOMAIN records] : n \in DOMAIN records} :
        \A i, j \in DOMAIN batch : i < j => batch[i] < batch[j]}

\* records.json lists records that verify_external_record.py checked against the
\* directory's tag, and what a person put in or took out.
Verified(d, r) == records[r].tag = dirs[d].challenge

\* Mutant: entries are bound whatever their verdict.
MayBindAny(d, batch) == dirs[d].payload = 0

\* The closing has not run in this directory, and every entry is VERIFIED.  (The
\* epoch is an argument: some directory holds the checkpoint of the one before.)
MayBind(d, batch) ==
    /\ dirs[d].payload = 0
    /\ \A i \in DOMAIN batch : Verified(d, batch[i])

Close(d) ==
    /\ written = -1 /\ Len(closings) < MaxClosings
    /\ dirs[d].challenge # 0
    /\ \E batch \in Batches, k \in Needed..MaxWitnesses :
          /\ MayBind(d, batch)
          /\ closings' = Append(closings, [dir |-> d,
                                blobs |-> Witnessed(d, k) \o Committed(d, batch)])
    /\ written' = 0
    /\ UNCHANGED <<chainVars, opened, records, dirs, racing, bundle>>

Replaced(blobs, i, x) ==
    IF i <= Len(blobs) THEN [blobs EXCEPT ![i] = x] ELSE Append(blobs, x)

\* The n-th file of a closing with these blobs; the payload is the last.
WrittenTo(f, n, blobs) ==
    CASE n \in DOMAIN blobs -> [f EXCEPT !.blobs = Replaced(@, n, blobs[n])]
      [] n = Len(blobs) + 1 -> [f EXCEPT !.history = Len(closings)]
      [] n = Len(blobs) + 2 -> [f EXCEPT !.checkpoint = Len(closings)]
      [] n = Len(blobs) + 3 -> [f EXCEPT !.payload = Len(closings)]

Write ==
    LET run == closings[Len(closings)] IN
    /\ written # -1
    /\ dirs' = [dirs EXCEPT ![run.dir] = WrittenTo(@, written + 1, run.blobs)]
    /\ written' = IF written + 1 < Len(run.blobs) + 3 THEN written + 1 ELSE -1
    /\ UNCHANGED <<chainVars, opened, records, closings, racing, bundle>>

Crash ==
    /\ written # -1
    /\ written' = -1
    /\ UNCHANGED <<chainVars, opened, records, dirs, closings, racing, bundle>>
-------------------------------------------------------------------------------
\* assemble_binding_bundle.py, with the blocks that fetch_chain() returned.
B0Of(d) == opened[dirs[d].challenge]
Anchors(blocks, d) == AnchorsAbove(blocks, B0Of(d), dirs[d].payload)

\* Mutant: the last copy of the payload is taken.
LastAnchor(blocks, d) ==
    CHOOSE i \in Anchors(blocks, d) : \A j \in Anchors(blocks, d) : i >= j

AnchorAt(blocks, d) ==
    CHOOSE i \in Anchors(blocks, d) : \A j \in Anchors(blocks, d) : i <= j

External(blobs) == {i \in DOMAIN blobs : blobs[i].typ = "EXTERNAL"}

\* The first external blob carries the challenge; B0 is on the chain, at its
\* height, and a block above it carries the payload.
CanAssemble(blocks, d) ==
    LET f == dirs[d]
        outer == External(f.blobs)
    IN  /\ 0 \notin {f.challenge, f.history, f.checkpoint, f.payload}
        /\ outer # {}
        /\ f.blobs[CHOOSE i \in outer : \A j \in outer : i <= j].session = f.challenge
        /\ Anchors(blocks, d) # {}

\* What the verifier sees of a blob.
View(d, x) ==
    [typ |-> x.typ, id |-> x, bound |-> x.session = dirs[d].challenge,
     sound |-> x.session = dirs[d].challenge]

\* The signed history has one observation for each blob of a witness.
Observed(blobs) == SelectSeq(blobs, LAMBDA x : x.typ = "NTP")

\* What the verifier sees of a bundle buried this deep.  (Where the witnesses do
\* not agree, the bundle says so and passes under another name.)
Checked(blocks, d, depth) ==
    LET f == dirs[d]
        c == AnchorAt(blocks, d)
        signed == Observed(closings[f.history].blobs)
    IN  [evidence |-> [i \in DOMAIN f.blobs |-> View(d, f.blobs[i])],
         history |-> [k \in DOMAIN signed |-> [cites |-> <<View(d, signed[k])>>, sound |-> TRUE]],
         framed |-> TRUE, core |-> Of(f.history = f.checkpoint /\ tree[blocks[c]].payload = f.checkpoint),
         linked |-> Linked(SubSeq(blocks, Height(B0Of(d)), c)),
         chained |-> Linked(SubSeq(blocks, c, c + depth)), burial |-> depth,
         agreed |-> TRUE, expected |-> TRUE]

\* --b1-depth blocks after the anchor.
Assembled(blocks, d, depth) ==
    LET f == dirs[d]
        c == AnchorAt(blocks, d)
    IN  [dir |-> d, b0 |-> B0Of(d), c |-> blocks[c], tip |-> blocks[c + depth],
         burial |-> depth, session |-> f.challenge, blobs |-> f.blobs,
         history |-> f.history, checkpoint |-> f.checkpoint,
         verdict |-> Verdict(Checked(blocks, d, depth), "absent")]

Assemble(d) ==
    /\ CanAssemble(chain, d)
    /\ \E depth \in 0..Len(chain) - AnchorAt(chain, d) : bundle' = Assembled(chain, d, depth)
    /\ UNCHANGED <<chainVars, opened, records, dirs, closings, written, racing>>

Next ==
    \/ Others \/ Anchor \/ MakeRecord \/ Write \/ Crash
    \/ \E d \in Dirs :
          \/ BuildTemplate(d) \/ Open(d) \/ Close(d) \/ Assemble(d)
          \/ \E from \in Dirs : Continue(d, from)

Spec == Init /\ [][Next]_vars

-------------------------------------------------------------------------------
Passed(b) == b.verdict \in Passing

\* Every record a closing has put into a directory carries the tag of its session and
\* was made when B0 existed; and once the payload is in a block, anywhere in the
\* world, before that block was found.
AnchoredAfterRecords ==
    \A d \in Dirs : \A i \in External(dirs[d].blobs) :
        LET r == records[dirs[d].blobs[i].record]
        IN  /\ r.tag = dirs[d].challenge /\ opened[r.tag] <= r.made
            /\ \A c \in DOMAIN tree :
                  dirs[d].payload # 0 /\ tree[c].payload = dirs[d].payload => r.made < c

\* binding.py:29: "B0 < record < B1".  Every record a passing bundle commits to
\* carries the tag of its session, and was made when B0 existed and before C was
\* found: through batches that share a session, closings cut short and run again
\* over what they left, records withdrawn, anchors repeated and branches lost.
RecordsBetween ==
    /\ AnchoredAfterRecords
    /\ Passed(bundle) =>
          /\ bundle.b0 \in Range(BranchOf(bundle.c))
          /\ \A i \in External(bundle.blobs) :
                LET r == records[bundle.blobs[i].record]
                IN  r.tag = bundle.session /\ bundle.b0 <= r.made /\ r.made < bundle.c

\* assemble_binding_bundle.py:15-19: with its depth frozen a bundle can be made
\* again "months later".  As long as its last header is on the chain, the same
\* command makes the same bundle, whatever was found, opened, closed or
\* anchored again since.
Reproducible ==
    Passed(bundle) /\ bundle.tip \in Range(chain) =>
        /\ CanAssemble(chain, bundle.dir)
        /\ Assembled(chain, bundle.dir, bundle.burial) = bundle
===============================================================================
