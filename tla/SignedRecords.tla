---------------------------- MODULE SignedRecords ----------------------------
(***************************************************************************)
(* Signed observations, the checkpoint over the latest of each witness,    *)
(* and what verify_bundle() says of a bundle file (ctp/model.py,           *)
(* ctp/merkle.py, ctp/bundle.py, ctp/verify.py).                           *)
(*                                                                         *)
(* Each run of a program begins the chains of its witnesses anew, signs    *)
(* with keys of its own and publishes a bundle; the same witnesses may     *)
(* make the same unsigned observations again.  The bundle that reaches a   *)
(* verifier may have lost, repeated or reordered records, hold records or  *)
(* a checkpoint of another run, or have been changed after it was signed;  *)
(* and what was changed may be signed again.  An envelope brings the       *)
(* public key it is verified with (model.py:108, 227) and no key is held   *)
(* to be a witness's: that a record verifies says that somebody signed it. *)
(*                                                                         *)
(* A digest names what it is taken of: lineage_id() is the unsigned        *)
(* observation, record_commitment() the signed one.                        *)
(***************************************************************************)
EXTENDS Integers, Sequences, FiniteSets, SequencesExt

CONSTANTS
    Witness,        \* logical witnesses
    Genesis,        \* protocol genesis objects
    Claims,         \* intervals each witness may claim
    Instants,       \* the instants they are made of
    F,              \* the tolerance build_checkpoint() is called with
    MaxRecords,     \* bound: records of each witness in a run
    MaxRuns,        \* bound: runs
    MaxEdits        \* bound: changes between a published bundle and a verifier

ASSUME RecordsAssumption ==
    /\ IsFiniteSet(Witness) /\ IsFiniteSet(Instants) /\ Instants \subseteq Int
    /\ \A w \in Witness : \A c \in Claims[w] :
          {c.lower, c.upper} \subseteq Instants /\ c.lower <= c.upper
    /\ {F, MaxRuns, MaxEdits} \subseteq Nat /\ MaxRecords \in [Witness -> Nat]

VARIABLES
    run, genesis,   \* the run that is on, and its genesis
    chains,         \* its signed observations, by witness
    published,      \* the bundles the runs published
    bundle,         \* the bundle a verifier would be given, or << >>
    edits

vars == <<run, genesis, chains, published, bundle, edits>>

Algorithms == {"ML-DSA-87", "SLH-DSA-SHAKE-256s"}
InOrder == <<"ML-DSA-87", "SLH-DSA-SHAKE-256s">>

\* sign_observation(), sign_checkpoint(): one envelope for each key pair.
Signed(content) ==
    [content |-> content,
     env |-> [i \in DOMAIN InOrder |-> [alg |-> InOrder[i], over |-> content, by |-> run]]]

-------------------------------------------------------------------------------
\* merkle_pair(): a level up, an odd node is paired with itself.
Paired(nodes) ==
    LET even == IF Len(nodes) % 2 = 1 THEN Append(nodes, Last(nodes)) ELSE nodes
    IN  [i \in 1..(Len(even) \div 2) |-> <<even[2 * i - 1], even[2 * i]>>]

\* Records are sorted by their digests: a set has one order.
MerkleRoot(records) ==
    LET sorted == SetToSeq(records)
        level[k \in Nat] ==
            IF k = 0 THEN [i \in DOMAIN sorted |-> <<sorted[i]>>]
            ELSE LET below == level[k - 1] IN IF Len(below) = 1 THEN below ELSE Paired(below)
    IN  level[Len(sorted)][1]

\* consensus() over the claims of these records (QuorumSweep: how it is computed).
Quorum(Ws, f) == INSTANCE TimeClaims WITH Witness <- Ws, F <- f, Instant <- Instants

Answer(records, f) ==
    LET regions == Quorum(records, f)!Regions([r \in records |-> r.content.claim])
        v == Quorum(records, f)!Verdict(regions)
    IN  [q |-> 2 * f + 1, verdict |-> v.kind,
         interval |-> IF v.kind = "CONSENSUS" THEN regions ELSE {}]

\* build_checkpoint().
Checkpoint(records, f) ==
    [genesis |-> genesis, records |-> records, root |-> MerkleRoot(records), f |-> f,
     answer |-> Answer(records, f)]

-------------------------------------------------------------------------------
\* verify_signed_observation(), verify_signed_checkpoint(), with the algorithms this
\* OpenSSL has: the first envelope that is wrong or cannot be checked decides.
Again(env, i) == \E j \in 1..(i - 1) : env[j].alg = env[i].alg

\* Mutant: a signature that cannot be checked is a wrong one.
UncheckedIsWrong(s, avail) ==
    IF /\ \A i \in DOMAIN s.env : ~Again(s.env, i) /\ s.env[i].alg \in avail
                                  /\ s.env[i].over = s.content
       /\ Algorithms \subseteq {s.env[i].alg : i \in DOMAIN s.env}
      THEN "true" ELSE "false"

Signatures(s, avail) ==
    LET Stops(i) == Again(s.env, i) \/ s.env[i].alg \notin avail \/ s.env[i].over # s.content
        stops == {i \in DOMAIN s.env : Stops(i)}
        first == CHOOSE i \in stops : \A j \in stops : i <= j
    IN  IF stops # {}
          THEN IF ~Again(s.env, first) /\ s.env[first].alg \notin avail
                 THEN "UNAVAILABLE" ELSE "false"
          ELSE IF Algorithms \subseteq {s.env[i].alg : i \in DOMAIN s.env}
                 THEN "true" ELSE "false"

\* all(): the records in their order, up to the first that is not true.
AllSignatures(history, avail) ==
    LET wrong == {k \in DOMAIN history : Signatures(history[k], avail) # "true"}
    IN  IF wrong = {} THEN "true"
        ELSE Signatures(history[CHOOSE k \in wrong : \A j \in wrong : k <= j], avail)

\* Mutant: records are taken in the order of the file.
OwnAsFiled(history, w) == SelectSeq(history, LAMBDA s : s.content.witness = w)

\* The records of a witness by sequence, those of one sequence as they are filed.
Own(history, w) ==
    LET own == {k \in DOMAIN history : history[k].content.witness = w}
        Number(k) == history[k].content.sequence
        Before(k) == {j \in own : Number(j) < Number(k) \/ (Number(j) = Number(k) /\ j < k)}
    IN  [i \in 1..Cardinality(own) |->
            history[CHOOSE k \in own : Cardinality(Before(k)) = i - 1]]

\* Mutant: the number of a record is looked at and its link is not.
Numbered(own) == \A i \in DOMAIN own : own[i].content.sequence = i - 1

Linked(own) ==
    \A i \in DOMAIN own :
        /\ own[i].content.sequence = i - 1
        /\ own[i].content.previous = IF i = 1 THEN << >> ELSE <<own[i - 1].content>>

\* verify_witness_chains(): the latest of each witness, none if a chain is broken.
ChainsHold(history) == \A w \in Witness : Linked(Own(history, w))

Latest(history) ==
    IF ChainsHold(history)
      THEN {Last(Own(history, w)) :
                w \in {v \in Witness : Own(history, v) # << >>}}
      ELSE {}

Of(test) == IF test THEN "true" ELSE "false"

\* verify_bundle().  (The project's own genesis and the lengths of the payload are
\* constants of the code.)
Checks(b, avail) ==
    LET cp == b.checkpoint.content
        latest == Latest(b.history)
    IN  [PROTOCOL_GENESIS_BINDING |-> Of(/\ cp.genesis = b.genesis
             /\ \A k \in DOMAIN b.history : b.history[k].content.genesis = b.genesis),
         ALL_OBSERVATION_PQ_SIGNATURES |-> AllSignatures(b.history, avail),
         WITNESS_CHAINS |-> Of(ChainsHold(b.history)),
         CHECKPOINT_LATEST_OBSERVATION_SET |-> Of(latest = cp.records),
         MERKLE_ROOT |-> Of(latest # {} /\ MerkleRoot(latest) = cp.root),
         CONSENSUS_RULE |-> Of(latest # {} /\ Answer(latest, cp.f) = cp.answer),
         CHECKPOINT_PQ_SIGNATURES |-> Signatures(b.checkpoint, avail),
         BITCOIN_RAW_STRUCTURE |-> Of(b.block # << >> =>
             b.block[1].sound /\ b.block[1].payload = b.checkpoint)]

\* consensus() raises on too few witnesses, and so does a block that does not parse.
Raises(b) ==
    \/ Latest(b.history) # {}
       /\ Cardinality(Latest(b.history)) < 3 * b.checkpoint.content.f + 1
    \/ b.block # << >> /\ ~b.block[1].parses

Verdict(b, avail) ==
    LET checks == Checks(b, avail) IN
    IF Raises(b) THEN "raised"
    ELSE IF \E c \in DOMAIN checks : checks[c] = "UNAVAILABLE" THEN "INDETERMINATE_TOOLCHAIN"
    ELSE IF \E c \in DOMAIN checks : checks[c] = "false" THEN "FAIL"
    ELSE IF b.block # << >> /\ b.block[1].work THEN "PASS" ELSE "PASS_PRE_POW"

Passing == {"PASS", "PASS_PRE_POW"}

-------------------------------------------------------------------------------
Init ==
    /\ run = 1 /\ genesis \in Genesis
    /\ chains = [w \in Witness |-> << >>]
    /\ published = {} /\ bundle = << >> /\ edits = 0

\* A witness signs what follows its last record.
Observe(w, claim) ==
    /\ run <= MaxRuns /\ Len(chains[w]) < MaxRecords[w]
    /\ LET own == chains[w]
           o == [witness |-> w, genesis |-> genesis, sequence |-> Len(own), claim |-> claim,
                 previous |-> IF own = << >> THEN << >> ELSE <<Last(own).content>>]
       IN  chains' = [chains EXCEPT ![w] = Append(own, Signed(o))]
    /\ UNCHANGED <<run, genesis, published, bundle, edits>>

\* A history of all records, in one order of theirs (SwapRecords has others), and the
\* checkpoint over the latest; then a new run.
Publish ==
    /\ run <= MaxRuns /\ \A w \in Witness : chains[w] # << >>
    /\ Cardinality(Witness) >= 3 * F + 1
    /\ LET latest == {Last(chains[w]) : w \in Witness}
           b == [genesis |-> genesis, history |-> SetToSeq(UNION {ToSet(chains[w]) : w \in Witness}),
                 checkpoint |-> Signed(Checkpoint(latest, F)), block |-> << >>]
       IN  published' = published \cup {b}
    /\ run' = run + 1 /\ genesis' \in IF run = MaxRuns THEN {genesis} ELSE Genesis
    /\ chains' = [w \in Witness |-> << >>] /\ UNCHANGED <<bundle, edits>>

\* A bundle is made of the history of a run and the checkpoint of the same or
\* another; and what may happen to it before it is verified.
HandOn ==
    /\ run > MaxRuns /\ bundle = << >>
    /\ \E p, other \in published : bundle' = <<[p EXCEPT !.checkpoint = other.checkpoint]>>
    /\ UNCHANGED <<run, genesis, chains, published, edits>>

Edit(b) ==
    /\ bundle # << >> /\ edits < MaxEdits
    /\ bundle' = <<b>> /\ edits' = edits + 1
    /\ UNCHANGED <<run, genesis, chains, published>>

b0 == bundle[1]
AllSigned == UNION {ToSet(p.history) : p \in published}

LoseRecord == bundle # << >> /\ \E i \in DOMAIN b0.history :
    Edit([b0 EXCEPT !.history = RemoveAt(@, i)])

AddRecord == bundle # << >> /\ \E r \in AllSigned :
    Edit([b0 EXCEPT !.history = Append(@, r)])

ReplaceRecord == bundle # << >> /\ \E i \in DOMAIN b0.history, r \in AllSigned :
    r # b0.history[i] /\ Edit([b0 EXCEPT !.history[i] = r])

SwapRecords == bundle # << >> /\ \E i \in 1..(Len(b0.history) - 1) :
    Edit([b0 EXCEPT !.history = [@ EXCEPT ![i] = b0.history[i + 1],
                                          ![i + 1] = b0.history[i]]])

ChangeRecord == bundle # << >> /\ \E i \in DOMAIN b0.history :
    \E c \in Claims[b0.history[i].content.witness] \ {b0.history[i].content.claim} :
        Edit([b0 EXCEPT !.history[i].content.claim = c])

\* A record is changed and signed by somebody; and a checkpoint over what is now the
\* latest of each witness may be, too.
SignAgain == bundle # << >> /\ \E i \in DOMAIN b0.history :
    \E c \in Claims[b0.history[i].content.witness] \ {b0.history[i].content.claim} :
        LET again == [b0 EXCEPT !.history[i] = Signed([@.content EXCEPT !.claim = c])]
            latest == Latest(again.history)
            cp == [b0.checkpoint.content EXCEPT !.records = latest, !.root = MerkleRoot(latest),
                      !.answer = Answer(latest, b0.checkpoint.content.f)]
        IN  \/ Edit(again)
            \/ latest # {} /\ Edit([again EXCEPT !.checkpoint = Signed(cp)])

\* An envelope is missing, or there twice.
ChangeEnvelopes == bundle # << >> /\ \E i \in DOMAIN b0.history, j \in DOMAIN InOrder :
    LET env == b0.history[i].env
    IN  /\ j \in DOMAIN env
        /\ \/ Edit([b0 EXCEPT !.history[i].env = <<env[j]>>])
           \/ Edit([b0 EXCEPT !.history[i].env = Append(env, env[j])])

TakeGenesis == bundle # << >> /\ \E p \in published :
    p.genesis # b0.genesis /\ Edit([b0 EXCEPT !.genesis = p.genesis])

\* The checkpoint says something else, and may have been signed saying it.
ChangeCheckpoint == bundle # << >> /\
    LET cp == b0.checkpoint.content
        others == {[cp EXCEPT !.f = 1], [cp EXCEPT !.answer = Answer(cp.records, 0)]}
            \cup {[cp EXCEPT !.answer = p.checkpoint.content.answer] : p \in published}
            \cup {[cp EXCEPT !.records = @ \ {r}] : r \in cp.records}
    IN  \E other \in others \ {cp} :
          \/ Edit([b0 EXCEPT !.checkpoint.content = other])
          \/ Edit([b0 EXCEPT !.checkpoint = Signed(other)])

PutBlock == bundle # << >> /\ \E p \in published, parses, sound, work \in BOOLEAN :
    /\ sound \/ work => parses
    /\ Edit([b0 EXCEPT !.block = <<[payload |-> p.checkpoint, parses |-> parses,
                                    sound |-> sound, work |-> work]>>])

Next ==
    \/ \E w \in Witness : \E claim \in Claims[w] : Observe(w, claim)
    \/ Publish \/ HandOn
    \/ LoseRecord \/ AddRecord \/ ReplaceRecord \/ SwapRecords \/ ChangeRecord \/ SignAgain
    \/ ChangeEnvelopes \/ TakeGenesis \/ ChangeCheckpoint \/ PutBlock

Spec == Init /\ [][Next]_vars

-------------------------------------------------------------------------------
\* SPEC: each observation "commits to its predecessor".  The history of a bundle that
\* passes holds, for each witness of the checkpoint, exactly what led to its latest
\* record, once: nothing lost, repeated, or taken from another run unless that run made
\* the same observation.  Whose it is, no signature says.  But where the latest that
\* the checkpoint names are observations of the runs, so is all that led to them,
\* whatever was changed and signed again.  (A record holds what it follows, so one
\* finite set alone is the latest and what is before it.)
PassingIsTheRecord ==
    bundle # << >> /\ Verdict(b0, Algorithms) \in Passing =>
        LET cp == b0.checkpoint.content
            made == {s.content : s \in AllSigned}
            named == {r.content : r \in cp.records}
            held == {b0.history[k].content : k \in DOMAIN b0.history}
            before == {o.previous[1] : o \in {p \in held : p.previous # << >>}}
        IN  /\ held = named \cup before
            /\ Len(b0.history) = Cardinality(held)
            /\ cp.records \subseteq ToSet(b0.history)
            /\ named \subseteq made => held \subseteq made
            /\ \A o \in held : o.genesis = b0.genesis

\* The bundle a run published passes, in whatever order its records are read, and
\* with the block that anchors it.
PublishedPasses ==
    bundle # << >> =>
        \A p \in published :
            /\ ToSet(b0.history) = ToSet(p.history) /\ Len(b0.history) = Len(p.history)
            /\ b0.checkpoint = p.checkpoint /\ b0.genesis = p.genesis
            /\ b0.block # << >> =>
                  LET c == b0.block[1] IN c.parses /\ c.sound /\ c.payload = p.checkpoint
            => Verdict(b0, Algorithms) =
                  IF b0.block # << >> /\ b0.block[1].work THEN "PASS" ELSE "PASS_PRE_POW"

\* verify.py:11: "never FAIL, because failing to check is not the same as checking and
\* finding a failure".  An OpenSSL that lacks an algorithm says of any bundle what a
\* complete one says, or that it cannot tell.
UnableNeverDecides ==
    bundle # << >> =>
        \A avail \in SUBSET Algorithms :
            Verdict(b0, avail) \in {Verdict(b0, Algorithms), "INDETERMINATE_TOOLCHAIN"}
===============================================================================
