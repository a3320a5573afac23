# Chronology Protocol: a verification project in TLA+

The repository builds bundles of signed observations, claims of when they were
made, and evidence that ties them between two blocks of a public chain, and it
verifies such bundles. Around that it mines the anchoring blocks (with native
processes or an FPGA), submits them, and relays blocks over LoRa radio. This
directory models those parts that keep state, run beside something else, or
compute what a verdict rests on.

## 1. Inventory

| Part | Source | State it keeps | Operations | What makes it correct |
|---|---|---|---|---|
| interval consensus | `ctp/interval.py` | sweep: support, open region, regions out | `quorum_regions`, `consensus`, `order` | regions are exactly the maximal runs a quorum supports; f faulty witnesses neither make nor break one |
| signed records, checkpoints, bundles | `ctp/model.py`, `ctp/merkle.py`, `ctp/verify.py`, `ctp/bundle.py`, `ctp/genesis.py` | per-witness sequence and previous hash | sign, chain check, build a checkpoint, verify a bundle | a bundle that passes is the whole history of its checkpoint; what was published passes |
| sandwich verifier | `ctp/sandwich.py`, `scripts/verify_sandwich.py` | none | `derive_measurement`, `verify_sandwich` | PASS means: made after B0 and before C, by evidence that hashes and replays |
| sessions that make an epoch | `scripts/run_sandwich.py`, `run_g2b.py`, `run_g5.py`, `run_g6.py`, `run_*_binding.py`, `start_optical_session.py`, `assemble_*_bundle.py` | files of a work directory | open, measure, photograph, sign, write; assemble | one bundle is one run; nothing left over enters it; what was anchored stays |
| external binding | `ctp/binding.py`, `scripts/*binding*.py` | work directories: challenge, blobs, checkpoint, payload | open, continue, close, assemble, verify | a bound record lies between the opening block and the anchor; a published bundle can be made again |
| anchor race | `live/race.sh`, `live/race_sandwich.sh`, templates, `finalize_mined_block.py`, `submit_block_v01.py` | context file, loop counter, last hash | fetch, template, mine, finalize, submit, check | success means our block is the tip; the payload is anchored once |
| native miner | `native/mine_sha256d.c` and the polling loop of `race.sh` | processes, range files | mine a span, grep, kill | spans partition the nonces; a header found is not lost |
| FPGA miner | `fpga/rtl/*.v` | work registers, scanners, report register | load, scan, abort, report, ping | every nonce once; a report is a hit |
| FPGA host | `scripts/fpga_host.py` | port buffer, round | ping, scan, mine, selftest | no invalid block is saved, whatever the board sends |
| radio | `ctp/radio.py`, `scripts/radio_relay.py` | partial sets, seen ids, output file | fragment, feed, send, receive | each block once, whole, in the end |
| LoRa receiver | `scripts/lora_relay.py` | block files, two network states | send, receive | a file is what was sent; the states tell radio from network |
| chain fetchers | `live/fetch_tip_context.py`, `live/fetch_full_chain.py` | hashes and blocks heard so far | page, count, download, check, write | the height is that of the tip; a file is one branch |
| peer-to-peer | `ctp/p2p_v01.py`, `scripts/submit_block.py` | a socket | handshake, submit | a block refused is told from one accepted |
| encodings | `ctp/cbor.py`, `ctp/hashsuite.py`, `ctp/bitcoin_jan09.py` | none | encode, decode, targets | one encoding per value |
| third-party time | `ctp/ots.py`, `ctp/roughtime.py` | none | parse, verify | an attestation commits to what it names |
| renewal, signatures | `ctp/renewal.py`, `ctp/pq.py` | previous digest | renew, verify | a renewal is made before the suite it replaces falls |
| packaging | `scripts/build_archive.py`, `release_audit.py`, `verify_all.py` | none | pack, audit | reproducible output |

How they interact. A session fetches the tip of the chain (B0), derives from it
the challenge of each time server, records the exchanges (and photographs, or
another system's record), signs an observation history, and commits it in a
checkpoint that is the payload of a block (C). `race.sh` or the FPGA host mines
C on the current tip; an assembler then fetches the chain and packs records,
evidence and blocks into a bundle. The verifier recomputes everything from the
bundle. The radio tools carry whole blocks to receivers with no network.

What is hard here: processes that meet only in files and exit codes (`race.sh`);
scripts that are killed between two files and started again over what is left;
a chain that others extend and reorganise at the same time; a board that keeps
running when its host is stopped; a radio link without acknowledgements; a
verifier that must not take "could not check" for an answer; arithmetic at the
ends of closed intervals. `PROJECT.json` lists these hazards at their lines.

## 2. Plan and state

| Step | Modules | State |
|---|---|---|
| 1. time consensus | `TimeClaims`, `QuorumTime`, `QuorumSweep`, `QuorumSweepProofs` | checked, proved |
| 2. radio relay | `Reassembler`, `RadioRelay`, `RelayProofs` | checked; safety proved |
| 3. mining block C | `NativeMiners`, `AnchorRace`, `RaceProofs` | checked; safety proved |
| 4. mining on the FPGA | `MinerArray`, `FpgaMining`, `MiningProofs` | checked; safety proved |
| 5. the bundle and its verdict | `SandwichChecks`, `SandwichVerdict`, `SandwichVerdictProofs` | checked, proved |
| 6. the sessions | `BlockTree`, `RollingCode`, `EpochSession`, `BindingSession`, `EpochSessionProofs`, `BindingSessionProofs` | checked, proved |
| 7. records, checkpoints, `verify_bundle` | `SignedRecords` over `TimeClaims`, `SignedRecordsProofs` | checked, proved |
| 8. reading the chain | `TipFetch` over `BlockTree`, `MiningProofs` | checked, proved |
| 9. LoRa receiver | `LoraRelay` over `Reassembler`, `RelayProofs` | checked, proved |

Every safety property a passing run checks is also a theorem. What would come next, in
order: a byte-level serial line below `MinerArray`; the submission of a block
(`scripts/submit_block.py`).

How the modules hang together:

```
TimeClaims --- QuorumTime <...refines... QuorumSweep --- QuorumSweepProofs
TimeClaims --- SignedRecords --- SignedRecordsProofs   (the consensus of a checkpoint)
Reassembler --- RadioRelay --- RelayProofs
     \--------- LoraRelay ---/
NativeMiners          (one round of)  AnchorRace
     \--------- RaceProofs -----------/
MinerArray --- FpgaMining --- MiningProofs
BlockTree --- TipFetch -------/
TipFetch              (the fetch of)  AnchorRace, fpga_host.py and the sessions
SandwichChecks --- SandwichVerdict --- SandwichVerdictProofs
SandwichChecks + BlockTree + RollingCode --- EpochSession --- EpochSessionProofs
SandwichChecks + BlockTree --- BindingSession --- BindingSessionProofs
```

`NativeMiners` and `AnchorRace` model one script at two scales: the mining step
of `AnchorRace` (`Mine` or `RoundFails`) is the round of `NativeMiners`, whose
`RoundEnds` says the step returns. The two session modules take what a bundle's
verdict is from the same `SandwichChecks` that `SandwichVerdict` examines on
bundles nobody produced honestly. `AnchorRace` and the sessions take a fetch of
the chain as one step that returns the node's chain; `TipFetch` is that step at
its own scale, and says what it may return.

## 3. The modules and the code

`PROJECT.json` maps every definition to its lines. Here is the reading guide.

**`TimeClaims`, `QuorumTime`, `QuorumSweep`** (`ctp/interval.py`). A claim is a
pair of integers, an instant is an integer (picoseconds). `TimeClaims` says what
support, quorum and region mean; `QuorumTime` is the promise in one step;
`QuorumSweep` is the loop. `EventPoints` are the keys of the `events`
dictionary, `Delta(p)` its value after merging, `Sweep` one iteration over
`sorted(events)` with the two tests of the loop body in their order, `Conclude`
the test of `consensus()`. `verdict` stays `Undecided` until then.

**`Reassembler`, `RadioRelay`** (`ctp/radio.py`, `scripts/radio_relay.py`).
`partial` is `self._partial`, `seen` is `self._seen`. The four actions
`Feed...` are the four ways `feed()` returns: ignored, stored, rejected by
`pow_valid`, delivered. A payload remembers which block and part it was cut
from and whether its damage, if it has any, is in the header of the block or past
it: the proof-of-work test sees only the header, a reader of the output all of it; the id in the fragment is never damaged to another
block's (it would be a fragment of that block). `Fragment(b, i)` is what `fragment()`
cuts, `Whole` a block exactly as it was cut. `RadioRelay` adds the sender's
endless loop (`blockAt`, `index`), an air that loses (`Misses`) or damages
(`HearsDamaged`) a fragment, the receiver's file `out`, the hashes it read back
(`known`), and `Restart`.

**`LoraRelay`** (`scripts/lora_relay.py`). The same reassembler in a receiver
that works in sessions. `phase` is where the session is: `Begin` is the first
network snapshot, `WriteStart` its file, `Listen` the opening of the port, `Stop`
Ctrl-C or the deadline with the second snapshot, `WriteEnd` its file and the
printed verdict; `Fail` ends a session anywhere without the rest. `dir` is the
output directory: the two state files and the block files, each with the session
that wrote it, which the files do not say and the properties are about. The
host's network (`Reconnect`) changes between any two steps. A sending is
`Repeat` passes over the fragments of one block.

**`NativeMiners`** (`live/race.sh`, lines 20-64, and `native/mine_sha256d.c`).
`file[i]` is the range file of process i: it becomes visible with `Hit` or
`Exhaust`, when the process flushes, and the process is gone for `kill -0` only
with `Exit`, a step later. `Span` is the integer quotient of the shell, for any
number of cores. `GrepFound`/`GrepNothing`/`LookAlive` are the three
commands of the polling loop, each a step of its own, since miners run between.

**`AnchorRace`** (`live/race.sh`). `phase` is the next command; `ctx` is the
context file, `ourHash` is `OURHASH`. The commands that may fail without ending
the script (`|| true`, `continue`) are actions beside their successful form,
limited by `MaxTrouble`. The public node and the laboratory's miner are the
environment: `LabMines`, `LabRelays`, `LabHears`, `LateArrival`. They are
modelled from what `race.sh` and `fetch_tip_context.py` assume of a node: it
keeps the first of two equally high chains. A block of `tree` remembers the
blocks its hash fixes (`chain`), so what is anchored on a chain is read off its tip.

**`MinerArray`, `FpgaMining`** (`fpga/rtl/miner_top.v`, `sha256d_miner.v`,
`scripts/fpga_host.py`). One symbol is a run of bytes, one `Tick` is the time
for one nonce. `core[i]` is a scanner: `busy`, its nonce, and `under`, the work
it actually hashes. The last matters because a busy core does not hear `start`
and takes the new registers in mid-scan. `report` is the shift register, `ping`
the pending answer, `loading` the receiver's byte counter being non-zero.
`FpgaMining` is the `mine` command: `down`/`up` are the serial lines, `host` is
the place in the program (`tag` and `body` are the two reads of `scan()`).
`Interrupt` is Ctrl-C or a lost port; the board runs on. `tested` and `tests`
are history: which nonces were tried for the current work, and how often.
`Spoiled` numbers the last work an interrupted run may have spoiled, the first of
the run after it; the properties about the sweep begin behind it.

**`SandwichChecks`** (`ctp/sandwich.py`, `ctp/binding.py`). The decision about a
bundle as operators named for the checks: `Bound` (q, B0, session in every
blob), `Echoed`, `Fits` (per observation), `Counted` (sources, blobs and
observations compared), `Measured` (these together, and one frame that declares
its origin for all observations), `ExtensionFailed`, `Unchecked`, the set `Results`, and
`Verdict`, which ranks it. Hashes are not computed: a blob carries what a
recomputation would find. What a bundle says of its headers is in two fields,
`linked` (the targets of B0 and of the headers up to C, and each on the one before)
and `chained` (the headers after C).

**`SandwichVerdict`**. A bundle whose history is fixed by C and whose list of
evidence is not. `Init` is every bundle up to the bounds that a session could
have left, sound or not; the actions are what a holder can do (`AppendUnknown`,
`AppendExternal`, `AppendMeasured`, `Bury`, `Supply`). `made` is the one thing
the verifier cannot see: before B0, between, or after C.

**`EpochSession`, `RollingCode`** (eight scripts that make an epoch and their
assemblers). The scripts share their steps and differ in which they take, so each
is a record in `Plan`: the steps up to the signature, the files written before
the blobs, the files written after the payload. `MayOpen` and `MayRun` are the
tests with which each refuses to run over an earlier run; `Enough` is what each
demands of the NTP round. `todo` holds the steps the running program has before
it and `mem` its variables; `Write` writes one file and `Crash` comes between any
two steps. The exchanges of a round are items of their own (`Witnesses`), and `Observed` are
those an observation is signed for. `signed` remembers what each checkpoint
commits to, its history included, so a file holds the number of a checkpoint, as
its digest would. `Replaced` overwrites blob i and
leaves higher ones, as files named `blob-i` do. `Shoot` puts photographs where
the optical scripts hash them, before, between or after their runs; `Rehearse` is
`--dry-run`, which for satroot still writes the events file. `RollingCode` is
`assess()` of `run_g6.py`: which frames count, in which slots, over what span.
`Others` and `Anchor` extend the tip or a block below it, so the chain can be
reorganised; `BuildTemplate` is the race reading the payload file.
The assemblers change nothing they read, so `CanAssemble` and `Passes` are
functions of the state, and the properties hold of a bundle made at any moment.
Blocks are numbered in the order found and remember the branch they end
(`BlockTree`: a hash fixes it), so "B0 existed, C did not" is `b0 <= at < c`. The `challenge.json` of `run_g2b.py` comes from outside
the repository; the opener of the other optical sessions stands for it.

**`BindingSession`** (`open_binding_session.py`, `verify_external_record.py`,
`close_binding_session.py`, `assemble_binding_bundle.py`). A directory holds a
`challenge` (a session, shared after `Continue`), the blobs, history, checkpoint
and payload. `Close` makes the guard tests and the NTP round and has everything
in memory; `Write` writes one file, the payload last; `Crash` comes between any
two, after which the same directory may be closed again over what was left. The
records are the other system's: each carries the tag of a session and was made
at a moment that `made` remembers. `CanAssemble` and `Assembled` take the blocks
`fetch_chain()` returned, so that one can speak of a bundle made again later.

**`SignedRecords`** (`ctp/model.py`, `ctp/merkle.py`, `ctp/verify.py`,
`ctp/bundle.py`, `ctp/pq.py`). A digest is what it is taken of: `previous` is the
whole preceding observation, so a chain is a nested record, and `Signed` is the
content with one envelope per algorithm. `Paired` is one turn of the Merkle loop,
with the odd node paired with itself, and `MerkleRoot` the loop, as a function of
the level. `Own` sorts by rank: a record stands where its number, and among equal
numbers its place in the file, puts it. `Signatures` keeps the order of the code, where the
first envelope that is wrong or cannot be checked decides; `Checks` is the table
of `verify_bundle()` and `Verdict` its ranking, with the two ways it raises
instead. As in the code, nothing says whose a signature is: the key comes with the
envelope. `Observe` and `Publish` are honest runs (a
history is filed in one order, `SwapRecords` has the others); `HandOn` and the actions after
it are what may happen to a bundle file before it is verified: a record lost,
added, replaced, out of order, changed, or changed and signed again by somebody
(`SignAgain`, with a new checkpoint over it or not), envelopes missing or doubled,
another run's genesis or checkpoint, a block of any quality.

**`TipFetch`** (`live/fetch_tip_context.py`, `live/fetch_full_chain.py`). Two
queues of messages between a program and a node, whose blocks are those of
`BlockTree`. The node (external) hears
blocks (`Find`), changes branch, announces its new tips and transactions once it
knows the program, and answers in order; how many hashes it puts in an inventory
is its choice. `StopAsking` is the silence, the deadline or the inventory without
a block that ends the paging: a timeout is a step the program may take at any
time, and `early` remembers whether something was still under way. `Acceptable`
is the checks before anything is written.

## 4. The runs

Every cap on a counter is a constant of the module that uses it, marked "bound"
where it is declared: `MaxDamage`, `MaxRestarts`, `MaxSends`, `MaxSessions`,
`MaxChanges`, `MaxLab`, `MaxTrouble`, `MaxTicks`, `MaxRuns`, `MaxBlocks`,
`MaxStart`, `MaxClosings`, `MaxRecords`, `MaxEdits`, `MaxEvidence`, `MaxHistory`,
`MaxAppended`, `NonceCount`, and `Bounds` of `EpochSession`, one set per script.
`MaxRounds` is not one: it is an option of both programs. Deadlock is checked in
the radio run, whose sender never stops; the other systems do stop (a script
exits, a bundle is final, a bound is reached) and their configurations say so.

| Run | Shows | Bounds, and why they are enough |
|---|---|---|
| `quorum_sweep` | the loop computes the maximal runs, refines `QuorumTime`; F faulty claims neither make nor break a region | 4 witnesses, F = 1, claims over 0..3: every way four closed intervals can meet, nest, touch end to start or leave a gap of one. The theorems remove the bound for all six, the refinement included |
| `radio_relay` | the file holds each block once, whole when the air was clean, and gets every block | blocks of 2 and 3 fragments, 2 damaged fragments, 1 restart: a slot can be completed wrongly by a damaged count and again by a damaged payload, before and after a restart. The theorems remove the bound for both safety properties |
| `lora_relay` | damage stays in the session that heard it; the printed verdict is true of a network that stood still; the two states enclose the blocks | blocks of 1 and 2 fragments, 2 passes, 3 sendings, 2 sessions over one directory, 1 damaged fragment, 1 change of the network: the second session meets files and a half-heard block of the first. The theorems remove the bound for all three |
| `native_miners` | the spans do not overlap and leave out less than a nonce for each miner, the header taken is a first hit, the round ends | 3 miners, 8 nonces, so that 2 are left over, every set of solutions. Two processes would give every race with the shell; the theorems remove the bound for the two safety properties |
| `native_miners_lost_hit` | violation: a found header is thrown away as "nonce space exhausted" | 2 miners, 6 nonces |
| `anchor_race` | success is announced only on the tip; how many anchors there may be; the race is lost only to rivals and failures | 4 rounds, 2 rival blocks, 2 failures: enough rounds to use up all rivals and failures and to win or lose after them. The theorems remove the bound for the first two and for what a lost race needs |
| `fpga_mining` | the interleaved scan covers the space once, save in the first round after an interrupted run; every scan ends; a block saved is a solution of its own header, whatever an interrupted run left on the board | 2 cores, 5 nonces (the stride does not divide the space, so it wraps into the other class), 2 rounds, headers with no hit, with a false hit before a solution, with the last nonce as the solution; 2 runs: the second meets scanners, a report and a half-read buffer of the first. The theorems remove the bound for both safety properties |
| `sandwich_verdict` | what a pass says about the evidence, what appending can do to a verdict, and what BOUND is worth | bundles of up to 2 blobs and 2 observations out of nine blobs of every kind, 1 appended: two of each is what it takes for an excess of one to pay for a lack of another. The theorems remove the bound for all six |
| `epoch_session` | a bundle that passes was acquired between its B0 and its C and is one run's; an honest run's passes; the scripts that refuse to run twice keep what they anchored; a series called strong lasts | each of the eight scripts; 1 witness demanded and 2 for the consensus (the program: 3 and 4), so a session may satisfy the script and not the consensus, and runs of different sizes overwrite each other; 2 runs, up to 2 sessions, 4 blocks (B0, a fork beside it, C twice; 3 where photographs vary), two series of photographs of which one is too short, thresholds scaled down with them. The theorems remove the bound for all six properties |
| `binding_session` | what a directory binds carries its tag and was made after B0 and before every block that anchors it; a passing bundle has a B0 on the branch of its C; a published one can be made again | 2 directories (symmetric), 2 records, 2 closings, of one directory or of both, 1 or 2 witnesses so that a second closing is shorter or longer than the first; 4 blocks as above. The theorems remove the bound for both |
| `signed_records` | a bundle that passes is the whole history of its checkpoint and nothing else, and all of it the runs' where the latest records are; what was published passes; an OpenSSL without an algorithm never decides otherwise | 2 runs of 2 witnesses with chains of 2 and 1, F = 0, 2 geneses, agreeing and disagreeing claims, the checkpoint of either run and one change of any kind: a change can meet a mixture of two runs. The tolerance 1 occurs in a changed checkpoint, where `consensus()` raises. The theorems remove the bound for all three |
| `tip_fetch` | in quiet times the height and the tail are those of the node's chain; at any time a file is one branch | a tail of 2 for the program's 11, pages of 1 and of everything, up to 3 blocks at the start and 5 in all: a fork of length 2 and a program that has passed it. The theorems remove the bound for both |

The violation is stated in `PROJECT.json` with the line it contradicts:
`live/race.sh:61` says "nonce space exhausted", and the loop leaves after a grep
that came before the last miner's header.

### Fairness

Only what the programs' schedulers give.

* `RadioRelay`: the sender's loop never stops (weak fairness of `Hears \/ Misses`),
  and a fragment sent again and again is heard undamaged again and again (strong
  fairness per fragment: with weak fairness the air could lose the same one
  every time, and nothing could be promised). No fairness for damage or restarts.
* `NativeMiners`: the operating system runs the shell and each miner (weak).
* `AnchorRace`: each command of the script returns, it has its own timeouts
  (weak fairness of `Script`). The node and the laboratory owe nothing.
* `FpgaMining`: the board's clock (weak fairness of receiving, ticking, sending),
  the host's reads and its straight-line steps (weak), and the timer of a round:
  strong, because a keep-alive answer on the line disables the timeout step for
  a moment while the wall clock runs on.
* The other modules state no liveness: the sweep and the verifiers are loops over
  finite sets, and the sessions, the fetchers and the LoRa receiver wait for
  people and for a chain, or give up by the clock; a LoRa block is sent a fixed
  number of times, so nothing promises that it arrives.

## 5. The proofs

`tlapm` checks eight modules, for every value of the constants that their
assumptions admit.

**`QuorumSweepProofs`.** Assumed: the witnesses are finitely many, n >= 3F + 1
(both enforced by `consensus()`, which raises otherwise), end points are integers, and
`None` is no integer. `SweepIsExact` and `RegionsSeparated` are not inductive:
after one iteration nothing in them says what `support` counts. The invariant
`IInv` is `TypeOK` and

* `InOrder`: points visited are smaller than points pending;
* `Counted`: `support` is the number of claims entered and not left (`Active`);
* `OpenIffQuorum`: a region is open exactly when that number is a quorum;
* `Behind`: region ends are event points already visited;
* `RegionsSeparated`; `Exact`, which is `SweepIsExact` over all integers;
* `Concluded`: a verdict repeats the finished output.

One step of the loop is proved in two lemmas: `VisitCounted` (an exchange of
finite sets: entering claims are new, leaving ones were active) and
`ActiveSupports` (between two event points the support of an instant is the
number of active claims). `TypeCorrectness`, `Exactness`, `Separation` follow
from `IInv`, `TrueTime` and `Vouched` with a counting argument on top.

`Implementation` is the refinement of `QuorumTime`: `Sweep` is a stutter, since
the mapped answer stays `Undecided`, and `Conclude` is `Decide`. For that, what the loop
emitted must be all `Regions` and nothing else (`EmittedAreRegions`): an emitted
region cannot be extended, since its neighbours are in no region of the output
(`OutputAtTheEnd`), and its ends are ends of claims, because support grows only where
a claim begins and shrinks only where one ends (`SupportChanges`). `consensus()`
tests the length of the output where `QuorumTime` counts a set; `OneRegion` says
that this is the same, as no region is emitted twice.

**`SandwichVerdictProofs`.** Assumed: `BlobAssumption`, which is what hashing
gives (what carries q or a tag made from it came after B0, what names a record
by hash came after the record), and the shape of blobs and observations. The
invariant is `Typed` (bundle and extension have their shape) and `Committed`
(no cited blob was made after C: C fixes the history). `Committed` is needed since the
verifier cannot see the time of a blob, and it survives appending because
appending never touches the history. `PassMeans` unfolds a passing verdict into
the checks that held, once; `CitedIsThere` shows that a cited blob is then in
the evidence and sound, whether the verifier or an extension answered for it.
From these, `CitedInWindow` and `PassIsAnswered`; `BoundIsWorth` follows a BOUND
to the blob it rests on, which the history cites or somebody appended. `NoneSpare`
is a pigeonhole: the function from observations to the blob each cites is
injective where no blob is cited twice, the counts make the two finite sets
equally large, hence it is onto and nothing is spare. `NoHelpFromOutside` is about
a step: a record of another system enters no index and no count
(`ExternalCountsNothing`), so each check of the longer bundle is one of the shorter, or one
more (`ExternalIsNoExcuse`); a blob of an unknown type is a check that cannot be made.

**`RelayProofs`** is about both relays. Assumed: every block is cut into at least one
fragment, the radio sender's file names at least one block, and the shape of the
other constants. Three lemmas carry both. `CleanParts` and `CleanSlotsStep`: every
fragment collected is one that was sent, and an undamaged fragment keeps that, whichever
way `feed()` returns. `CleanWhenComplete`: as many distinct indices as there are
fragments are all of them (`Completes` compares cardinalities), so a completed set
is the block, whole.

For `RadioRelay`, `NeverTwice` (`WrittenOnce`) needs
`FileInv`: the receiver knows the hash of every line there is, whether it wrote
the line or read it back; without that a restart would be free to write it again.
`CleanFiles` (`CleanAirCleanFile`) needs `CleanInv`: the fragment on the air is
one of a block of the file, and as long as nothing was damaged the slots are
clean; a restart empties them and losses leave them.

For `LoraRelay` there are three invariants, one for each theorem, over different
parts of the state. `NetworkInv`: while the
network stands still, what the session has reached and its first snapshot are
what the host is. `FilesInv`: once a session has written its first state, the
last one is of an earlier session until it ends. `DamageInv`: the fragment on
the air is one of a block, and a session that heard no damage has clean slots;
what the session before left there is gone, since `Listen` makes a new
reassembler.

**`RaceProofs`**, the miners. Assumed: at least one core and no more cores than nonces. `RoundInv`
says of each miner what it has left behind it (no solution), that it has an
empty file while it runs, and that a file with a nonce names the one it stopped
at. The shell kills every miner when it takes a header, so none moves afterwards.
`HeaderHits` follows. `SpansShared` (`SpansShareTheSpace`) needs arithmetic besides:
two spans lie one behind the other (`SpansApart`), the quotient of a nonce by the span
is the core that has it, if any has (`SpansCover`), and the cores times the span fall
short of the space by less than the cores (`SpansFit`). Where the cores divide the
space nothing is left over, which is the corollary `AllTried` (`NotFoundMeansAllTried`).

**`RaceProofs`**, the race. Nothing is assumed of the bounds. `SuccessIsTheTip` is
about a step and not inductive: where the last fetch fails, the script compares
with whatever the context file holds. `RaceInv` says that every block anybody
remembers is one there is (`TypeInv`), and that from the moment our block is found until
the tip is read, the file holds an older block than ours (`ContextIsOlder`),
since it was found on what the file names. So the comparison with a stale file never
succeeds, and with a fresh one it is with the tip.

`CopiesHaveCauses` (`DuplicateNeedsCause`) keeps accounts. What has been paid is the
number of rival blocks the node has seen and of failures (`Paid`); what a block costs is
the number of copies on its chain and of blocks still in flight (`Copies`), for a
block in flight holds back the failure that sent it there until it arrives. The invariant `Accounts`:

* `OneUnpaid`: no block, on whatever branch, costs more than one above what is paid;
* `TipPaid`: the tip costs no more than that, unless it is the block just mined
  and not yet looked at, or the race is won;
* `ContextPaid`: so does the tip read by the last fetch, while the round mines on it.

A copy is added by mining on a tip that is paid for (`BlockMore`). Whatever replaces
the tip otherwise is a rival's arrival, a late arrival or a failure, each a payment more, after
which every block is paid for (`PaymentMade`). The property itself is not inductive: it
says nothing of branches the node may switch to.

`LossesHaveCauses` (`LossHasCauses`, the safety half of `LostOnlyToRivals`) is a second
account over the same payments, in which a failure counts twice (`Setbacks`). `RoundsInv`
says at each command of a round how far it is lost: before the tip is read
only the rounds before it are accounted for, and from then on either the tip is still the one
read, or the block just mined, or the round itself is accounted for too.

**`BindingSessionProofs`.** Assumed: the numbers are natural and the NTP round demands
at least one witness. `RecordsBeforeAnchor` is about directories and `SessionInv`,
which is, besides types,

* `Made`: a record follows the opening of the session whose tag it carries;
* `Owned`: an external blob, in a directory or in the memory of a closing, is of
  a record with the tag of that directory, whichever closing left it;
* `Paid`: while a closing writes, its directory has no payload and its number is
  above every payload there is; templates and blocks carry only payloads on disk;
* `Later`: a block that carries a directory's payload is later than its records.

`Paid` is what makes a killed closing harmless: nothing it wrote can have been
anchored, because the payload is written last, so a second closing may mix its
blobs with them.

`BundleBetween` (`RecordsBetween`) and `BundleReproducible` (`Reproducible`) are about
the last bundle and add `BundleInv`:

* `Grown`: every block's branch ends in it and contains the branch of each block on it;
* `Numbered`: a directory's files, where there are any, are of closings there are;
* `Remade`: the branch of the last header of a passing bundle, given to the
  assembler instead of the chain, makes that bundle now.

`Remade` is the strengthening both need: `Reproducible` says it only while that
header is on the chain, which a reorganisation may undo and redo. What keeps it
is that a passing bundle needs a payload, and a directory with a payload is
closed no more (`SameTomorrow`, `NothingLost`). The chain may be longer than that
branch: `SameBlocks` says that the first block with the payload above B0 is the
same on both, whatever is anchored again further up.

**`EpochSessionProofs`.** Assumed: a consensus needs at least one witness (3f + 1 is not 0), the
thresholds and bounds are natural numbers, a series of photographs is finite and its
seconds are natural, and the script is one of the eight. All six properties
follow from one invariant, `EpochInv`. Besides types and the tree of blocks it
has a part for each place where runs could mix:

* `MemOK`, `StageOK`: what a program knows and what it has still to do. Its challenge
  is of one session; its witnesses carry the number of the checkpoint it will
  sign, no two alike; after its photographs are hashed there is a camera item.
* `SignedInv`: what a checkpoint commits to (`Sealed`). The history is the first part
  of the blobs, an even number of exchanges and perhaps the camera, none twice,
  and the rest are external.
* `FilesInv`: blob i of the directory is blob i of some checkpoint. This is all a
  directory of killed runs promises.
* `WrittenInv`: what the running program has written already, read off what it has
  still to write (`Ordered`), since `NextBlob` counts the same way.
* `PaidInv`: a block with a payload is later than everything that payload commits to.
* `OnceInv`: a script that refuses to run twice, once its payload is written, has all
  its files, and nothing that could change one of them is left to do.

`StrongSeriesLasts` is arithmetic on top: the first and the last slot of the span
have frames in them (`Greatest`, `Least`), and a difference of slots is at most a slot longer
than one of seconds. `AnchoredStaysOnDisk` and `CausalBound` read off `OnceInv` and
`PaidInv`. `OneRun` needs an argument: a passing verdict says that the history cites as many
blobs as the directory has from witnesses and cameras; each observation's blob is in the
directory, at the place its run gave it, because a witness's item names its run;
so where the counts agree there is no room for a blob of another run. Records of
other systems are not in the history, and for three of the four scripts there
is exactly one, behind an even number of exchanges: one that a larger attempt left
has an exchange of that attempt below it, which would have been counted. Naxytra may bind several, and a longer attempt killed before
its history leaves some, which is why `OneRun` allows for them. `CleanRunPasses`
goes the other way, from the files to each of the verifier's checks
(`VerdictWhen` says which checks a pass is).

**`MiningProofs`**, the board. Assumed: no more cores than nonces, and a round lasts a full
sweep (`MaxTicks * Cores >= NonceCount`; `fpga_host.py:271` gives it a twentieth more).
`MinedAreValid` needs little: what is saved was hashed against the header the host
holds, and a header that gave a block is not scanned again (`SavedInv`).

`NoncesAreCovered` (`EveryNonceOnce`) needs all of the sweep, `Sweeps`, for every work
but the one that meets the cores of an interrupted run (`Spoiled`):

* `Lines`, `Known`: a `W` and its work stay together on the line, whichever of the two
  the board has read, and no work is of a job still to come;
* `Reset`, `Quiet`: work finds the cores idle, or behind an `S`, and so will the next one
  the program sends. Without this a core would go on in the middle of an old sweep
  with new registers;
* `InStep`: the cores that scan have the work of the registers, and after t ticks core i
  is at nonce (i + t * Cores) mod NonceCount (`At`);
* `Counted`: as long as the sweep is not through, all tested nonces lie below t * Cores and
  no two tests were of one nonce;
* `Listening`: while the program listens, its work is still under way, or a hit has been
  reported that it has not read yet, or every core scans on and the nonces tested
  are those of every core and tick so far. The last is what a timeout rests on.

The arithmetic is `AtIs` and `Covered`: below NonceCount the position needs no modulus, and
every nonce is i + t * Cores for one core and one tick of a full sweep.

**`MiningProofs`**, the fetchers. Assumed: pages, tail and retarget interval are not empty.
`FilesAreOneBranch` needs `FetchInv`: the tree of blocks is one (`Grown`: every branch ends in
its block, starts in the first and contains the branch of each block on it), and every
message names blocks above the first (`Sound`). Nothing is known of their order, for the
node may have changed branch between two pages; `LinkedIsBranch` says that blocks of
which each is the parent of the next are the end of the branch of the last, whatever
they were heard from. `QuietFetchesAreTrue` needs `QuietInv`, which
follows the conversation: among inventories that name no block there is exactly one
thing under way (`Asking`: the greeting, its answer, the question for what follows
the hashes heard, or the next page of the chain) or there is nothing left to hear, so the
hashes are always the chain from its second block up.

**`SignedRecordsProofs`.** Assumed: finitely many witnesses, integer instants, natural bounds. The
invariant `SignedInv` says where what is on file comes from, through every mixture and change:

* `PublishedInv`: each witness's records are a chain (`IsChain`: signed in its run over its
  own number, genesis and predecessor); each published bundle holds the records of the
  chains of one run, each once, with a checkpoint over the last of each (`ByRun`);
* `IsBundle`: each record in the history of the bundle given to a verifier is an observation
  under some envelopes (`Filed`), whoever made and signed it.

It does not say that the records are in order, complete, of one run, or of any: that is what
`verify_bundle()` has to find out, so far as it can. For `PassingHoldsTheRecord`
(`PassingIsTheRecord`): where the chains hold, a record's number is its rank among those of its
witness (`ChainsOf`), so no content is there twice, each names one that is there, and each is
the latest or named by one. Right signatures add nothing to that, since anybody can make
them. What the runs made is told from what they did not by the chain alone: what an
observation of a run names is one too (`RecordIs`), so if the latest are, a foreign record
could only be named by another foreign one nearer to the end (`Left`), and there is a nearest.
`PublishedAlwaysPasses` (`PublishedPasses`) goes the other way: a history
with the same records and as many entries has each once, and sorting them by number gives back
the chains of the run (`OwnIsChain`), whose last records are the checkpoint's. The Merkle root
and the consensus are then taken of the same set; what they compute does not matter. Both
rest on `OwnRecords`, on `Places` below it: in a finite set in order, every place is taken by one
element. `UnableCannotDecide` (`UnableNeverDecides`) is about two searches for the first that is
not right, of an envelope and of a record: an algorithm more may take away the first
only where that was an algorithm that could not be checked (`UnableSignatures`,
`UnableHistory`), and then the verdict was that it cannot tell.

**Only model-checked.** All liveness (it needs ENABLED and fairness): `EveryBlockArrives`,
`RoundEnds`, `LostOnlyToRivals` (that the race ends), `ScanEnds`. The values of recursive
definitions: that `MerkleRoot` tells two sets of records apart is an assumption about hashing,
and no theorem is about what it returns.

## 6. What is not modelled

Hash functions and signatures are symbols: a hash is taken to be injective, and
a signature right where it is over the content. Whose key made it no program of
the repository asks (`ctp/model.py:108` takes the key from the envelope), so no
property says that a witness made a record, only that somebody signed it. Formats (CBOR, OpenTimestamps, Roughtime messages,
Bitcoin serialisation) are taken as what they decode to, and the Merkle tree is
the only one of the encodings whose algorithm is modelled. Left out altogether:
the hash core, serial bytes and clocks of the FPGA (below the level of commands,
checked by simulation against known digests), the peer-to-peer client (one
message per program, with a deadline), the parsers of third parties' time
proofs (without state), the release and archive tools (packaging). Left out of
what is modelled: `order()` of `interval.py`, which no other program calls;
`derive_measurement()` and the expectations computed from astronomy; `probe` and
`config` of the LoRa tool; `selftest` of the FPGA host; the other systems' own programs in the binding scripts; what a
photograph shows. The complete list, with the reason for each, is `components` in
`PROJECT.json`.

Observations met while modelling that no run reports as a violation:

Mining and radio:

* `ctp/radio.py:107` and `scripts/lora_relay.py:336` say that a set failing its
  proof of work "stays open". `feed()` deletes the slot first (line 104), so the
  intact fragments are dropped with the damaged one and have to be heard again.
  `EveryBlockArrives` shows that they eventually are.
* `ctp/radio.py:14` says a corrupted fragment "simply fails to reassemble into
  something valid". `pow_valid` hashes the header only (line 119), so a block
  damaged past its header is accepted and written, and later clean repetitions
  are then ignored, by `seen` in the session and by `known` after it. `PowValid`
  models this (damage to the first fragment past the header included); `CleanAirCleanFile` therefore speaks of undamaged air.
* `scripts/lora_relay.py` writes a block over the file an earlier session wrote, so
  a damaged copy heard later replaces a clean one (`DamageStaysInItsSession` says
  of which session the damage is).
* `scripts/lora_relay.py:273` says both network states are written in every session.
  After an exception the end state is that of an earlier session, and nothing in
  the file says so (`StatesBoundTheBlocks`).
* `scripts/radio_relay.py:128`: a receiver killed inside the write leaves half a
  line, on which the next start fails. A line is one step of the model.
* `live/race.sh:20` says that workers and span must partition the nonce space
  exactly, and that a mismatched pair leaves a gap that is never searched. Line 24
  divides integers for any number of workers: 6 leave the last 4 nonces to nobody.
  `SpansShareTheSpace` bounds the gap (fewer nonces than workers); in `native_miners`
  there is one.
* `live/race.sh` may anchor the payload more than once: when our block is built
  upon, or arrives late, before the tip is read, the next round mines the
  payload again. `DuplicateNeedsCause` bounds the copies, `LostOnlyToRivals`
  the rounds lost.
* `scripts/fpga_host.py:303` skips the refresh after a false positive, so that
  round starts on the tip of the round before, unlike the others. (The tip is
  not in the model; its rounds take any header.) In the same place nothing
  drains the board: the report of a second core may be judged against the next
  header, and is then called a filter false positive. `SavedBlocksAreValid`
  shows it is never believed.
* `fpga/rtl/sha256d_miner.v:92`: a busy core ignores the start of new work. The
  host sends no `S` when it starts, so after an interrupted run the first round
  may skip some nonces and try others twice. `EveryNonceOnce` says that the damage
  ends with that round.

Sessions and their files:

* The scripts accept three complete NTP witnesses and the consensus needs four. A
  session with exactly three raises in `build_checkpoint()` after it has written
  `challenge.json` (`run_satroot_binding.py`, `run_pm_binding.py`), which then
  refuses to be run again.
* `run_galileo_binding.py` refuses to run once there is a checkpoint: killed
  between the checkpoint and the payload, its directory can be neither finished
  nor closed again. `AnchoredStaysOnDisk` is the other side of these tests.
* `run_sandwich.py`, `run_g2b.py`, `run_g5.py` and `run_g6.py` have no such test: run
  again over an anchored session they replace its checkpoint and payload.
* Blobs of a larger earlier run that a smaller one does not overwrite are packed
  with it. Those of witnesses and cameras make the bundle fail, until somebody
  removes them. Records that an attempt of `run_naxytra_binding.py`, killed before
  its payload, left behind a smaller one do not: the checkpoint does not commit to
  them, `scripts/assemble_binding_bundle.py:66` asks only that the first be of this
  session, and the bundle passes with them (`OneRun`).
* `run_satroot_binding.py --dry-run` is announced as writing nothing and writes
  `satroot-events.json` (lines 119, 138-141).
* `run_g6.py` measures the span of a series in slots, so a series called strong may
  have lasted up to one slot less than the minimum (`StrongSeriesLasts`), and
  counts the codes expected, not codes read.
* `scripts/close_binding_session.py:8` says it binds exactly the entries marked
  VERIFIED. A closing killed before `payload.hex` and run again with fewer
  records leaves the blob of the record taken out, and the bundle passes with
  it. It was made between B0 and C all the same (`RecordsBetween`).
* The same script writes `checkpoint.cbor` before `payload.hex` and reads only
  the former of the directory before it: a directory closed again replaces a
  checkpoint that a later epoch may already name as its predecessor, and two
  directories may close the same epoch. No verifier checks `previous` of a
  checkpoint.
* The binding scripts also write `*-binding-blob.cbor`, which nothing reads.

Assembling and verifying:

* `ctp/binding.py:122` says BOUND means before B1. An external blob is committed by
  nothing in C, so one may be added to the finished bundle; `BoundUnlessAppended`
  says that this is the only way.
* `scripts/assemble_sandwich_bundle.py:128` writes the bundle before verifying
  it: a failing assembly replaces a passing bundle of the same name. Line 119
  computes the Earth rotation expectation from the interval of the consensus: a
  session without one cannot be assembled, though the verifier has two verdicts
  for it.
* `scripts/verify_sandwich.py:14` says the exit status is 0 for two verdicts;
  line 59 takes any that starts with `SANDWICH_PASS`, which is four.
* A bundle in which one blob is cited twice may pass with another blob cited by
  nothing. `NothingSpare` states the condition.
* `docs/REALITY-SANDWICH.md:123` says a bundle that fails on its own still fails
  when evidence nobody can check is added. `Counted` compares numbers: where two
  observations cite one blob they differ by one, and an appended blob of an
  unknown type makes them equal, so the verdict becomes INDETERMINATE. It does
  not become a pass (`AppendedNeverHelps`).
* `ctp/model.py:108` and `:227` verify an envelope with the public key it brings, and
  nothing remembers a witness's key from one record, run or checkpoint to the next.
  A record that was changed and signed again with any key verifies; with a checkpoint
  signed again over it the bundle is `PASS_PRE_POW`. Only the block that carries the payload of
  the checkpoint, and whoever knows the keys, can tell (`PassingIsTheRecord` says
  what follows where the latest records are the runs' own).
* `verify_bundle()` raises, and so gives no verdict, where the checkpoint names a
  tolerance too large for its witnesses or the block does not parse (`Raises`).
* `live/fetch_tip_context.py:135` says the hashes received cover heights 1 to the
  height. A block announced before the first page, or the chain sent from genesis
  again after a reorganisation, is counted as well, so the height may be too
  large. The tail, its linkage and the tip are right all the same
  (`FileIsOneBranch`; `QuietFetchIsTrue` for when nothing intervened).
* `live/fetch_full_chain.py` and `fetch_chain()` of the assembler take the first
  inventory that comes. Where that is the announcement of a block, or of a
  transaction, the first writes nothing or a file without a line, and the
  assembler does not find B0.
