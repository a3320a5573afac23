----------------------------- MODULE NativeMiners -----------------------------
(***************************************************************************)
(* One mining round of live/race.sh: CORES copies of native/mine_sha256d   *)
(* over consecutive spans of the nonce space, each writing its outcome to  *)
(* a file of its own, and the shell that polls the files every 5 seconds   *)
(* and then looks whether any miner still runs.                            *)
(***************************************************************************)
EXTENDS Integers, FiniteSets

CONSTANTS
    NonceCount,     \* bound: the size of the nonce space, 2^32 in the program
    Cores           \* the number of miners

ASSUME SizeAssumption == NonceCount \in Nat \ {0} /\ Cores \in 1 .. NonceCount

Nonce == 0 .. NonceCount - 1
Core  == 0 .. Cores - 1

\* SPAN=$(( 4294967296 / CORES )): the shell divides integers.
Span == NonceCount \div Cores
Start(i) == i * Span

VARIABLES
    solutions,  \* the nonces whose header meets the target
    k,          \* the offset each miner tries next
    proc,       \* each miner: running, flushed (its file is written) or dead
    file,       \* each miner's range file: empty, a nonce, or NOT_FOUND
    shell,      \* what the polling shell does next, or how it left the loop
    header      \* FOUNDHDR: the nonce of the header taken, -1 for none

minersVars == <<solutions, k, proc, file, shell, header>>

Empty == -1         \* an empty range file, an empty FOUNDHDR
NotFound == -2

MinersInit ==
    /\ solutions \in SUBSET Nonce
    /\ k = [i \in Core |-> 0]
    /\ proc = [i \in Core |-> "running"]
    /\ file = [i \in Core |-> Empty]
    /\ shell = "grep"
    /\ header = Empty

\* Mutant: the last nonce of the span is left out.
InRangeShort(i) == k[i] + 1 < Span

\* The miner's loop condition.
InRange(i) == k[i] < Span /\ Start(i) + k[i] <= NonceCount - 1

\* A nonce that misses the target.
Miss(i) ==
    /\ proc[i] = "running" /\ InRange(i)
    /\ Start(i) + k[i] \notin solutions
    /\ k' = [k EXCEPT ![i] = @ + 1]
    /\ UNCHANGED <<solutions, proc, file, shell, header>>

\* A hit: the file is written when the process flushes its output on exit.
Hit(i) ==
    /\ proc[i] = "running" /\ InRange(i)
    /\ Start(i) + k[i] \in solutions
    /\ file' = [file EXCEPT ![i] = Start(i) + k[i]]
    /\ proc' = [proc EXCEPT ![i] = "flushed"]
    /\ UNCHANGED <<solutions, k, shell, header>>

Exhaust(i) ==
    /\ proc[i] = "running" /\ ~InRange(i)
    /\ file' = [file EXCEPT ![i] = NotFound]
    /\ proc' = [proc EXCEPT ![i] = "flushed"]
    /\ UNCHANGED <<solutions, k, shell, header>>

Exit(i) ==
    /\ proc[i] = "flushed"
    /\ proc' = [proc EXCEPT ![i] = "dead"]
    /\ UNCHANGED <<solutions, k, file, shell, header>>

Miner(i) == Miss(i) \/ Hit(i) \/ Exhaust(i) \/ Exit(i)

\* Mutant: any output counts as a header.
PrintedAnything == {i \in Core : file[i] # Empty}

Printed == {i \in Core : file[i] \in Nonce}

\* grep "^header=" range*.out | head -1, then every miner is killed and waited for.
GrepFound ==
    /\ shell = "grep"
    /\ \E i \in Printed :
          /\ \A j \in Printed : i <= j
          /\ header' = file[i]
    /\ shell' = "found"
    /\ proc' = [i \in Core |-> "dead"]
    /\ UNCHANGED <<solutions, k, file>>

GrepNothing ==
    /\ shell = "grep"
    /\ Printed = {}
    /\ shell' = "kill -0"
    /\ UNCHANGED <<solutions, k, proc, file, header>>

\* Mutant: the loop never ends by itself.
LookNoBreak ==
    /\ shell = "kill -0"
    /\ shell' = "grep"
    /\ UNCHANGED <<solutions, k, proc, file, header>>

\* kill -0 on every pid: the loop ends when none is alive.
LookAlive ==
    /\ shell = "kill -0"
    /\ shell' = IF \A i \in Core : proc[i] = "dead" THEN "exhausted" ELSE "grep"
    /\ UNCHANGED <<solutions, k, proc, file, header>>

Shell == GrepFound \/ GrepNothing \/ LookAlive

MinersNext == Shell \/ \E i \in Core : Miner(i)

\* The scheduler runs every process.
Fairness == WF_minersVars(Shell) /\ \A i \in Core : WF_minersVars(Miner(i))

MinersSpec == MinersInit /\ [][MinersNext]_minersVars /\ Fairness
-------------------------------------------------------------------------------
Scanned(i) == {Start(i) + d : d \in 0 .. k[i] - 1}

\* The header handed to finalize_mined_block.py meets the target, and it is the
\* first solution of the span it was found in.
HeaderIsFirstHit ==
    shell = "found" =>
        /\ header \in solutions
        /\ \E i \in Core :
              /\ header = Start(i) + k[i]
              /\ Scanned(i) \cap solutions = {}

Tried == UNION {Scanned(i) : i \in Core}

\* The workers share the nonce space, whatever their number: none tries what
\* another tried, and when every one of them reports that it found nothing, the
\* nonces nobody tried are those past the last span, fewer than there are workers.
SpansShareTheSpace ==
    /\ \A i, j \in Core : i # j => Scanned(i) \cap Scanned(j) = {}
    /\ (\A i \in Core : file[i] = NotFound) =>
          /\ Nonce \ Tried = Cores * Span .. NonceCount - 1
          /\ Cardinality(Nonce \ Tried) < Cores

\* live/race.sh:20 says workers and span "must partition the 2^32 nonce space
\* exactly": when every miner reports that it found nothing, all was tried.  So it
\* is where the workers divide the space (RaceProofs), which nothing asks of them.
NotFoundMeansAllTried == (\A i \in Core : file[i] = NotFound) => Tried = Nonce

\* live/race.sh:61 reports "nonce space exhausted" when it leaves the loop
\* without a header: no nonce of this round solves the header then.
ExhaustedMeansNoSolution == shell = "exhausted" => solutions = {}

\* The round ends: with a header, or with every miner gone.
RoundEnds == <>(shell \in {"found", "exhausted"})
===============================================================================
