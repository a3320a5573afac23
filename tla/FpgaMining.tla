------------------------------ MODULE FpgaMining ------------------------------
(***************************************************************************)
(* scripts/fpga_host.py mine, driving the board of MinerArray: ping, then  *)
(* rounds of one header each, until a candidate meets the exact target.    *)
(* The process may be interrupted and run again; the board runs on.        *)
(***************************************************************************)
EXTENDS MinerArray

CONSTANTS
    Outcomes,       \* what a header can be: [hits, valid], sets of nonces
    MaxRounds,      \* --rounds
    MaxRuns         \* bound: how often the program is run

ASSUME HostAssumption ==
    /\ Outcomes \subseteq [hits : SUBSET Nonce, valid : SUBSET Nonce]
    /\ \A o \in Outcomes : o.valid \subseteq o.hits
    /\ MaxRounds \in Nat \ {0} /\ MaxRuns \in Nat \ {0}

VARIABLES
    host,       \* what the program does next
    round, runs,
    status,     \* how the last scan ended, and the nonce it judged
    saved       \* the block files written: job and nonce

program == <<host, round, runs, status, saved>>
vars == <<jobs, down, up, board, program>>

Job == Len(jobs)        \* the job whose header the host holds

None == [how |-> "none", nonce |-> -1]
Ended(how) == [how |-> how, nonce |-> -1]

Init ==
    /\ InitBoard
    /\ host = "stopped" /\ round = 0 /\ runs = 0
    /\ status = None /\ saved = {}

-------------------------------------------------------------------------------
\* A new process: the port is opened and the board pinged.
Run ==
    /\ host = "stopped" /\ runs < MaxRuns
    /\ runs' = runs + 1 /\ round' = 0
    /\ up' = << >> /\ down' = Append(down, P)
    /\ host' = "ping"
    /\ status' = None
    /\ UNCHANGED <<jobs, board, saved>>

\* Anything but 'K' as the first byte means no link.
PingRead ==
    /\ host = "ping" /\ up # << >>
    /\ up' = Tail(up)
    /\ host' = IF Head(up) = K THEN "ready" ELSE "stopped"
    /\ UNCHANGED <<jobs, down, board, round, runs, status, saved>>

BeginRound ==
    /\ host = "ready" /\ round < MaxRounds
    /\ round' = round + 1
    /\ \E o \in Outcomes : jobs' = Append(jobs, o)
    /\ up' = << >> /\ down' = down \o <<W, Len(jobs')>>
    /\ host' = "tag" /\ status' = None
    /\ UNCHANGED <<board, runs, saved>>

\* Once a second of silence, 'P' keeps the link warm; its answer is read long
\* before the next second.
Poke ==
    /\ host = "tag" /\ up = << >> /\ down = << >> /\ ~ping
    /\ down' = <<P>>
    /\ UNCHANGED <<jobs, up, board, program>>

\* A byte of a report whose head was thrown away by reset_input_buffer may look
\* like any tag.
TagOf(s) ==
    IF s = K THEN {"ignored"}
    ELSE IF s = Tag THEN {"F"} ELSE {"ignored", "F", "E"}

\* scan() ended without a candidate: 'S', and a pause in which the board hears it.
GiveUp(how) ==
    /\ status' = Ended(how)
    /\ down' = Append(down, S)
    /\ host' = "pause"

ReadTag ==
    /\ host = "tag" /\ up # << >>
    /\ up' = Tail(up)
    /\ \E t \in TagOf(Head(up)) :
          \/ t = "ignored" /\ UNCHANGED <<host, status, down>>
          \/ t = "F" /\ host' = "body" /\ UNCHANGED <<status, down>>
          \/ t = "E" /\ GiveUp("exhausted")
    /\ UNCHANGED <<jobs, board, round, runs, saved>>

\* Mutant: the board's word is taken for the target test.
Believed(n) == n \in Nonce

\* The exact target, over the host's own header.
Meets(n) == n \in jobs[Job].valid

\* 36 bytes: a nonce if that is what they begin with, else four bytes of something.
ReadBody ==
    /\ host = "body" /\ Len(up) >= 2
    /\ up' = SubSeq(up, 3, Len(up))
    /\ \E n \in (IF up[1] \in Nonce THEN {up[1]} ELSE Nonce) :
          IF Meets(n)
            THEN /\ saved' = saved \cup {[job |-> Job, nonce |-> n]}
                 /\ status' = [how |-> "valid", nonce |-> n]
                 /\ host' = "stopped"
                 /\ UNCHANGED down
            ELSE /\ status' = [how |-> "false positive", nonce |-> n]
                 /\ down' = Append(down, S)
                 /\ host' = "ready"
                 /\ UNCHANGED saved
    /\ UNCHANGED <<jobs, board, round, runs>>

\* Mutant: the port is opened without a timeout, and the read waits for ever.
ShortBodyBlocks == FALSE

\* The second allowed for the body passes.
ShortBody ==
    /\ host = "body" /\ Len(up) < 2 /\ report = << >>
    /\ up' = << >>
    /\ GiveUp("short report")
    /\ UNCHANGED <<jobs, board, round, runs, saved>>

\* A round lasts a full sweep at the measured rate, and a twentieth longer.
RoundTimeout ==
    /\ host = "tag"
    /\ up = << >> /\ down = << >> /\ report = << >> /\ ~ping
    /\ ticks = MaxTicks \/ Busy = {}
    /\ GiveUp("timeout")
    /\ UNCHANGED <<jobs, up, board, round, runs, saved>>

\* The tip is fetched again between two rounds: the next one's header is new.
Resume ==
    /\ host = "pause"
    /\ down = << >> /\ report = << >> /\ ~ping
    /\ host' = "ready"
    /\ UNCHANGED <<jobs, down, up, board, round, runs, status, saved>>

\* The last round is over.
Finish ==
    /\ host = "ready" /\ round = MaxRounds
    /\ host' = "stopped"
    /\ UNCHANGED <<jobs, down, up, board, round, runs, status, saved>>

\* Ctrl-C, or the port goes away, in the middle of a scan.
Interrupt ==
    /\ host \in {"tag", "body"} /\ runs < MaxRuns
    /\ host' = "stopped"
    /\ UNCHANGED <<jobs, down, up, board, round, runs, status, saved>>

Reads == PingRead \/ ReadTag \/ ReadBody \/ ShortBody
Moves == BeginRound \/ Resume \/ Finish

Board == (Rx \/ Tick \/ Tx) /\ UNCHANGED program

Next == Board \/ Run \/ Reads \/ Moves \/ Poke \/ RoundTimeout \/ Interrupt

\* The clocks of the board and of the host run, and the host reads what came.
Fairness ==
    /\ WF_vars(Rx /\ UNCHANGED program)
    /\ WF_vars(Tick /\ UNCHANGED program)
    /\ WF_vars(Tx /\ UNCHANGED program)
    /\ WF_vars(Reads) /\ WF_vars(Moves) /\ SF_vars(RoundTimeout)

Spec == Init /\ [][Next]_vars /\ Fairness
-------------------------------------------------------------------------------
\* scripts/fpga_host.py:6: "a hardware bug can waste work or miss a candidate; it
\* cannot make an invalid block look valid".  Whatever is left on the board by
\* an earlier round or an earlier run, every file holds a block whose own header
\* meets the target, and no header gives two.
SavedBlocksAreValid ==
    /\ \A b \in saved : b.nonce \in jobs[b.job].valid
    /\ \A a, b \in saved : a.job = b.job => a = b

\* The first work of a run may meet the cores of an interrupted one: no job up to
\* that one is known to be swept.
Spoiled == IF runs <= 1 THEN -1 ELSE Job - round + 1

\* miner_top.v:31: with a stride of NUM_CORES and a start at its own index each,
\* the cores "together cover every nonce exactly once": no nonce is tried twice
\* before the space is covered, and all are covered when a round times out.  An
\* interrupted run, whose cores scan on, spoils one round of the next at most.
EveryNonceOnce ==
    /\ work > Spoiled /\ ticks <= NonceCount \div Cores => tests = Cardinality(tested)
    /\ Job > Spoiled /\ status.how = "timeout" => tested = Nonce

\* A scan ends, whatever the board sends: neither the answers to keep-alive pings
\* nor a broken report hold the host in it for ever.
ScanEnds == (host \in {"tag", "body"}) ~> (host \notin {"tag", "body"})
===============================================================================
