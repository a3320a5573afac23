------------------------------ MODULE MinerArray ------------------------------
(***************************************************************************)
(* The mining board: fpga/rtl/miner_top.v and its copies of                *)
(* sha256d_miner.v behind one serial port.  A symbol stands for a run of   *)
(* bytes: the 48 bytes of work are one symbol, the number of the job they  *)
(* describe; a report is its tag, its nonce and its digest.  One Tick is   *)
(* the time a core takes for one nonce, the same for every core.           *)
(***************************************************************************)
EXTENDS Integers, Sequences, FiniteSets

CONSTANTS
    NonceCount,     \* bound: the size of the nonce space, 2^32 on the board
    Cores,          \* NUM_CORES
    MaxTicks        \* bound: nonces a core tries for one piece of work

\* A round lasts a full sweep and a twentieth longer (fpga_host.py:271).
ASSUME BoardAssumption ==
    /\ NonceCount \in Nat \ {0} /\ Cores \in 1 .. NonceCount
    /\ MaxTicks \in Nat /\ MaxTicks * Cores >= NonceCount

Nonce == 0 .. NonceCount - 1
Core  == 0 .. Cores - 1

\* Symbols from the host (a positive one is the work of that job) and to it (a
\* natural number is a nonce).
P == -1     S == -2     W == -3
K == -1     Tag == -2   Digest == -3

VARIABLES
    jobs,       \* the headers the host made: the nonces that end in zero words
                \* (hits) and those that meet the exact target (valid)
    down, up,   \* symbols on the way to the board and read by the host's port
    loading,    \* between 'W' and the last byte of the work
    draining,   \* a report begun before that 'W' is still being sent
    work,       \* the job in midstate and tail, 0 before the first
    core,       \* each scanner: busy, its nonce, the job it hashes, its start
    report,     \* the symbols of the report still to be sent
    ping,       \* ping_pending
    ticks,      \* nonces tried since the last work was loaded
    tested,     \* history: nonces tried for that work
    tests       \* history: how many trials that took

board == <<loading, draining, work, core, report, ping, ticks, tested, tests>>

Idle == [busy |-> FALSE, nonce |-> 0, under |-> 0, since |-> 0]

InitBoard ==
    /\ jobs = << >> /\ down = << >> /\ up = << >>
    /\ loading = FALSE /\ draining = FALSE /\ work = 0
    /\ core = [i \in Core |-> Idle]
    /\ report = << >> /\ ping = FALSE
    /\ ticks = 0 /\ tested = {} /\ tests = 0

Busy == {i \in Core : core[i].busy}

-------------------------------------------------------------------------------
\* Mutant: every core is started at the same nonce.
StartAtZero(c, i, j) ==
    IF c.busy THEN c ELSE [busy |-> TRUE, nonce |-> 0, under |-> j, since |-> j]

\* start && !busy: a core still scanning does not hear the start.
Started(c, i, j) ==
    IF c.busy THEN c ELSE [busy |-> TRUE, nonce |-> i, under |-> j, since |-> j]

\* The last byte of the work: the registers change and idle cores start.  The
\* 48 bytes take longer than the 37 of a report that was under way.
Load ==
    /\ loading /\ ~draining
    /\ down # << >>
    /\ work' = Head(down)
    /\ core' = [i \in Core |-> Started(core[i], i, Head(down))]
    /\ loading' = FALSE
    /\ ticks' = 0 /\ tested' = {} /\ tests' = 0
    /\ down' = Tail(down)
    /\ UNCHANGED <<jobs, up, draining, report, ping>>

RxW ==
    /\ ~loading /\ down # << >> /\ Head(down) = W
    /\ loading' = TRUE /\ draining' = (report # << >>)
    /\ down' = Tail(down)
    /\ UNCHANGED <<jobs, up, work, core, report, ping, ticks, tested, tests>>

\* abort resets the scanners and nothing else.
RxS ==
    /\ ~loading /\ down # << >> /\ Head(down) = S
    /\ core' = [i \in Core |-> Idle]
    /\ down' = Tail(down)
    /\ UNCHANGED <<jobs, up, loading, draining, work, report, ping, ticks, tested, tests>>

RxP ==
    /\ ~loading /\ down # << >> /\ Head(down) = P
    /\ ping' = TRUE
    /\ down' = Tail(down)
    /\ UNCHANGED <<jobs, up, loading, draining, work, core, report, ticks, tested, tests>>

-------------------------------------------------------------------------------
Hits == {i \in Busy : core[i].nonce \in jobs[core[i].under].hits}

\* Of cores that finish in the same cycle the lowest wins; cores started by
\* different work are out of step, and either may be first.
Winners == {i \in Hits : \A j \in Hits : core[i].since = core[j].since => i <= j}

\* A hit stops its own core; a miss steps by NUM_CORES and takes the work
\* registers as they are now.
Stepped(i) ==
    IF i \in Hits THEN Idle
    ELSE [core[i] EXCEPT !.nonce = (@ + Cores) % NonceCount, !.under = work]

\* Every busy core finishes a nonce.  A hit that finds the report register
\* occupied is dropped.
Tick ==
    /\ Busy # {} /\ ticks < MaxTicks
    /\ core' = [i \in Core |-> IF i \in Busy THEN Stepped(i) ELSE core[i]]
    /\ IF Hits = {} \/ report # << >>
         THEN UNCHANGED report
         ELSE \E i \in Winners : report' = <<Tag, core[i].nonce, Digest>>
    /\ LET now == {i \in Busy : core[i].under = work}
       IN  /\ tested' = tested \cup {core[i].nonce : i \in now}
           /\ tests' = tests + Cardinality(now)
    /\ ticks' = ticks + 1
    /\ UNCHANGED <<jobs, down, up, loading, draining, work, ping>>

\* The report is shifted out; the answer to a ping waits for its end.
TxReport ==
    /\ report # << >>
    /\ up' = Append(up, Head(report))
    /\ report' = Tail(report)
    /\ draining' = (draining /\ report' # << >>)
    /\ UNCHANGED <<jobs, down, loading, work, core, ping, ticks, tested, tests>>

TxK ==
    /\ ping /\ report = << >>
    /\ up' = Append(up, K)
    /\ ping' = FALSE
    /\ UNCHANGED <<jobs, down, loading, draining, work, core, report, ticks, tested, tests>>

Rx == Load \/ RxW \/ RxS \/ RxP
Tx == TxReport \/ TxK
===============================================================================
