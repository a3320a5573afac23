----------------------------- MODULE QuorumSweep -----------------------------
(***************************************************************************)
(* quorum_regions() and consensus() of ctp/interval.py as the state        *)
(* machine the loop is: the event points still to visit, the running       *)
(* support, the region that is open, and the regions already emitted.      *)
(* One step is one iteration of the loop.                                  *)
(***************************************************************************)
EXTENDS TimeClaims, Sequences

CONSTANTS
    None,       \* Python's None: no region is open
    Undecided   \* the verdict before consensus() returns

ASSUME NoneAssumption == None \notin Int

VARIABLES
    iv,         \* the intervals passed in, one per witness
    pending,    \* the event points the loop has not visited
    support,    \* +1 for every claim entered, -1 for every claim left
    openStart,  \* open_start
    out,        \* the regions emitted so far, in order
    verdict     \* what consensus() returns

vars == <<iv, pending, support, openStart, out, verdict>>

\* Mutant: an exit filed at the upper end and not one past it.
EventsAtEnds(claims) ==
    {claims[w].lower : w \in Witness} \cup {claims[w].upper : w \in Witness}

\* The keys of the events dictionary.
EventPoints(claims) ==
    {claims[w].lower : w \in Witness} \cup {claims[w].upper + 1 : w \in Witness}

\* Mutant: a claim stops counting at its own last instant.
LeavingAtUpper(p) == {w \in Witness : iv[w].upper = p}

Entering(p) == {w \in Witness : iv[w].lower = p}
Leaving(p)  == {w \in Witness : iv[w].upper + 1 = p}

\* events[p]: entries and exits at one point are merged before the loop.
Delta(p) == Cardinality(Entering(p)) - Cardinality(Leaving(p))

Init ==
    /\ iv \in [Witness -> Interval]
    /\ pending = EventPoints(iv)
    /\ support = 0
    /\ openStart = None
    /\ out = << >>
    /\ verdict = Undecided

\* One iteration.  A region opens when support reaches the quorum and closes
\* at p - 1 when it falls below it; whatever is still open at the last point
\* closes there too.
Visit(p) ==
    LET reached == support + Delta(p)
        opened  == IF reached >= QuorumSize /\ openStart = None THEN p ELSE openStart
        closes  == opened # None /\ (reached < QuorumSize \/ pending = {p})
    IN  /\ support' = reached
        /\ pending' = pending \ {p}
        /\ \/ /\ closes
              /\ out' = Append(out, [lower |-> opened, upper |-> p - 1])
              /\ openStart' = None
           \/ /\ ~closes
              /\ openStart' = opened
              /\ UNCHANGED out
        /\ UNCHANGED <<iv, verdict>>

\* Mutant: the points come in the order of the dictionary.
SweepUnsorted == \E p \in pending : Visit(p)

\* Points are visited in increasing order (sorted(events)).
Sweep == \E p \in pending : (\A r \in pending : p <= r) /\ Visit(p)

Emitted == {out[k] : k \in DOMAIN out}

\* Mutant: any region at all is taken for a consensus.
ConcludeAnyRegion ==
    /\ pending = {} /\ verdict = Undecided
    /\ verdict' = [kind |-> IF out = << >> THEN "TIME_CONFLICT" ELSE "CONSENSUS",
                   regions |-> Emitted]
    /\ UNCHANGED <<iv, pending, support, openStart, out>>

\* consensus(): exactly one region is a consensus.
Conclude ==
    /\ pending = {}
    /\ verdict = Undecided
    /\ verdict' = IF Len(out) # 1
                    THEN [kind |-> "TIME_CONFLICT", regions |-> Emitted]
                    ELSE [kind |-> "CONSENSUS", regions |-> Emitted]
    /\ UNCHANGED <<iv, pending, support, openStart, out>>

Next == Sweep \/ Conclude

Spec == Init /\ [][Next]_vars

-------------------------------------------------------------------------------
\* Every variable has its type; in particular every emitted region is a real
\* interval, so Interval(open_start, p - 1) never raises.
TypeOK ==
    /\ iv \in [Witness -> Interval]
    /\ pending \subseteq EventPoints(iv)
    /\ support \in Int
    /\ openStart \in Int \cup {None}
    /\ out \in Seq({r \in [lower : Int, upper : Int] : r.lower <= r.upper})

\* The part of the line the sweep has passed.
Passed(t) == \A p \in pending : t < p

InOutput(t) ==
    \/ \E k \in DOMAIN out : Contains(out[k], t)
    \/ openStart # None /\ openStart <= t

\* At every point of the sweep the regions emitted and the one still open
\* cover, among the instants passed, exactly those a quorum supports: merging
\* an exit and an entry at one event point neither splits nor bridges a region.
SweepIsExact ==
    \A t \in Instant : Passed(t) => (InOutput(t) <=> Accepted(iv, t))

\* Regions come out in increasing order and never touch, so the number of them
\* that consensus() tests is the number of contiguous components.
RegionsSeparated ==
    /\ \A j, k \in DOMAIN out : j < k => out[j].upper + 1 < out[k].lower
    /\ openStart # None => \A k \in DOMAIN out : out[k].upper + 1 < openStart

\* An instant that all but F witnesses cover, as the true time is when at most
\* F witnesses are faulty, is in a region; a consensus therefore contains it.
TrueTimeAccepted ==
    verdict # Undecided =>
        \A t \in Instant :
            Cardinality(Witness \ Supporters(iv, t)) <= F =>
                \E r \in verdict.regions : Contains(r, t)

\* Whichever F witnesses are faulty, every instant of every region is claimed
\* by more than F correct ones: faulty witnesses alone accept nothing.
RegionsVouched ==
    \A bad \in SUBSET Witness : Cardinality(bad) <= F =>
        \A k \in DOMAIN out : \A t \in out[k].lower .. out[k].upper :
            Cardinality(Supporters(iv, t) \ bad) >= F + 1

\* The loop computes what the abstract specification promises.
Promise == INSTANCE QuorumTime WITH answer <- verdict
ImplementsQuorumTime == Promise!Spec
===============================================================================
