------------------------------ MODULE TimeClaims ------------------------------
(***************************************************************************)
(* The vocabulary of ctp/interval.py: closed integer intervals claimed by  *)
(* witnesses, how many of them cover an instant, and what a region of      *)
(* quorum support is.  Instants are integer picoseconds.                   *)
(***************************************************************************)
EXTENDS Integers, FiniteSets

CONSTANTS
    Witness,    \* the logical witnesses whose latest records enter a checkpoint
    F,          \* the Byzantine tolerance the checkpoint declares
    Instant     \* the instants a witness may claim as an end point

\* consensus() raises on f < 0 and on n < 3*f + 1, so no checkpoint is built
\* outside these assumptions.
ASSUME WitnessAssumption == IsFiniteSet(Witness)
ASSUME ToleranceAssumption == F \in Nat /\ Cardinality(Witness) >= 3*F + 1
ASSUME InstantAssumption == Instant \subseteq Int

\* Interval.__post_init__ raises when lower > upper.
Interval == {i \in [lower : Instant, upper : Instant] : i.lower <= i.upper}

Contains(i, t) == i.lower <= t /\ t <= i.upper

Supporters(iv, t) == {w \in Witness : Contains(iv[w], t)}

Support(iv, t) == Cardinality(Supporters(iv, t))

\* Two thresholds off by F and by one, for the mutants.
QuorumOfAll == 3*F + 1
QuorumOneShort == 2*F

QuorumSize == 2*F + 1

Accepted(iv, t) == Support(iv, t) >= QuorumSize

\* The maximal runs of accepted instants.  A run starts where some claim
\* starts and ends where some claim ends.
Regions(iv) ==
    {r \in [lower : {iv[w].lower : w \in Witness},
            upper : {iv[w].upper : w \in Witness}] :
        /\ r.lower <= r.upper
        /\ \A t \in r.lower .. r.upper : Accepted(iv, t)
        /\ ~Accepted(iv, r.lower - 1)
        /\ ~Accepted(iv, r.upper + 1)}

Verdict(regions) ==
    IF Cardinality(regions) = 1
      THEN [kind |-> "CONSENSUS", regions |-> regions]
      ELSE [kind |-> "TIME_CONFLICT", regions |-> regions]
===============================================================================
