------------------------------ MODULE RollingCode ------------------------------
(***************************************************************************)
(* What scripts/run_g6.py decides about a series of photographs of which   *)
(* some show a code that changes with every slot of the clock.  A frame is *)
(* [name, at]: the camera's second.  A frame shows the code when the       *)
(* operator says so; what the screen says is left to whoever looks.        *)
(***************************************************************************)
EXTENDS Integers, FiniteSets

CONSTANTS
    SlotLen,        \* seconds a code is shown (10)
    MinFrames,      \* MIN_FRAMES (6)
    MinSpan,        \* MIN_SPAN_S (60)
    MinSlots        \* MIN_SLOTS (4)

ASSUME RollingAssumption ==
    SlotLen \in Nat \ {0} /\ MinFrames \in Nat /\ MinSpan \in Nat \ {0} /\ MinSlots \in Nat

Slots(frames) == {x.at \div SlotLen : x \in frames}

\* parse_code_frames(): no argument declares every frame; one that names a frame
\* that is not there, or none, ends the program.
Declarations(frames) == (SUBSET frames) \ {{}}

\* Mutant: every frame of the series counts, whatever it shows.
EveryFrame(frames, coded) == frames

\* assess(): "thresholds count only code-bearing frames".
CodeBearing(frames, coded) == coded

\* From the first slot to the last, in seconds.
Span(slots) ==
    LET apart == {j - i : i, j \in slots}
    IN  SlotLen * CHOOSE n \in apart : \A m \in apart : m <= n

\* The thresholds that a series misses.
Shortfall(frames, coded) ==
    LET counted == CodeBearing(frames, coded)
        slots == Slots(counted)
    IN  {t \in {"frames", "span", "slots"} :
            \/ t = "frames" /\ Cardinality(counted) < MinFrames
            \/ t = "span" /\ Span(slots) < MinSpan
            \/ t = "slots" /\ Cardinality(slots) < MinSlots}
================================================================================
