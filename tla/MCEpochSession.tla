---------------------------- MODULE MCEpochSession ----------------------------
EXTENDS EpochSession

\* Photographs by the second: a series just long enough, and one that is not.
MCSeries == {{[name |-> 1, at |-> 1], [name |-> 2, at |-> 4]}, {[name |-> 3, at |-> 2]}}

\* Branches of four blocks lose to each other where nothing else varies much; a
\* session of photographs may be hashed again after they were replaced; a second
\* attempt may find fewer witnesses, or bind fewer records, than the first.
MCBounds ==
    [s \in Scripts |->
        [ntp |-> IF s \in {"sandwich", "galileo", "naxytra"} THEN 3 ELSE IF s \in Optical THEN 1 ELSE 2,
         roughtime |-> 1, records |-> 2,
         blocks |-> IF s \in {"sandwich", "satroot", "pm"} THEN 4 ELSE 3,
         sessions |-> IF s \in {"g2b", "g6", "naxytra"} THEN 1 ELSE 2,
         runs |-> 2, shoots |-> IF s = "g2b" THEN 2 ELSE 1]]
===============================================================================
