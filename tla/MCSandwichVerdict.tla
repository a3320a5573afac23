-------------------------- MODULE MCSandwichVerdict --------------------------
(* A few blobs of every kind for SandwichVerdict. *)
EXTENDS SandwichVerdict

Blob(t, n, b, s, m) == [typ |-> t, id |-> n, bound |-> b, sound |-> s, made |-> m]
Seen(c, s) == [cites |-> c, sound |-> s]

first == Blob("NTP", 1, TRUE, TRUE, 1)
second == Blob("NTP", 2, TRUE, TRUE, 1)
lifted == Blob("NTP", 3, FALSE, TRUE, 0)       \* of an earlier session
unechoed == Blob("NTP", 4, TRUE, FALSE, 1)     \* with another nonce
late == Blob("NTP", 5, TRUE, TRUE, 2)          \* asked for after C
other == Blob("OTHER", 6, TRUE, TRUE, 1)
record == Blob("EXTERNAL", 8, TRUE, TRUE, 1)
recordOld == Blob("EXTERNAL", 9, TRUE, TRUE, 2)
recordLate == Blob("EXTERNAL", 10, TRUE, TRUE, 2)

MCBlobs == {first, second, lifted, unechoed, late, other, record, recordOld, recordLate}
MCObservations ==
    {Seen(<<first>>, TRUE), Seen(<<first>>, FALSE), Seen(<<second>>, TRUE),
     Seen(<<lifted>>, TRUE), Seen(<<unechoed>>, TRUE), Seen(<<other>>, TRUE),
     Seen(<<first, second>>, TRUE), Seen(<<other, first>>, TRUE)}
MCRecords ==
    {[id |-> 8, tagged |-> TRUE, made |-> 1],
     [id |-> 9, tagged |-> FALSE, made |-> 0],
     [id |-> 10, tagged |-> TRUE, made |-> 2]}
===============================================================================
