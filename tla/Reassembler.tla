----------------------------- MODULE Reassembler -----------------------------
(***************************************************************************)
(* ctp/radio.py: a block cut into fragments; the fragments collected per   *)
(* block id, the completed set joined and handed to the proof-of-work      *)
(* check.                                                                  *)
(*                                                                         *)
(* A payload is the piece of a block it was cut from and where its bytes   *)
(* were damaged on the air, if they were: the first piece holds the        *)
(* header, and bytes past it.  A raw block is the function from fragment   *)
(* index to payload that b"".join concatenates.  The id of a transmission is the    *)
(* block it announces: ids are four bytes of the block's hash, and two     *)
(* blocks that share them are left out.                                    *)
(***************************************************************************)
EXTENDS Naturals, FiniteSets

CONSTANTS
    Block,      \* the blocks on the air
    FragCount,  \* how many fragments fragment() cuts each block into
    MaxDamage   \* bound: fragments that reach the receiver damaged

ASSUME FragmentAssumption ==
    FragCount \in [Block -> Nat \ {0}] /\ MaxDamage \in Nat

VARIABLES
    partial,    \* id -> slot of the fragments heard so far
    seen        \* the ids already delivered in this session

Piece(b, i) == [block |-> b, part |-> i, damage |-> "none"]

\* Mutant: the second slice starts where the first one did.
FragmentOverlapping(b, i) ==
    [id |-> b, index |-> i, count |-> FragCount[b],
     payload |-> Piece(b, i - (IF i = 0 THEN 0 ELSE 1))]

\* fragment(): every piece carries the id, its index and the count.
Fragment(b, i) ==
    [id |-> b, index |-> i, count |-> FragCount[b], payload |-> Piece(b, i)]

\* A raw block that is block b exactly as it was cut.
Whole(b, raw) ==
    /\ DOMAIN raw = 0 .. FragCount[b] - 1
    /\ \A i \in DOMAIN raw : raw[i] = Piece(b, i)

\* A fragment with one field damaged: payload bytes, index or count.
Damage(p) ==
    {[p EXCEPT !.payload.damage = d] :
        d \in {"past the header"} \cup {h \in {"header"} : p.payload.part = 0}}
    \cup {[p EXCEPT !.index = i] : i \in (0 .. p.count) \ {p.index}}
    \cup {[p EXCEPT !.count = c] : c \in (0 .. p.count + 1) \ {p.count}}

\* parse_fragment(): no fragments claimed, or an index past the claim, is noise.
Parses(p) == p.count # 0 /\ p.index < p.count

\* The slot a fragment goes to.  A different count restarts the id.
SlotOf(p) ==
    IF p.id \in DOMAIN partial /\ partial[p.id].count = p.count
      THEN partial[p.id]
      ELSE [count |-> p.count, parts |-> << >>]

\* slot["parts"][index] = payload: a repeated index replaces what was there.
PartsWith(p) ==
    LET parts == SlotOf(p).parts
    IN  [i \in DOMAIN parts \cup {p.index} |->
            IF i = p.index THEN p.payload ELSE parts[i]]

Completes(p) == Cardinality(DOMAIN PartsWith(p)) = p.count

\* pow_valid() hashes the first 80 bytes only, which lie in the first fragment.
PowValid(raw) == raw[0].part = 0 /\ raw[0].damage # "header"

\* block_hash(raw[:80]), once the header is known to be valid.
HashOf(raw) == raw[0].block

Forget(id) == [b \in DOMAIN partial \ {id} |-> partial[b]]

Keep(p) ==
    [b \in DOMAIN partial \cup {p.id} |->
        IF b = p.id THEN [count |-> p.count, parts |-> PartsWith(p)] ELSE partial[b]]

InitReassembler == partial = << >> /\ seen = {}

-------------------------------------------------------------------------------
\* The four ways feed() returns.
FeedIgnored(p) ==
    /\ ~Parses(p) \/ p.id \in seen
    /\ UNCHANGED <<partial, seen>>

FeedStored(p) ==
    /\ Parses(p) /\ p.id \notin seen
    /\ ~Completes(p)
    /\ partial' = Keep(p)
    /\ UNCHANGED seen

\* Mutant: the id is remembered before the proof of work is checked.
FeedRejectedAndSeen(p) ==
    /\ Parses(p) /\ p.id \notin seen
    /\ Completes(p) /\ ~PowValid(PartsWith(p))
    /\ partial' = Forget(p.id)
    /\ seen' = seen \cup {p.id}

FeedRejected(p) ==
    /\ Parses(p) /\ p.id \notin seen
    /\ Completes(p) /\ ~PowValid(PartsWith(p))
    /\ partial' = Forget(p.id)
    /\ UNCHANGED seen

FeedDelivered(p) ==
    /\ Parses(p) /\ p.id \notin seen
    /\ Completes(p) /\ PowValid(PartsWith(p))
    /\ partial' = Forget(p.id)
    /\ seen' = seen \cup {p.id}
===============================================================================
