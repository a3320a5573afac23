------------------------------ MODULE RadioRelay ------------------------------
(***************************************************************************)
(* scripts/radio_relay.py end to end: a sender that repeats every fragment *)
(* of its blocks for ever with no back-channel, an air that loses and      *)
(* damages fragments, and a receiver that appends each accepted block to a *)
(* file and may be stopped and started again.                              *)
(***************************************************************************)
EXTENDS Reassembler, Sequences

CONSTANTS
    Order,          \* the blocks in the order of the sender's file
    MaxRestarts     \* bound: times the receiver is stopped and started

ASSUME OrderAssumption == Order \in Seq(Block) /\ Order # << >>

VARIABLES
    blockAt,        \* the sender: position in Order of the block on the air
    index,          \* the sender: next fragment of that block
    out,            \* the receiver's output file, one raw block per line
    known,          \* the hashes the receiver knows to be in the file
    damages, restarts

radioVars == <<partial, seen, blockAt, index, out, known, damages, restarts>>

RadioInit ==
    /\ InitReassembler
    /\ blockAt = 1 /\ index = 0
    /\ out = << >> /\ known = {}
    /\ damages = 0 /\ restarts = 0

OnTheAir == Fragment(Order[blockAt], index)

\* The send loop moves on whatever the module replied, and starts over at the end.
SendOn ==
    IF index + 1 < FragCount[Order[blockAt]]
      THEN index' = index + 1 /\ UNCHANGED blockAt
      ELSE index' = 0 /\ blockAt' = (blockAt % Len(Order)) + 1

\* The output file after one more line.
Appended(raw) == Append(out, raw)

\* recv(): feed the packet; a delivered block is appended unless it is known.
Recv(p) ==
    \/ /\ FeedIgnored(p) \/ FeedStored(p) \/ FeedRejected(p)
       /\ UNCHANGED <<out, known>>
    \/ /\ FeedDelivered(p)
       /\ HashOf(PartsWith(p)) \in known
       /\ UNCHANGED <<out, known>>
    \/ /\ FeedDelivered(p)
       /\ HashOf(PartsWith(p)) \notin known
       /\ out' = Appended(PartsWith(p))
       /\ known' = known \cup {HashOf(PartsWith(p))}

Hears ==
    /\ SendOn
    /\ Recv(OnTheAir)
    /\ UNCHANGED <<damages, restarts>>

Misses ==
    /\ SendOn
    /\ UNCHANGED <<partial, seen, out, known, damages, restarts>>

HearsDamaged ==
    /\ damages < MaxDamage
    /\ damages' = damages + 1
    /\ SendOn
    /\ \E p \in Damage(OnTheAir) : Recv(p)
    /\ UNCHANGED restarts

\* Mutant: the file is not read back.
RestartForgetful ==
    /\ restarts < MaxRestarts
    /\ restarts' = restarts + 1
    /\ partial' = << >> /\ seen' = {} /\ known' = {}
    /\ UNCHANGED <<blockAt, index, out, damages>>

\* A new Reassembler; the known hashes are read back from the file.
Restart ==
    /\ restarts < MaxRestarts
    /\ restarts' = restarts + 1
    /\ partial' = << >> /\ seen' = {}
    /\ known' = {HashOf(out[k]) : k \in DOMAIN out}
    /\ UNCHANGED <<blockAt, index, out, damages>>

RadioNext == Hears \/ Misses \/ HearsDamaged \/ Restart

\* The fragment on the air is heard as it was sent.
HearsFragment(k, i) == blockAt = k /\ index = i /\ Hears

\* The sender never stops, and no fragment is lost every time it is sent.
Fairness ==
    /\ WF_radioVars(Hears \/ Misses)
    /\ \A k \in DOMAIN Order : \A i \in 0 .. FragCount[Order[k]] - 1 :
          SF_radioVars(HearsFragment(k, i))

RadioSpec == RadioInit /\ [][RadioNext]_radioVars /\ Fairness
-------------------------------------------------------------------------------
\* However often the sender repeats and the receiver restarts, no block is
\* written to the file twice: the reassembler's own memory does not survive a
\* restart and the file's does.
WrittenOnce ==
    \A j, k \in DOMAIN out : HashOf(out[j]) = HashOf(out[k]) => j = k

\* Without damage the file holds each block exactly as it was cut.
CleanAirCleanFile ==
    damages = 0 =>
        \A k \in DOMAIN out : Whole(HashOf(out[k]), out[k])

\* Every block is in the file in the end: neither losses nor a rejected
\* reassembly nor a restart leaves the receiver deaf to a later repetition.
EveryBlockArrives ==
    \A k \in DOMAIN Order :
        <>(\E j \in DOMAIN out : HashOf(out[j]) = Order[k])
===============================================================================
