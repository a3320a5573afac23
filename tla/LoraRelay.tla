------------------------------ MODULE LoraRelay ------------------------------
(***************************************************************************)
(* scripts/lora_relay.py: blocks sent a few times over through a LoRa      *)
(* module, and sessions of a receiver that writes each block it accepts to *)
(* a file of its own, in a directory where it also writes whether its host *)
(* could reach anything when the session began and when it ended.  A       *)
(* session ends by Ctrl-C or its deadline, or by an exception or a kill,   *)
(* after which it writes nothing.                                          *)
(***************************************************************************)
EXTENDS Reassembler, Sequences

CONSTANTS
    Repeat,         \* --repeat: passes of one sending
    MaxSends,       \* bound: sendings
    MaxSessions,    \* bound: sessions of the receiver
    MaxChanges      \* bound: changes of the host's network

ASSUME LoraAssumption ==
    Repeat \in Nat \ {0} /\ {MaxSends, MaxSessions, MaxChanges} \subseteq Nat

VARIABLES
    sending,    \* the block on the air, the next fragment and the pass, or << >>
    sends,
    net,        \* whether the host has a route and a resolver
    changes,
    session, phase,     \* the receiver's sessions, by number, and where this one is
    memory,     \* the session's first snapshot, and what the current one has reached
    quiet,      \* whether the network stayed as it was since the session began
    dir,        \* the directory: network-state-start.json, -end.json, block files
    printed,    \* the verdict of the last session that printed one
    damaged     \* the session of every damaged fragment

sender == <<sending, sends>>
host == <<net, changes>>
receiver == <<session, phase, memory, quiet, dir, printed>>
vars == <<partial, seen, sender, host, receiver, damaged>>

NoState == [by |-> 0, isolated |-> FALSE, there |-> {}]

Init ==
    /\ InitReassembler
    /\ sending = << >> /\ sends = 0
    /\ net \in [route : BOOLEAN, dns : BOOLEAN] /\ changes = 0
    /\ session = 0 /\ phase = "off" /\ quiet = TRUE
    /\ memory = [start |-> FALSE, reached |-> FALSE]
    /\ dir = [start |-> NoState, end |-> NoState, blocks |-> << >>]
    /\ printed = [by |-> 0, verdict |-> "none", quiet |-> FALSE, net |-> net]
    /\ damaged = {}

-------------------------------------------------------------------------------
\* The sender.  A record names its block by digest; the block is in the first of
\* three files that exists, and is not sent unless it has that digest.
Loaded(b, files) ==
    \E i \in DOMAIN files : files[i] = {b} /\ \A j \in 1..(i - 1) : files[j] = {}

Send(b) ==
    /\ sending = << >> /\ sends < MaxSends
    /\ \E files \in [1..3 -> {{}} \cup {{x} : x \in Block}] : Loaded(b, files)
    /\ sending' = <<[block |-> b, part |-> 0, pass |-> 1]>> /\ sends' = sends + 1
    /\ UNCHANGED <<partial, seen, host, receiver, damaged>>

Sent == Fragment(Head(sending).block, Head(sending).part)

\* The next fragment, or the next pass, whatever the module replies.
Advance ==
    LET s == Head(sending)
    IN  /\ sending # << >> /\ UNCHANGED sends
        /\ sending' = IF s.part + 1 < FragCount[s.block]
                        THEN <<[s EXCEPT !.part = @ + 1]>>
                        ELSE IF s.pass < Repeat
                          THEN <<[block |-> s.block, part |-> 0, pass |-> s.pass + 1]>>
                          ELSE << >>

-------------------------------------------------------------------------------
\* The host is connected, disconnected, or half of each.
Reconnect ==
    /\ changes < MaxChanges /\ changes' = changes + 1
    /\ net' \in [route : BOOLEAN, dns : BOOLEAN] \ {net}
    /\ quiet' = FALSE
    /\ UNCHANGED <<partial, seen, sender, session, phase, memory, dir, printed, damaged>>

\* Mutant: one of the two is enough.
EitherFails(reached, resolved) == ~reached \/ ~resolved

\* appears_isolated().
Isolated(reached, resolved) == ~reached /\ ~resolved

State(reached) ==
    [by |-> session, isolated |-> Isolated(reached, net.dns), there |-> DOMAIN dir.blocks]

-------------------------------------------------------------------------------
\* A session: _network_snapshot() tries its addresses, then the resolver.
Begin ==
    /\ phase = "off" /\ session < MaxSessions
    /\ session' = session + 1 /\ phase' = "starting" /\ quiet' = TRUE
    /\ memory' = [start |-> FALSE, reached |-> net.route]
    /\ UNCHANGED <<partial, seen, sender, host, dir, printed, damaged>>

WriteStart ==
    /\ phase = "starting" /\ phase' = "opening"
    /\ memory' = [memory EXCEPT !.start = State(memory.reached).isolated]
    /\ dir' = [dir EXCEPT !.start = State(memory.reached)]
    /\ UNCHANGED <<partial, seen, sender, host, session, quiet, printed, damaged>>

\* Mutant: fragments of the session before are kept.
ListenOn ==
    /\ phase = "opening" /\ phase' = "listening"
    /\ UNCHANGED <<partial, seen, sender, host, session, memory, quiet, dir, printed, damaged>>

\* The port is opened; the Reassembler is a new one.
Listen ==
    /\ phase = "opening" /\ phase' = "listening"
    /\ partial' = << >> /\ seen' = {}
    /\ UNCHANGED <<sender, host, session, memory, quiet, dir, printed, damaged>>

\* A block is written to the file its hash names, over one that is there.
Receive(p) ==
    \/ (FeedIgnored(p) \/ FeedStored(p) \/ FeedRejected(p)) /\ UNCHANGED dir
    \/ /\ FeedDelivered(p)
       /\ LET raw == PartsWith(p)
              file == [raw |-> raw, by |-> session]
          IN  dir' = [dir EXCEPT !.blocks =
                        [b \in DOMAIN @ \cup {HashOf(raw)} |->
                            IF b = HashOf(raw) THEN file ELSE @[b]]]

Hear(p) ==
    /\ phase = "listening" /\ Advance /\ Receive(p)
    /\ UNCHANGED <<host, session, phase, memory, quiet, printed>>

Heard == Hear(Sent) /\ UNCHANGED damaged

HeardDamaged ==
    /\ Len(sending) = 1 /\ Cardinality(damaged) < MaxDamage
    /\ \E p \in Damage(Sent) : Hear(p)
    /\ damaged' = damaged \cup {session}

\* Lost on the air, unheard, or a line that is no +RCV= with five fields of hex.
Lost == Advance /\ UNCHANGED <<partial, seen, host, receiver, damaged>>

\* Mutant: the state at the end is written while the session goes on.
EndWhileListening ==
    /\ phase = "listening"
    /\ dir' = [dir EXCEPT !.end = State(net.route)]
    /\ UNCHANGED <<partial, seen, sender, host, session, phase, memory, quiet, printed, damaged>>

\* Ctrl-C or the deadline: the port is closed and the addresses are tried again.
Stop ==
    /\ phase = "listening" /\ phase' = "ending"
    /\ memory' = [memory EXCEPT !.reached = net.route]
    /\ UNCHANGED <<partial, seen, sender, host, session, quiet, dir, printed, damaged>>

NetworkVerdict(start, end) ==
    CASE start /\ end -> "NO ROUTE OUT"
      [] start # end -> "ISOLATION CHANGED"
      [] OTHER -> "REACHABLE"

WriteEnd ==
    LET end == State(memory.reached) IN
    /\ phase = "ending" /\ phase' = "off"
    /\ dir' = [dir EXCEPT !.end = end]
    /\ printed' = [by |-> session, verdict |-> NetworkVerdict(memory.start, end.isolated),
                   quiet |-> quiet, net |-> net]
    /\ UNCHANGED <<partial, seen, sender, host, session, memory, quiet, damaged>>

\* No port, an error of the serial line, a kill.
Fail ==
    /\ phase # "off" /\ phase' = "off"
    /\ UNCHANGED <<partial, seen, sender, host, session, memory, quiet, dir, printed, damaged>>

Next ==
    \/ \E b \in Block : Send(b)
    \/ Reconnect \/ Begin \/ WriteStart \/ Listen \/ Heard \/ HeardDamaged \/ Lost
    \/ Stop \/ WriteEnd \/ Fail

Spec == Init /\ [][Next]_vars

-------------------------------------------------------------------------------
\* The work of a header covers the header only (radio.py:119), so a block whose
\* transaction was damaged on the air is accepted, and may replace a good copy an
\* earlier session wrote.  It takes damage heard by the very session that wrote the
\* file: nothing a session heard spoils the blocks of the next.
DamageStaysInItsSession ==
    \A b \in DOMAIN dir.blocks :
        LET file == dir.blocks[b]
        IN  /\ HashOf(file.raw) = b
            /\ file.by \notin damaged => Whole(b, file.raw)

\* lora_relay.py:390: "Anything that arrived during this session did not arrive over
\* the network".  What a session prints is true of a host whose network did not
\* change since the session began: isolated, if it had neither a route nor a
\* resolver; reachable otherwise; and never changed.
QuietVerdictIsTrue ==
    printed.quiet =>
        printed.verdict = IF ~printed.net.route /\ ~printed.net.dns
                            THEN "NO ROUTE OUT" ELSE "REACHABLE"

\* lora_relay.py:273: "at the start and end of every session, into the same directory
\* the blocks land in".  A session that fails leaves the end of an earlier one, never
\* a later one; and where the two files are of one session, that session's blocks
\* were all written between them.
StatesBoundTheBlocks ==
    /\ dir.end.by <= dir.start.by
    /\ dir.end.by = dir.start.by =>
          \A b \in DOMAIN dir.blocks :
              dir.blocks[b].by = dir.start.by => b \in dir.end.there
===============================================================================
