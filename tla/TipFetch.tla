------------------------------ MODULE TipFetch ------------------------------
(***************************************************************************)
(* The two programs that read the chain off a node, block by block and     *)
(* without asking it for a number: live/fetch_tip_context.py ("tip") pages *)
(* through the inventory until the node falls silent, counts the hashes    *)
(* and downloads the last ones; live/fetch_full_chain.py ("full") takes    *)
(* the first inventory it gets and downloads all of it.  The node goes on  *)
(* meanwhile: it hears new blocks, changes branch, and announces its tip.  *)
(***************************************************************************)
EXTENDS BlockTree, FiniteSets, SequencesExt

CONSTANTS
    TailLen,        \* blocks the median time is taken over (11)
    RetargetEvery,  \* blocks between changes of the target (2016)
    PageSizes,      \* how many hashes a node may put into one inventory
    MaxStart        \* bound: blocks there are when the program connects

ASSUME FetchAssumption ==
    /\ TailLen \in Nat \ {0} /\ RetargetEvery \in Nat \ {0}
    /\ PageSizes \subseteq Nat \ {0} /\ PageSizes # {}
    /\ MaxStart \in Nat \ {0}

VARIABLES
    known,      \* the node has had our version, and announces to us
    toNode, toHost,     \* the messages under way
    client,     \* which of the two programs runs
    phase,      \* "inv", "blocks", and then "done" or "failed"
    inv,        \* inv_hashes
    file,       \* what was written: blocks in order, and the height claimed
    moved,      \* history: the node's tip changed after the program connected
    early       \* history: it stopped asking before the node was through

node == <<chainVars, known, moved>>
script == <<client, phase, inv, file, early>>
fetchVars == <<node, toNode, toHost, script>>

Message(kind, blocks) == [kind |-> kind, blocks |-> blocks]
Genesis == 1
NoFile == [blocks |-> << >>, height |-> 0]

FetchInit ==
    /\ \E n \in 1..MaxStart :
          /\ tree = [b \in 1..n |->
                       [parent |-> b - 1, branch |-> [i \in 1..b |-> i], payload |-> 0]]
          /\ best = n
    /\ known = FALSE /\ moved = FALSE
    /\ toNode = <<Message("version", << >>)>> /\ toHost = << >>
    /\ client \in {"tip", "full"}
    /\ phase = "inv" /\ inv = << >> /\ file = NoFile /\ early = FALSE

-------------------------------------------------------------------------------
\* The node.  A new block on the tip or beside it; a higher one is announced.
Find(parent) ==
    /\ Grow(parent, 0)
    /\ \/ /\ best' # best /\ moved' = TRUE
          /\ toHost' = IF known THEN Append(toHost, Message("inv", <<best'>>)) ELSE toHost
       \/ best' = best /\ UNCHANGED <<moved, toHost>>
    /\ UNCHANGED <<known, toNode, script>>

\* What follows the block asked from; one that has left the main chain is not
\* found, and the answer starts after genesis.
Following(b) ==
    SubSeq(chain, IF b \in Range(chain) THEN Height(b) + 1 ELSE 2, Len(chain))

\* Nothing to tell is told by silence.
AnswerGetblocks(b) ==
    \E n \in PageSizes :
        LET page == SubSeq(Following(b), 1, IF n < Len(Following(b)) THEN n ELSE Len(Following(b)))
        IN  toHost' = IF page = << >> THEN toHost ELSE Append(toHost, Message("inv", page))

Answer ==
    /\ toNode # << >>
    /\ toNode' = Tail(toNode)
    /\ LET m == Head(toNode)
       IN  \/ m.kind = "version" /\ toHost' = Append(toHost, m)
           \/ m.kind = "getblocks" /\ AnswerGetblocks(m.blocks[1])
           \/ m.kind = "getdata" /\ toHost' = Append(toHost, Message("blocks", m.blocks))
    /\ known' = TRUE
    /\ UNCHANGED <<chainVars, moved, script>>

\* A transaction is announced by an inventory that names no block.
Transact ==
    /\ known /\ Message("inv", << >>) \notin Range(toHost)
    /\ toHost' = Append(toHost, Message("inv", << >>))
    /\ UNCHANGED <<node, toNode, script>>

-------------------------------------------------------------------------------
\* The programs.
Read(kind) == toHost # << >> /\ Head(toHost).kind = kind /\ toHost' = Tail(toHost)
Ask(kind, blocks) == toNode' = Append(toNode, Message(kind, blocks))

ReadVersion ==
    /\ phase = "inv" /\ Read("version")
    /\ Ask("getblocks", <<Genesis>>)
    /\ UNCHANGED <<node, script>>

\* Mutant: the next page is asked for from where the first one was.
ReadPageAgain ==
    /\ phase = "inv" /\ client = "tip" /\ Read("inv")
    /\ Head(toHost).blocks # << >>
    /\ inv' = inv \o Head(toHost).blocks
    /\ Ask("getblocks", <<Genesis>>)
    /\ UNCHANGED <<node, client, phase, file, early>>

\* tip: every inventory is a page, and the next is asked for from its last hash.
ReadPage ==
    /\ phase = "inv" /\ client = "tip" /\ Read("inv")
    /\ Head(toHost).blocks # << >>
    /\ inv' = inv \o Head(toHost).blocks
    /\ Ask("getblocks", <<Last(inv')>>)
    /\ UNCHANGED <<node, client, phase, file, early>>

TailOf(s) == SubSeq(s, IF Len(s) > TailLen THEN Len(s) - TailLen + 1 ELSE 1, Len(s))

\* tip: 20 seconds of silence, 180 in all, or an inventory that names no block
\* end the asking.
StopAsking ==
    /\ phase = "inv" /\ client = "tip" /\ inv # << >>
    /\ \/ UNCHANGED toHost
       \/ Read("inv") /\ Head(toHost).blocks = << >>
    /\ early' = (toNode # << >> \/ toHost' # << >>)
    /\ Ask("getdata", TailOf(inv))
    /\ phase' = "blocks"
    /\ UNCHANGED <<node, client, inv, file>>

\* full: the first inventory is taken for the chain; one that names no block
\* leaves nothing to ask for, and a file without a line.
ReadInventory ==
    /\ phase = "inv" /\ client = "full" /\ Read("inv")
    /\ inv' = Head(toHost).blocks
    /\ \/ inv' # << >> /\ Ask("getdata", inv') /\ phase' = "blocks"
       \/ inv' = << >> /\ phase' = "done" /\ UNCHANGED toNode
    /\ UNCHANGED <<node, client, file, early>>

\* Anything but blocks is passed over now.
Ignore ==
    /\ phase = "blocks" /\ Read("inv")
    /\ UNCHANGED <<node, toNode, script>>

Distinct(s) == Cardinality(Range(s)) = Len(s)

\* Mutant: the linkage is not looked at.
AcceptableUnlinked(s) ==
    /\ Distinct(s)
    /\ client = "full" => tree[s[1]].parent = Genesis
    /\ client = "tip" => (Len(inv) + 1) % RetargetEvery # 0

Acceptable(s) ==
    /\ Distinct(s) /\ Linked(s)
    /\ client = "full" => tree[s[1]].parent = Genesis
    /\ client = "tip" => (Len(inv) + 1) % RetargetEvery # 0

\* The blocks of the request have come: they are checked and written, or the
\* program ends without writing.
ReadBlocks ==
    /\ phase = "blocks" /\ Read("blocks")
    /\ LET blocks == Head(toHost).blocks
       IN  \/ /\ Acceptable(blocks)
              /\ file' = [blocks |-> blocks, height |-> Len(inv)]
              /\ phase' = "done"
           \/ ~Acceptable(blocks) /\ phase' = "failed" /\ UNCHANGED file
    /\ UNCHANGED <<node, toNode, client, inv, early>>

\* A timeout with nothing to go on, a closed connection, a wrong magic.
Fail ==
    /\ phase \in {"inv", "blocks"}
    /\ phase' = "failed"
    /\ UNCHANGED <<node, toNode, toHost, client, inv, file, early>>

FetchNext ==
    \/ \E b \in DOMAIN tree : Find(b)
    \/ Answer \/ Transact
    \/ ReadVersion \/ ReadPage \/ StopAsking \/ ReadInventory \/ Ignore \/ ReadBlocks \/ Fail

FetchSpec == FetchInit /\ [][FetchNext]_fetchVars
-------------------------------------------------------------------------------
\* While the node's chain stands still, the page sizes, a stop in the middle
\* and the duplicate-free count of the hashes do not matter: the height written
\* is that of the tip written, with the blocks below it, and the tip is the
\* node's unless the asking was cut short (fetch_tip_context.py:80-96, 135).
QuietFetchIsTrue ==
    phase = "done" /\ client = "tip" /\ ~moved =>
        /\ file.height \in 1..(Len(chain) - 1)
        /\ file.blocks = TailOf(SubSeq(chain, 2, file.height + 1))
        /\ early \/ file.height = Len(chain) - 1

\* Whatever the node does meanwhile, a file is one branch: pages of two chains,
\* or an announcement among them, never make the window the median time is
\* taken over, nor a chain that does not start after genesis.
FileIsOneBranch ==
    file # NoFile =>
        LET branch == BranchOf(Last(file.blocks))
            from == IF client = "full" THEN 2 ELSE Len(branch) - Len(file.blocks) + 1
        IN  from > 1 /\ file.blocks = SubSeq(branch, from, Len(branch))
===============================================================================
