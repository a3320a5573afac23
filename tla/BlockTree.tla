------------------------------ MODULE BlockTree ------------------------------
(***************************************************************************)
(* The chain as the sandwich tools meet it: blocks found by anyone, one of *)
(* which the public node serves as its tip.  Blocks are numbered in the    *)
(* order they are found, so "before" and "after" can be read off.  A block *)
(* names its parent by hash, and the parent names its own, so every block  *)
(* fixes the branch that ends in it.                                       *)
(***************************************************************************)
EXTENDS Integers, Sequences, Functions

CONSTANT MaxBlocks  \* bound: blocks in the world

ASSUME BlocksAssumption == MaxBlocks \in Nat

VARIABLES
    tree,       \* every block found: parent, the branch it fixes, the payload of
                \* its coinbase, or 0
    best        \* the tip the public node serves

chainVars == <<tree, best>>

InitTree == tree = <<[parent |-> 0, branch |-> <<1>>, payload |-> 0]>> /\ best = 1

Height(b) == Len(tree[b].branch)

\* Anyone may extend the tip or a block one below it; a higher block is the tip.
Grow(parent, payload) ==
    LET found == Len(tree) + 1 IN
    /\ Len(tree) < MaxBlocks
    /\ Height(parent) >= Height(best) - 1
    /\ tree' = Append(tree, [parent |-> parent, payload |-> payload,
                             branch |-> Append(tree[parent].branch, found)])
    /\ best' = IF Height(parent) + 1 > Height(best) THEN found ELSE best

\* fetch_chain(): the blocks from the first to the tip.
BranchOf(tip) == tree[tip].branch

chain == BranchOf(best)

Linked(blocks) == \A i \in 2..Len(blocks) : tree[blocks[i]].parent = blocks[i - 1]

\* Where a payload is found above a block.
AnchorsAbove(blocks, b0, payload) ==
    {i \in DOMAIN blocks :
        \E k \in DOMAIN blocks :
            blocks[k] = b0 /\ k < i /\ tree[blocks[i]].payload = payload}

TreeOK ==
    /\ \A b \in DOMAIN tree : tree[b].parent \in 0..(b - 1)
    /\ \A b \in DOMAIN tree : Height(b) <= Height(best)
===============================================================================
