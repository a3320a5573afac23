------------------------------ MODULE AnchorRace ------------------------------
(***************************************************************************)
(* live/race.sh around its mining round: fetch the tip, build a template   *)
(* on it, mine, submit, wait, fetch again and stop when the tip is the     *)
(* block just mined.  The public node and the laboratory's miner are the   *)
(* environment: each keeps the first longest chain it has seen, and blocks *)
(* reach them late or never.                                               *)
(***************************************************************************)
EXTENDS Naturals, Sequences, FiniteSets

CONSTANTS
    MaxRounds,      \* MAX_ROUNDS
    MaxLab,         \* bound: blocks the laboratory miner finds
    MaxTrouble      \* bound: fetches, templates, nonce spaces and sends that fail

ASSUME BoundsAssumption ==
    MaxRounds \in Nat \ {0} /\ MaxLab \in Nat /\ MaxTrouble \in Nat

VARIABLES
    tree,       \* every block, by number: parent, height, whether it is ours, and the
                \* blocks down to the first that its hash fixes, itself included
    nodeHas,    \* the blocks the public node has
    best,       \* the node's active tip
    labBest,    \* the tip the laboratory mines on
    flight,     \* our blocks sent and not yet arrived
    round,      \* the loop counter
    phase,      \* the next command of the loop
    ctx,        \* live/tip-context.json: the last tip fetched
    ourHash,    \* OURHASH, 0 before the first block
    lab, trouble

world == <<tree, nodeHas, best, labBest, flight, lab>>
script == <<round, phase, ctx, ourHash>>
vars == <<world, script, trouble>>

Blocks == DOMAIN tree

Init ==
    /\ tree = <<[parent |-> 0, height |-> 0, ours |-> FALSE, chain |-> {1}]>>
    /\ nodeHas = {1} /\ best = 1 /\ labBest = 1 /\ flight = {}
    /\ round = 1 /\ phase = "fetch" /\ ctx = 1 /\ ourHash = 0
    /\ lab = 0 /\ trouble = 0

Child(b, mine) ==
    [parent |-> b, height |-> tree[b].height + 1, ours |-> mine,
     chain |-> tree[b].chain \cup {Len(tree) + 1}]

\* A block replaces the active tip only when it is higher: first seen wins.
Better(b, tip) == IF tree[b].height > tree[tip].height THEN b ELSE tip

-------------------------------------------------------------------------------
\* The world outside the script.
LabMines ==
    /\ lab < MaxLab
    /\ lab' = lab + 1
    /\ tree' = Append(tree, Child(labBest, FALSE))
    /\ labBest' = Len(tree')
    /\ UNCHANGED <<nodeHas, best, flight, script, trouble>>

Arrive(b) ==
    /\ tree[b].parent \in nodeHas
    /\ nodeHas' = nodeHas \cup {b}
    /\ best' = Better(b, best)

\* The laboratory's block reaches the node.
LabRelays(b) ==
    /\ b \in Blocks \ nodeHas /\ ~tree[b].ours
    /\ Arrive(b)
    /\ UNCHANGED <<tree, labBest, flight, lab, script, trouble>>

\* The laboratory learns the node's tip.
LabHears ==
    /\ labBest' = Better(best, labBest)
    /\ labBest' # labBest
    /\ UNCHANGED <<tree, nodeHas, best, flight, lab, script, trouble>>

\* A block the script sent arrives after the script moved on.
LateArrival(b) ==
    /\ b \in flight
    /\ Arrive(b)
    /\ flight' = flight \ {b}
    /\ UNCHANGED <<tree, labBest, lab, script, trouble>>

World == LabMines \/ LabHears \/ \E b \in Blocks : LabRelays(b) \/ LateArrival(b)

-------------------------------------------------------------------------------
\* The script.

NextRound ==
    /\ round' = round + 1
    /\ phase' = IF round < MaxRounds THEN "fetch" ELSE "gave up"

Trouble == trouble < MaxTrouble /\ trouble' = trouble + 1

Fetch ==
    /\ phase = "fetch"
    /\ ctx' = best
    /\ phase' = "mine"
    /\ UNCHANGED <<world, round, ourHash, trouble>>

\* "fetch failed": sleep and continue with the next round.
FetchFails ==
    /\ phase = "fetch" /\ Trouble
    /\ NextRound
    /\ UNCHANGED <<world, ctx, ourHash>>

\* build_live_template.py refuses an nTime that is not past the median, or the
\* round ends with the nonce space exhausted.
RoundFails ==
    /\ phase = "mine" /\ Trouble
    /\ NextRound
    /\ UNCHANGED <<world, ctx, ourHash>>

\* A header is found on the fetched tip and finalized.
Mine ==
    /\ phase = "mine"
    /\ tree' = Append(tree, Child(ctx, TRUE))
    /\ ourHash' = Len(tree')
    /\ phase' = "submit"
    /\ UNCHANGED <<nodeHas, best, labBest, flight, lab, round, ctx, trouble>>

Submit ==
    /\ phase = "submit"
    /\ Arrive(ourHash)
    /\ phase' = "check"
    /\ UNCHANGED <<tree, labBest, flight, lab, round, ctx, ourHash, trouble>>

\* A failed send does not stop the round; a slow one arrives later or never.
SubmitFails ==
    /\ phase = "submit" /\ Trouble
    /\ flight' \in {flight, flight \cup {ourHash}}
    /\ phase' = "check"
    /\ UNCHANGED <<tree, nodeHas, best, labBest, lab, round, ctx, ourHash>>

\* Mutants: the loop goes on after success, takes any block of ours for the one
\* just mined, or looks at the tip read before the wait.
CompareNoBreak(tip) == ctx' = tip /\ NextRound /\ UNCHANGED <<world, ourHash>>

CompareAnyOurs(tip) ==
    /\ ctx' = tip
    /\ IF tree[tip].ours THEN phase' = "success" /\ UNCHANGED round ELSE NextRound
    /\ UNCHANGED <<world, ourHash>>

CompareStale(tip) ==
    /\ ctx' = tip
    /\ IF ctx = ourHash THEN phase' = "success" /\ UNCHANGED round ELSE NextRound
    /\ UNCHANGED <<world, ourHash>>

\* After the wait the tip is fetched again and compared with the block mined.
Compare(tip) ==
    /\ ctx' = tip
    /\ IF tip = ourHash THEN phase' = "success" /\ UNCHANGED round ELSE NextRound
    /\ UNCHANGED <<world, ourHash>>

Check == phase = "check" /\ Compare(best) /\ UNCHANGED trouble

\* "|| true": after a failed fetch the old context file is read again.
CheckBlind == phase = "check" /\ Trouble /\ Compare(ctx)

Script ==
    \/ Fetch \/ FetchFails \/ RoundFails \/ Mine
    \/ Submit \/ SubmitFails \/ Check \/ CheckBlind

Next == World \/ Script

\* Every command of the script returns.
Spec == Init /\ [][Next]_vars /\ WF_vars(Script)
-------------------------------------------------------------------------------
\* The copies of the anchor on the chain that ends in b.
AnchorsOn(b) == {c \in tree[b].chain : tree[c].ours}

\* Success is announced only at a moment when the node's active chain ends in
\* the block just mined: neither a stale context file nor an older block of
\* ours, arrived late, is taken for it.
SuccessIsTheTip ==
    [][(phase = "check" /\ phase' = "success") => best = ourHash]_vars

\* A copy too many of the anchor on the active chain always has a cause outside
\* the script: a rival block or a failure for each.
DuplicateNeedsCause == Cardinality(AnchorsOn(best)) <= 1 + lab + trouble

\* A race is lost only to the world: a rival block spoils at most one round, a
\* failure at most two, the second when a late block of ours takes the place of
\* the new one.
LossHasCauses == phase = "gave up" => MaxRounds <= lab + 2 * trouble

\* The race ends, and it is lost only to the world.
LostOnlyToRivals == <>(phase \in {"success", "gave up"} /\ LossHasCauses)
===============================================================================
