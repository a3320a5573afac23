--------------------------- MODULE SandwichVerdict ---------------------------
(***************************************************************************)
(* A finished bundle passed from hand to hand: whoever holds it may append *)
(* a blob of evidence to it, extend its burial with newer headers, supply  *)
(* an extension, and verify it again.  What no holder can change is the    *)
(* history and the checkpoint that block C commits to.                     *)
(***************************************************************************)
EXTENDS SandwichChecks

CONSTANTS
    Blobs,          \* the blobs there are (SandwichChecks)
    Observations,   \* the signed observations
    Records,        \* records of other systems: [id, tagged, made]
    MaxEvidence,    \* bound: blobs in a bundle as its session left it
    MaxHistory,     \* bound: observations in a bundle
    MaxAppended     \* bound: blobs appended later

(* q is a hash over B0, and so is the tag made from it: what carries either *)
(* was made after B0.  A blob names a record by its hash: it was made after *)
(* the record.                                                             *)
ASSUME BlobAssumption ==
    /\ \A x \in Blobs : x.bound => x.made >= 1
    /\ \A r \in Records : r.tagged => r.made >= 1
    /\ \A x \in Blobs, r \in Records :
          x.typ = "EXTERNAL" /\ x.id = r.id => x.made >= r.made
ASSUME TypeAssumption ==
    /\ \A x \in Blobs : x.typ \in {"NTP", "EXTERNAL", "OTHER"} /\ x.made \in 0..2
    /\ Observations \subseteq [cites : Seq(Blobs), sound : BOOLEAN]
    /\ \A r \in Records : r.made \in 0..2
ASSUME MaxAssumption == MaxEvidence \in Nat /\ MaxHistory \in Nat /\ MaxAppended \in Nat

VARIABLES
    bundle,     \* the bundle
    ext,        \* the extension its holder supplies
    appended    \* how many blobs were appended

vars == <<bundle, ext, appended>>

Sequences(S, n) == UNION {[1..m -> S] : m \in 0..n}

(* The bundle of a session, its headers and its checkpoint in order.        *)
Assembled(e, h, core, framed, agreed) ==
    [evidence |-> e, history |-> h, framed |-> framed, core |-> core, linked |-> TRUE,
     chained |-> TRUE, burial |-> 0, agreed |-> agreed, expected |-> TRUE]

(* A session's bundle holds what was made before C, and C commits to the   *)
(* observations and so to the blobs they cite.  A checkpoint over nothing  *)
(* has no Merkle root: verify_bundle() fails it.  Where it fails, neither  *)
(* the frames nor whether the checkpoint has an interval changes the       *)
(* verdict.  The headers are sound in all; EpochSession is about those.    *)
Init ==
    /\ \E e \in Sequences({x \in Blobs : x.made <= 1}, MaxEvidence),
          h \in Sequences({u \in Observations : \A x \in Cited(u) : x.made <= 1}, MaxHistory),
          core \in {"true", "false", "UNAVAILABLE"}, framed, agreed \in BOOLEAN :
         /\ core = "true" \/ framed => h # <<>>
         /\ core # "true" => agreed /\ (h # <<>> => framed)
         /\ bundle = Assembled(e, h, core, framed, agreed)
    /\ ext = "absent" /\ appended = 0

WithTwice(x) == [bundle EXCEPT !.evidence = @ \o <<x, x>>]
With(x) == [bundle EXCEPT !.evidence = Append(@, x)]

Attach(x) ==
    /\ appended < MaxAppended
    /\ bundle' = With(x)
    /\ appended' = appended + 1
    /\ UNCHANGED ext

(* Evidence that takes part in no observation, and evidence that could.    *)
AppendUnknown == \E x \in Blobs : x.typ = "OTHER" /\ Attach(x)
AppendExternal == \E x \in Blobs : x.typ = "EXTERNAL" /\ Attach(x)
AppendMeasured == \E x \in Blobs : x.typ = "NTP" /\ Attach(x)

Bury ==
    /\ bundle.burial = 0
    /\ bundle' = [bundle EXCEPT !.burial = 1]
    /\ UNCHANGED <<ext, appended>>

Supply ==
    /\ ext = "absent"
    /\ ext' \in {"answers", "declines", "raises"}
    /\ UNCHANGED <<bundle, appended>>

Next == AppendUnknown \/ AppendExternal \/ AppendMeasured \/ Bury \/ Supply

Spec == Init /\ [][Next]_vars

-------------------------------------------------------------------------------
verdict == Verdict(bundle, ext)
Passes == verdict \in Passing
CitedBlobs == UNION {Cited(bundle.history[k]) : k \in DOMAIN bundle.history}

(* Every blob is cited by one source of one observation. *)
CitedOnce ==
    \A k, l \in DOMAIN bundle.history :
        /\ Len(bundle.history[k].cites) = 1
        /\ k # l => Cited(bundle.history[k]) \cap Cited(bundle.history[l]) = {}

(* The bundle is made of blobs and observations, and its verdict is one of *)
(* the seven of sandwich.py:507-527.                                       *)
TypeOK ==
    /\ Range(bundle.evidence) \subseteq Blobs
    /\ Len(bundle.evidence) <= MaxEvidence + appended
    /\ Range(bundle.history) \subseteq Observations
    /\ verdict \in Verdicts
    /\ ext \in {"absent", "answers", "declines", "raises"}
    /\ appended \in 0..MaxAppended

(* A pass is about the evidence: whatever holders append, in a passing     *)
(* bundle every cited blob is there, verifies, and was made between B0 and *)
(* C (the binding of sandwich.py:328-329, the index of 442-444).           *)
CitedEvidenceInWindow ==
    Passes => \A x \in CitedBlobs :
                 x \in Range(bundle.evidence) /\ x.sound /\ x.made = 1

(* Where no blob is cited twice the count of sandwich.py:456-457 leaves no *)
(* blob over: every blob that carries a measurement was made between B0    *)
(* and C, also the one appended last.                                      *)
NothingSpare ==
    Passes /\ CitedOnce =>
        \A x \in Range(bundle.evidence) : x.typ # "EXTERNAL" => x \in CitedBlobs

(* A bundle with evidence of an unknown type passes only where a supplied  *)
(* extension answered True for the observation that cites it: one that is  *)
(* missing, declines or breaks is never a pass (sandwich.py:424-439).      *)
PassNeedsAnAnswer ==
    Passes => \A x \in Foreign(bundle) \cap CitedBlobs : ext = "answers" /\ x.sound

(* Appending a blob that no verifier here measures (a record of another    *)
(* system, or a type nobody knows and no extension answers for) never      *)
(* turns a bundle that does not pass into one that does                    *)
(* (sandwich.py:303-306, 367-379).                                         *)
AppendedNeverHelps ==
    [][AppendExternal \/ (AppendUnknown /\ ext = "absent") => (Passes' => Passes)]_vars

(* binding.py:122: "BOUND both directions: B0 < record < B1".  A record    *)
(* that reads as BOUND in a passing bundle was made after B0; that it was  *)
(* made before C holds of the bundle as its session left it, and is lost   *)
(* once a holder has appended to it, since nothing in C commits to an      *)
(* external blob.                                                          *)
BoundUnlessAppended ==
    \A r \in Records :
        Passes /\ Binding(bundle, r) = "BOUND" =>
            r.made >= 1 /\ (appended = 0 => r.made = 1)
===============================================================================
