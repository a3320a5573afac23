--------------------------- MODULE SandwichChecks ---------------------------
(***************************************************************************)
(* What verify_sandwich() (src/ctp/sandwich.py) and verify_binding()       *)
(* (src/ctp/binding.py) decide about a bundle.                             *)
(*                                                                         *)
(* A blob of evidence is [typ, id, bound, sound, made]: its type ("NTP"    *)
(* stands for every type the verifier implements, "EXTERNAL" for a record  *)
(* of another system, "OTHER" for a type it does not know), the digest it  *)
(* is named by, whether it carries q, B0 and the session, whether its own  *)
(* content verifies, and when it came to be: 0 before B0, 1 between B0 and *)
(* C, 2 after C (nothing the verifier can see).  An observation is [cites, *)
(* sound]: the blobs its sources cite, and whether each source and its     *)
(* interval follow from the blob.                                          *)
(*                                                                         *)
(* A bundle is [evidence, history, framed, core, linked, chained, burial,  *)
(* agreed, expected]: framed is whether the observations stand in one      *)
(* frame that declares its origin (none do in an empty history); core is   *)
(* the worst result of verify_bundle(), which the sandwich adds to its own *)
(* checks, the target of C among it; linked is S_B0_POW and                *)
(* S_LINKAGE_B0_TO_C, whether B0 and the headers between meet their        *)
(* targets and each, C too, stands on the one before; chained is           *)
(* S_B1_CHAIN_VALID, the same of the headers after C; agreed is whether    *)
(* the checkpoint has an interval.  ext is what a supplied extension does  *)
(* with the OTHER blobs: "absent" (none supplied), "answers", "declines",  *)
(* "raises".                                                               *)
(***************************************************************************)
EXTENDS Integers, FiniteSets, Sequences, Functions

Of(test) == IF test THEN "true" ELSE "false"

Foreign(b) == {x \in Range(b.evidence) : x.typ = "OTHER"}
Indexed(b) == {x \in Range(b.evidence) : x.typ = "NTP"}
Cited(u) == Range(u.cites)

(* An observation that cites a blob of unknown type is the extension's. *)
Extended(b, u) == Cited(u) \cap Foreign(b) # {}

(* The extension answers for a whole observation or for none of it. *)
Fits(b, u) ==
    IF Extended(b, u) THEN Cardinality(Cited(u)) = 1
                      ELSE Cited(u) \subseteq Indexed(b) /\ u.sound

(* The sources that found their blob; an extended observation counts once. *)
Found(b, u) ==
    IF Extended(b, u) THEN {j \in {1} : Fits(b, u)}
                      ELSE {j \in DOMAIN u.cites : u.cites[j] \in Indexed(b)}
Matched(b) ==
    Cardinality(UNION {{k} \X Found(b, b.history[k]) : k \in DOMAIN b.history})

(* External records carry no measurement and are not counted. *)
MeasurableAll(b) == Len(b.evidence)
Measurable(b) ==
    Cardinality({i \in DOMAIN b.evidence : b.evidence[i].typ # "EXTERNAL"})

CountedHistory(b) == Matched(b) = Len(b.history)
Counted(b) == Matched(b) = Measurable(b) /\ Measurable(b) = Len(b.history)

(* The measurement check, of the observations the verifier derives anew and *)
(* of those that are an extension's alike.                                 *)
Measured(b) ==
    b.framed /\ (\A k \in DOMAIN b.history : Fits(b, b.history[k])) /\ Counted(b)

BoundFirst(b) == b.evidence # <<>> => b.evidence[1].bound
Bound(b) == \A x \in Range(b.evidence) : x.bound

Echoed(b) == \A x \in Indexed(b) : x.sound
Tagged(b) == \A x \in Range(b.evidence) : x.typ = "EXTERNAL" => x.sound

(* The observations the extension is asked about. *)
Asked(b) == {k \in DOMAIN b.history : Extended(b, b.history[k]) /\ Fits(b, b.history[k])}

ExtensionErrorIgnored(b, ext) ==
    /\ ext = "answers"
    /\ \E k \in Asked(b), x \in Foreign(b) :
          x \in Cited(b.history[k]) /\ ~x.sound

(* An extension that breaks, or says anything but True, has failed. *)
ExtensionFailed(b, ext) ==
    /\ ext \in {"answers", "raises"}
    /\ \E k \in Asked(b) :
          ext = "raises" \/ \E x \in Cited(b.history[k]) : ~x.sound

(* Evidence nobody here knows, or a result the extension would not give. *)
Unchecked(b, ext) ==
    \/ ext = "absent" /\ Foreign(b) # {}
    \/ ext = "declines" /\ Asked(b) # {}

Results(b, ext) ==
    {b.core, Of(Bound(b)), Of(Echoed(b)), Of(Tagged(b)),
     Of(Measured(b)), Of(~ExtensionFailed(b, ext)),
     IF Unchecked(b, ext) THEN "NOT_CHECKED" ELSE "true",
     Of(b.linked), Of(b.chained),
     IF b.agreed THEN Of(b.expected) ELSE "NOT_APPLICABLE"}

(* UNAVAILABLE ranks above false, and false above NOT_CHECKED. *)
Verdict(b, ext) ==
    LET r == Results(b, ext)
        buried == b.chained /\ b.burial >= 1
    IN  IF "UNAVAILABLE" \in r THEN "INDETERMINATE_TOOLCHAIN"
        ELSE IF "false" \in r THEN "FAIL"
        ELSE IF "NOT_CHECKED" \in r THEN "INDETERMINATE_UNCHECKED_EVIDENCE"
        ELSE IF ~b.agreed
             THEN IF buried THEN "SANDWICH_PASS_NO_TIME_CONSENSUS"
                            ELSE "SANDWICH_PASS_NO_TIME_CONSENSUS_UNBURIED"
        ELSE IF buried THEN "SANDWICH_PASS" ELSE "SANDWICH_PASS_UNBURIED"

Passing == {"SANDWICH_PASS", "SANDWICH_PASS_UNBURIED",
            "SANDWICH_PASS_NO_TIME_CONSENSUS",
            "SANDWICH_PASS_NO_TIME_CONSENSUS_UNBURIED"}
Verdicts == Passing \cup {"FAIL", "INDETERMINATE_TOOLCHAIN",
                          "INDETERMINATE_UNCHECKED_EVIDENCE"}

(* verify_binding(): the bytes of the record [id, tagged, made] hold the    *)
(* tag of this session, and a blob of the evidence names the record with   *)
(* this session's tag, challenge and id.                                   *)
Lower(r) == r.tagged

(* Mutant: a blob of any record stands for this one. *)
UpperByAnyRecord(b, r) == \E x \in Range(b.evidence) : x.typ = "EXTERNAL" /\ x.sound /\ x.bound

Upper(b, r) ==
    \E x \in Range(b.evidence) :
        x.typ = "EXTERNAL" /\ x.id = r.id /\ x.sound /\ x.bound

Binding(b, r) ==
    IF Upper(b, r) THEN IF Lower(r) THEN "BOUND" ELSE "UPPER_ONLY"
                   ELSE IF Lower(r) THEN "LOWER_ONLY" ELSE "UNBOUND"
=============================================================================
