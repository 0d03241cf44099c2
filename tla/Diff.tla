-------------------------------- MODULE Diff ---------------------------------
(***************************************************************************)
(* packages/align/diff.js: what a matched candidate changed of its claim,   *)
(* as a sequence of deltas of the four frozen classes.  Both arguments are  *)
(* parsed cores (Extract).  What is abstracted: the messages, the evidence   *)
(* pointers, and how alike two units are spelt, which is a given relation.  *)
(***************************************************************************)
EXTENDS Extract

CONSTANT AlikeUnits   \* pairs of units diff.js takes for one: of one stem by the
                      \* stemmer it has of its own, or a trigram Dice of 0.72

ASSUME AlikeAssumption ==
  /\ AlikeUnits \subseteq (DOMAIN Stem) \X (DOMAIN Stem)
  /\ \A pair \in AlikeUnits : <<pair[2], pair[1]>> \in AlikeUnits

(* Two units count as the same when they are alike; a unit is not like none.*)
unitCompatible(a, b) == a = b \/ <<a, b>> \in AlikeUnits

(* contract.js, the frozen vocabularies a delta is built from.              *)
DELTA_CLASSES == {"value_drift", "unit_drift", "denominator_loss", "caveat_loss"}
SEVERITIES == {"fail", "warn", "note"}

Delta(class, subtype, severity) == <<[class |-> class, subtype |-> subtype, severity |-> severity]>>

SameValue(a, b) == AbsDiff(a, b) <= Larger(a, b) \div 200
Material(a, b) == AbsDiff(a, b) > Larger(a, b) \div 10

inBand(v, band) == band[1] <= v /\ v <= band[2]

(* The candidate's own sides recompute, within 0.01, the rate it displays.  *)
arithmeticallyConsistent(cand) ==
  \E n \in cand.numerator, d \in cand.denominator, q \in cand.quantity :
    /\ d.value # 0
    /\ q.dimension \in {"percent", "ratio"}
    /\ AbsDiff(Unit * n.value, q.value * d.value) <= 10 * d.value

(* A faulty rule: a restatement without a base has nothing to compare.      *)
diffStatedBasesOnly(claim, cand) ==
  IF \E o \in claim.denominator, c \in cand.denominator :
       ~SameValue(Unit * o.value, Unit * c.value)
  THEN Delta("denominator_loss", "altered", "fail") ELSE <<>>

(* diffDenominator: reportable only when the origin stated a base.          *)
diffDenominator(claim, cand) ==
  LET lost == claim.denominator # {} /\ cand.denominator = {}
      rate == \E q \in cand.quantity : q.dimension \in {"percent", "ratio"} \/ q.vague
      altered == \E o \in claim.denominator, c \in cand.denominator :
                   ~SameValue(Unit * o.value, Unit * c.value)
      rebased == \E o \in claim.denominator, c \in cand.denominator :
                   ~unitCompatible(o.unit, c.unit)
  IN  IF lost /\ rate THEN Delta("denominator_loss", "dropped_rate_survives", "fail")
      ELSE IF lost THEN Delta("denominator_loss", "dropped_count_only", "warn")
      ELSE IF altered
        THEN Delta("denominator_loss", "altered", "fail")
               \o (IF arithmeticallyConsistent(cand)
                   THEN Delta("value_drift", "consequential_on_denominator", "warn") ELSE <<>>)
      ELSE IF rebased THEN Delta("denominator_loss", "rebased", "fail")
      ELSE <<>>

(* diffValue, of the origin's quantity o and the restated one c.            *)
DiffQuantities(o, c) ==
  IF ~o.vague /\ ~c.vague
    THEN IF SameValue(o.value, c.value) THEN <<>>
         ELSE IF bandsOverlap(o.band, c.band) THEN Delta("value_drift", "rounding", "note")
         ELSE Delta("value_drift", "material", IF Material(o.value, c.value) THEN "fail" ELSE "warn")
  ELSE IF c.vague
    THEN IF inBand(o.value, c.band) THEN Delta("value_drift", "precision_loss", "note")
         ELSE Delta("value_drift", "material", "fail")
  ELSE <<>>

diffValue(claim, cand) ==
  FlattenSeq(SetToSeq({DiffQuantities(o, c) : o \in claim.quantity, c \in cand.quantity}))

diffUnit(claim, cand) ==
  LET confused == \E a \in claim.unit, b \in cand.unit : ~unitCompatible(a, b)
  IN  IF claim.unit # {} /\ cand.unit = {} THEN Delta("unit_drift", "unit_dropped", "note")
      ELSE IF confused THEN Delta("unit_drift", "measure_confusion", "fail")
      ELSE <<>>

(* CAVEAT_FAMILIES: a term per family.  A caveat whose term is in no family *)
(* counts under the kind the parser gave it ("anecdotal", uncertainty).     *)
CAVEAT_FAMILIES == [unverified |-> "uncertainty", about |-> "estimation", pilot |-> "scope",
                    projected |-> "projection", may |-> "modality"]

classifyCaveat(c) == IF c.term \in DOMAIN CAVEAT_FAMILIES THEN CAVEAT_FAMILIES[c.term] ELSE c.kind

LossSeverity(family) ==
  IF family \in {"uncertainty", "estimation", "scope", "projection"} THEN "fail" ELSE "warn"

Families(r) == {classifyCaveat(c) : c \in ToSet(r.caveats)}

diffCaveats(claim, cand) ==
  LET gone == SetToSeq(Families(claim) \ Families(cand))
      added == SetToSeq(Families(cand) \ Families(claim))
      lost(f) == Delta("caveat_loss", f, LossSeverity(f))
      gained(f) == Delta("caveat_loss", "added_" \o f, "note")
  IN  FlattenSeq([i \in DOMAIN gone |-> lost(gone[i])])
        \o FlattenSeq([i \in DOMAIN added |-> gained(added[i])])

(* diffClaim: every delta of a pair, the denominator's first.               *)
diffClaim(claim, cand) ==
  diffDenominator(claim, cand) \o diffValue(claim, cand) \o diffUnit(claim, cand)
    \o diffCaveats(claim, cand)
=============================================================================
