----------------------------- MODULE Transitions -----------------------------
(***************************************************************************)
(* packages/registry/transitions.js: the five explicit transitions an agent *)
(* may propose on the canonical claims, and the verdict each one gets.  A   *)
(* proposal is a record with a `type' and the fields of that type; an       *)
(* absent field is None, {} or <<>>, and a claim id a set of at most one.   *)
(* Challengers, attesters and reasons are names; statements, signatures and *)
(* evidence are left out.                                                   *)
(***************************************************************************)
EXTENDS Gate

TRANSITION_TYPES == {"PROPOSE_UPDATE", "DERIVE", "CORRECT", "CHALLENGE", "ATTEST"}
DERIVATION_OPERATIONS == {"ratio", "sum", "difference", "product"}

(* makeProposal and its five constructors: the proposals they accept; they  *)
(* throw on every other one.                                                *)
makeProposalAccepts(p) ==
  /\ p.type \in TRANSITION_TYPES
  /\ p.type \in {"PROPOSE_UPDATE", "DERIVE", "CORRECT"} =>
       p.candidate # {} /\ \A c \in p.candidate : c.hop >= 1
  /\ p.type = "DERIVE" =>
       /\ p.parents # <<>>
       /\ p.operation \in DERIVATION_OPERATIONS
       /\ p.operation \in {"ratio", "difference"} => Len(p.parents) = 2
  /\ p.type \in {"CORRECT", "CHALLENGE", "ATTEST"} => p.target # {}
  /\ p.type \in {"CORRECT", "CHALLENGE"} => p.reason # None
  /\ p.type \in {"CHALLENGE", "ATTEST"} => p.by # None

ClaimsNamed(claims, ids) == {c \in ToSet(claims) : c.id \in ids}

ValueOfCore(r) == CHOOSE v \in {q.value : q \in r.quantity} : TRUE

(* Within 0.01 of what the declared operation makes of the parents' values. *)
Consistent(operation, vs, actual) ==
  CASE operation = "ratio" -> AbsDiff(actual * vs[2], Unit * vs[1]) <= 10 * vs[2]
    [] operation = "difference" -> AbsDiff(actual, vs[1] - vs[2]) <= 10
    [] operation = "sum" -> AbsDiff(actual, FoldSeq(LAMBDA v, sum : sum + v, 0, vs)) <= 10
    [] operation = "product" -> AbsDiff(actual, FoldSeq(LAMBDA v, by : (v * by) \div Unit, Unit, vs)) <= 10

(* verifyDerivation: why a derivation is refused, None when it is valid.    *)
verifyDerivation(p, claims) ==
  LET found(k) == ClaimsNamed(claims, {p.parents[k]})
      vs == [k \in DOMAIN p.parents |-> CHOOSE v \in {ValueOfCore(c.core) : c \in found(k)} : TRUE]
      actual == CHOOSE v \in {ValueOfCore(c.core) : c \in p.candidate} : TRUE
  IN  IF \E k \in DOMAIN p.parents : found(k) = {} THEN "missing_parent"
      ELSE IF \E k \in DOMAIN p.parents : \E c \in found(k) : c.core.quantity = {}
        THEN "parent_missing_quantity"
      ELSE IF \E c \in p.candidate : c.core.quantity = {} THEN "derived_missing_quantity"
      ELSE IF p.operation = "ratio" /\ vs[2] = 0 THEN "division_by_zero"
      ELSE IF ~Consistent(p.operation, vs, actual) THEN "arithmetic_inconsistent"
      ELSE None

Verdict(p, claimId, status, reason, state) ==
  {[type |-> p.type, claimId |-> claimId, status |-> status, reason |-> reason,
    canonical |-> state]}

NotFound(p) == Verdict(p, p.target, "INVALID", "target_claim_not_found", "unchanged")

applyDerive(p, claims) ==
  LET why == verifyDerivation(p, claims)
  IN  IF why = None THEN Verdict(p, {}, "ACCEPT", None, "new_claim_recorded")
      ELSE Verdict(p, {}, "REJECT", why, "unchanged")

(* applyProposeUpdate: the gate on this one candidate, its verdicts passed  *)
(* on; none when the gate throws.                                           *)
applyProposeUpdate(p, claims, hop) ==
  LET passedOn(g) == UNION {Verdict(p, {v.claimId}, v.status, v.reason, v.canonical) :
                              v \in IF g.threw THEN {} ELSE g.verdicts}
  IN  passedOn(gate(claims, SetToSeq(p.candidate), hop))

(* applyCorrect: the deltas are for the record only, they never refuse.     *)
applyCorrect(p, claims) ==
  IF ClaimsNamed(claims, p.target) = {} THEN NotFound(p)
  ELSE Verdict(p, p.target, "CORRECTED", p.reason, "new_version_recorded_alongside_prior")

applyChallenge(p, claims) ==
  IF ClaimsNamed(claims, p.target) = {} THEN NotFound(p)
  ELSE Verdict(p, p.target, "CHALLENGED", p.reason, "disputed")

applyAttest(p, claims) ==
  IF ClaimsNamed(claims, p.target) = {} THEN NotFound(p)
  ELSE Verdict(p, p.target, "ATTESTED", None, "unchanged")

(* applyProposal: the verdicts on a proposal, none when it throws.          *)
applyProposal(p, claims, hop) ==
  CASE ~makeProposalAccepts(p) -> {}
    [] makeProposalAccepts(p) /\ p.type = "PROPOSE_UPDATE" -> applyProposeUpdate(p, claims, hop)
    [] makeProposalAccepts(p) /\ p.type = "DERIVE" -> applyDerive(p, claims)
    [] makeProposalAccepts(p) /\ p.type = "CORRECT" -> applyCorrect(p, claims)
    [] makeProposalAccepts(p) /\ p.type = "CHALLENGE" -> applyChallenge(p, claims)
    [] makeProposalAccepts(p) /\ p.type = "ATTEST" -> applyAttest(p, claims)
=============================================================================
