-------------------------------- MODULE Gate ---------------------------------
(***************************************************************************)
(* The write gate, packages/align/index.js: gate() aligns the candidates of *)
(* one hop with the claims, diffs what matched and gives a verdict on every *)
(* alignment; the constructors of contract.js check what it builds and      *)
(* throw when a check fails.                                                *)
(***************************************************************************)
EXTENDS Align, Diff

(* contract.js: what makeAlignment accepts.                                 *)
makeAlignmentAccepts(a) ==
  /\ 0 <= a.score /\ a.score <= 10000
  /\ a.margin >= 0
  /\ a.decision \in {"matched", "ambiguous"}
  /\ \A r \in a.runnerUp : 0 <= r.score /\ r.score <= a.score

makeDeltaAccepts(d) == d.class \in DELTA_CLASSES /\ d.severity \in SEVERITIES

UNALIGNED_REASONS == {"below_floor", "ambiguous", "no_quantity", "claim_exhausted", "out_of_order"}
DROPPED_CLAIM_REASONS == {"no_candidate", "ambiguous_only", "hop_absent"}

(* contract.js: what makeReport accepts: the frozen vocabularies, and no    *)
(* delta from an ambiguous alignment.                                       *)
makeReportAccepts(report, verdicts) ==
  /\ \A u \in report.unaligned : u.reason \in UNALIGNED_REASONS
  /\ \A d \in report.dropped : d.reason \in DROPPED_CLAIM_REASONS
  /\ \A a \in report.alignments, v \in verdicts :
       a.decision = "ambiguous" /\ v.claimId = a.claimId /\ v.cid = a.cid => v.deltas = <<>>

(* findClaim, findCandidate: {} or the first with that id.                  *)
findById(xs, id) ==
  {xs[i] : i \in {k \in DOMAIN xs : xs[k].id = id /\ \A j \in 1..(k - 1) : xs[j].id # id}}

(* {} or the class of the first delta that fails.                           *)
FailClass(deltas) ==
  LET fails == {i \in DOMAIN deltas : deltas[i].severity = "fail"}
  IN  {deltas[i].class : i \in {k \in fails : \A j \in fails : k <= j}}

(* A verdict on alignment a, refusing it for what is in reasons.            *)
VerdictFor(a, deltas, reasons) ==
  [claimId |-> a.claimId, cid |-> a.cid,
   status |-> IF reasons = {} THEN "ACCEPT" ELSE "REJECT",
   reason |-> IF reasons = {} THEN None ELSE CHOOSE r \in reasons : TRUE,
   canonical |-> IF reasons = {} THEN "updated" ELSE "unchanged",
   deltas |-> deltas]

(* A faulty VerdictsOn: no delta refuses an alignment.                      *)
VerdictsWithoutFails(claims, candidates, a) ==
  {VerdictFor(a, diffClaim(c.core, d.core), {}) :
     c \in findById(claims, a.claimId), d \in findById(candidates, a.cid)}

(* The verdict of gate() on one alignment: an ambiguous one is refused      *)
(* without a comparison, a matched one when a delta fails.  None when its   *)
(* claim or its candidate is not found.                                     *)
VerdictsOn(claims, candidates, a) ==
  LET compared(deltas) == VerdictFor(a, deltas, FailClass(deltas))
  IN  IF a.decision = "ambiguous" THEN {VerdictFor(a, <<>>, {"ambiguous_alignment"})}
      ELSE {compared(diffClaim(c.core, d.core)) :
              c \in findById(claims, a.claimId), d \in findById(candidates, a.cid)}

(* Whether gate() or a constructor throws on the way from the candidates of *)
(* a hop to the verdicts on the report.                                     *)
Throws(claims, candidates, hop, report, verdicts) ==
  \/ hop < 1
  \/ \E c \in ToSet(candidates) : c.hop # hop
  \/ \E a \in report.alignments : ~makeAlignmentAccepts(a)
  \/ \E a \in report.alignments :
       a.decision = "matched" /\ {} \in {findById(claims, a.claimId), findById(candidates, a.cid)}
  \/ \E v \in verdicts : \E d \in ToSet(v.deltas) : ~makeDeltaAccepts(d)
  \/ ~makeReportAccepts(report, verdicts)

gate(claims, candidates, hop) ==
  LET result(report, verdicts) ==
        [threw |-> Throws(claims, candidates, hop, report, verdicts), report |-> report,
         verdicts |-> verdicts]
      judge(report) ==
        result(report, UNION {VerdictsOn(claims, candidates, a) : a \in report.alignments})
  IN  judge(align(claims, candidates))
=============================================================================
