------------------------------ MODULE Quality -------------------------------
(***************************************************************************)
(* What an answer is worth: the score of a batch (quality/score.js), half   *)
(* from the answer itself and half from the answers to the other batches    *)
(* (merge/consistency.js), and the score that profiling/predict.js expects. *)
(*                                                                          *)
(* An answer that parses is its claims and whether it looks truncated; one  *)
(* that does not is no answer, {}.  A subject stands for the words and the  *)
(* dimension of a claim; a claim is grounded when its figure or one of its  *)
(* words is in the input.  parseEnvelope lets no malformed claim through,   *)
(* so the check of well-formed claims always gives full marks here.         *)
(***************************************************************************)
EXTENDS Routing

(* compareClaims: within 15 percent of the larger value.                    *)
Agree(c, d) == 100 * Distance(c.value, d.value) <= 15 * Larger(c.value, d.value)

(* What crossCheckBatches compares a claim of answers[i] with.              *)
Peers(answers, i, claim) ==
  {d \in UNION {ToSet(a.claims) : a \in UNION {answers[j] : j \in DOMAIN answers \ {i}}} :
     d.subject = claim.subject}

Contradicted(answers, i, claims) ==
  {k \in DOMAIN claims : \E d \in Peers(answers, i, claims[k]) : ~Agree(claims[k], d)}

Comparable(answers, i, claims) == {k \in DOMAIN claims : Peers(answers, i, claims[k]) # {}}

(* A claim that contradicts one peer is lost, whoever agrees with it; a     *)
(* batch with nothing to compare has full marks.                            *)
scoreConsistency(answers, i, claims) ==
  LET comparable == Cardinality(Comparable(answers, i, claims))
  IN  IF comparable = 0 THEN Over(1, 1)
      ELSE Over(comparable - Cardinality(Contradicted(answers, i, claims)), comparable)

(* The four checks, in hundredths: 25 for claims where there was something  *)
(* to claim, 15 for an answer that ends, 30 for well-formed claims and 30   *)
(* for claims found in the input.                                           *)
scoreDeterministic(answer, hasFigures) ==
  LET n == Len(answer.claims)
      grounded == Cardinality({k \in 1..n : answer.claims[k].grounded})
      present == IF n > 0 \/ ~hasFigures THEN 25 ELSE 0
      ends == IF answer.truncated THEN 0 ELSE 15
  IN  IF n = 0 THEN Over(present + ends + 60, 1)
      ELSE Over((present + ends + 30) * n + 30 * grounded, n)

(* DETERMINISTIC_WEIGHT 0.35 and CONSISTENCY_WEIGHT 0.65.                   *)
scoreBatch(answers, i, hasFigures) ==
  LET answer == CHOOSE a \in answers[i] : TRUE
      det == scoreDeterministic(answer, hasFigures)
      cons == scoreConsistency(answers, i, answer.claims)
  IN  Over(7 * det.num * cons.den + 1300 * cons.num * det.den, 20 * det.den * cons.den)

-----------------------------------------------------------------------------
(* WORKLOAD_DEGRADATION_MULTIPLIERS, in twentieths.                         *)
Multiplier(workload) ==
  CASE workload \in {"code_analysis", "multi_document_comparison"} -> 18
    [] workload \in {"reasoning", "extraction", "synthesis"} -> 19
    [] OTHER -> 20

learnedCurveLookup(events, p, task, ratio) ==
  CurveOf(events, p, task.workload, Profile[p].quality)[bucketForContextRatio(ratio)]

(* The prior, times what the workload is thought to keep of it.             *)
Adjusted(prior, workload) == Over(prior.num * Multiplier(workload), prior.den * 20)

predictQuality(events, p, task, size) ==
  Adjusted(learnedCurveLookup(events, p, task, ContextRatio(p, Larger(1, size))), task.workload)

(* How far apart the two are, whichever is larger.                          *)
compareOutcome(predicted, actual) ==
  Over(Distance(predicted.num * actual.den, actual.num * predicted.den),
       predicted.den * actual.den)

(* computeMeanOutcomeAccuracy: the mean of what each delta leaves of 100,   *)
(* {} without comparisons.                                                  *)
Hit(delta) == Over(Larger(0, 100 * delta.den - delta.num), delta.den)

meanOutcomeAccuracy(comparisons) ==
  IF comparisons = <<>> THEN {}
  ELSE {Mean([i \in DOMAIN comparisons |-> Hit(comparisons[i])])}
=============================================================================
