------------------------------ MODULE Routing -------------------------------
(***************************************************************************)
(* How a task is given a provider and a batch plan: the arithmetic of       *)
(* route-contracts.js and provider-profiles.js, and decideRoute with its    *)
(* four gates (dispatcher/policy.js).                                       *)
(*                                                                          *)
(* A task is its items 1..n and its workload type.  A prediction is what an *)
(* agent submitted: its provider and its recommended batch size may be      *)
(* absent ({}).  Left out: the quality target, which no gate reads, the     *)
(* texts that explain a decision, and agents that name a provider outside   *)
(* the list.                                                                *)
(***************************************************************************)
EXTENDS Reputation, Curves, SequencesExt

CONSTANTS Profile,       \* name of a provider -> its profile
          ProviderList   \* the names, in the caller's order

Provider == ToSet(ProviderList)

(* The numbers of MODEL_PROFILES, or of the profiles a caller brings.       *)
ASSUME ProfileAssumption ==
  /\ ProviderList # <<>> /\ ProviderList \in Seq(Provider)
  /\ \A p \in Provider :
       /\ Profile[p].tokensPerItem \in Nat \ {0} /\ Profile[p].maxBatchSize \in Nat \ {0}
       /\ Profile[p].contextWindow \in Nat \ {0} /\ Profile[p].safeContextPct \in Nat
       /\ \A bucket \in Bucket : Profile[p].quality[bucket] \in Fractions

Larger(a, b) == IF a > b THEN a ELSE b
Smaller(a, b) == IF a < b THEN a ELSE b

(* computeSafeBatchSize, and the same formula in estimateProviderFit: the   *)
(* items that fit the safe part of the context window, at least one.        *)
safeBatch(p) ==
  LET fitting == (Profile[p].contextWindow * Profile[p].safeContextPct)
                   \div (100 * Profile[p].tokensPerItem)
  IN  Larger(1, Smaller(Profile[p].maxBatchSize, fitting))

ItemCount(task) == Larger(1, Len(task.items))

ContextRatio(p, size) == Over(Profile[p].tokensPerItem * size, Profile[p].contextWindow)

estimateProviderFit(task, p) ==
  LET size == Smaller(safeBatch(p), ItemCount(task))
  IN  [provider |-> p,
       batchSize |-> size,
       estimatedTokens |-> Profile[p].tokensPerItem * ItemCount(task),
       quality |-> Profile[p].quality[bucketForContextRatio(ContextRatio(p, size))]]

(* Best quality first, and the cheaper of two that are as good.             *)
planBatches(task) ==
  Ranked([i \in DOMAIN ProviderList |-> estimateProviderFit(task, ProviderList[i])],
         LAMBDA a, b : \/ Exceeds(a.quality, b.quality)
                       \/ /\ ~Exceeds(b.quality, a.quality)
                          /\ a.estimatedTokens < b.estimatedTokens)

(* rankProviders reads the curve by the number of batches of the task, not  *)
(* by the context load the curve is learned over.                           *)
LoadOf(batches) ==
  IF batches <= 2 THEN "low" ELSE IF batches <= 4 THEN "medium" ELSE "high"

(* Without a ledger `events' is empty and every value is the static one.    *)
rankProviders(task, events) ==
  LET Estimate(p) ==
        LET batches == CeilDiv(ItemCount(task), Smaller(safeBatch(p), ItemCount(task)))
        IN  [provider |-> p, batches |-> batches,
             quality |-> CurveOf(events, p, task.workload, Profile[p].quality)[LoadOf(batches)]]
      ranked == Ranked([i \in DOMAIN ProviderList |-> Estimate(ProviderList[i])],
                       LAMBDA a, b : \/ Exceeds(a.quality, b.quality)
                                     \/ ~Exceeds(b.quality, a.quality) /\ a.batches < b.batches)
  IN  [i \in DOMAIN ranked |-> ranked[i].provider]

rankFallbackProviders(task, exclude) ==
  SelectSeq(rankProviders(task, <<>>), LAMBDA p : p # exclude)

-----------------------------------------------------------------------------
(* buildBatchPlan: the items in chunks of `size'; a task without items gets *)
(* one placeholder.                                                         *)
Chunk(items, size, i) == SubSeq(items, (i - 1) * size + 1, Smaller(i * size, Len(items)))

(* Faulty variant: the last, shorter chunk is forgotten.                    *)
planFullChunks(items, size, tokensPerItem) ==
  IF Len(items) < size THEN <<[items |-> items, expectedTokens |-> tokensPerItem * Len(items)]>>
  ELSE [i \in 1..(Len(items) \div size) |->
         [items |-> Chunk(items, size, i), expectedTokens |-> tokensPerItem * size]]

buildBatchPlan(items, size, tokensPerItem) ==
  IF items = <<>> THEN <<[items |-> <<>>, expectedTokens |-> 0]>>
  ELSE [i \in 1..CeilDiv(Len(items), size) |->
         [items |-> Chunk(items, size, i),
          expectedTokens |-> tokensPerItem * Len(Chunk(items, size, i))]]

(* buildRouteDecision, of which `gate' is the decisionPath.  `agent' is the *)
(* one an approval by an agent names.                                       *)
buildRouteDecision(task, gate, p, size, agent) ==
  [approved |-> TRUE, gate |-> gate, provider |-> {p}, agent |-> agent,
   batchPlan |-> buildBatchPlan(task.items, size, Profile[p].tokensPerItem),
   fallbackProviders |-> rankFallbackProviders(task, p)]

(* buildApprovalFromAgent: the recommended batch size is capped by the      *)
(* provider's maxBatchSize alone, not by what its context holds.            *)
buildApprovalFromAgent(task, gate, winner) ==
  LET p == CHOOSE q \in winner.provider : TRUE
      recommended == {Smaller(n, Profile[p].maxBatchSize) : n \in winner.recommendedBatchSize}
      size == IF recommended = {} THEN estimateProviderFit(task, p).batchSize
              ELSE CHOOSE n \in recommended : TRUE
  IN  buildRouteDecision(task, gate, p, size, {winner.agent})

buildApprovalFromQuota(task, fit) ==
  buildRouteDecision(task, "step-2-quota-buffer", fit.provider, fit.batchSize, {})

(* operatorOverride without a batch size of its own.                        *)
buildOverrideDecision(task, p) ==
  buildRouteDecision(task, "operator-override", p, estimateProviderFit(task, p).batchSize, {})

buildRejection ==
  [approved |-> FALSE, gate |-> "step-4-rejection", provider |-> {}, agent |-> {},
   batchPlan |-> <<>>, fallbackProviders |-> <<>>]

-----------------------------------------------------------------------------
WithTrust(prediction, trust) ==
  [agent |-> prediction.agent, provider |-> prediction.provider,
   predictedTokens |-> prediction.predictedTokens,
   recommendedBatchSize |-> prediction.recommendedBatchSize, trust |-> trust]

(* Faulty variant: an agent without a history starts with full trust.       *)
trustNewAgents(prediction, events) ==
  LET trust == computeTrustScore(buildAgentHistoryFromEvents(events, prediction.agent))
  IN  WithTrust(prediction, IF trust = {} THEN {Over(100, 1)} ELSE trust)

(* evaluateAgentPrediction: the prediction with the trust of its agent, {}  *)
(* for an agent without a history.                                          *)
evaluateAgentPrediction(prediction, events) ==
  WithTrust(prediction, computeTrustScore(buildAgentHistoryFromEvents(events, prediction.agent)))

(* Step 1: HIGH_CONFIDENCE_TRUST_THRESHOLD, and a provider to go to.        *)
highReputationCandidates(evaluated) ==
  Ranked(RestrictValues(evaluated, LAMBDA p :
                          /\ \E trust \in p.trust : Exceeds(trust, Over(90, 1))
                          /\ p.provider # {}),
         LAMBDA a, b : \E x \in a.trust, y \in b.trust : Exceeds(x, y))

(* Faulty variant: all of what remains may be used.                         *)
fitsRemaining(fit, remaining) == \E left \in remaining : fit.estimatedTokens < left

(* Step 2: `remaining' is {} for a provider whose quota is not known.       *)
evaluateQuotaComfort(fit, remaining) ==
  \E left \in remaining : 2 * fit.estimatedTokens < left

(* Step 3: 0.7 of the trust, 0.5 for an agent without one, and 0.3 of the   *)
(* tokens saved against the dearest candidate; at least two candidates.     *)
scoreMultiObjective(evaluated) ==
  LET candidates == RestrictValues(evaluated, LAMBDA p : p.provider # {})
      maxTokens == Max({1} \cup {candidates[i].predictedTokens : i \in DOMAIN candidates})
      Trust(p) == CHOOSE t \in (IF p.trust = {} THEN {Over(50, 1)} ELSE p.trust) : TRUE
      Score(p) == Over(7 * Trust(p).num * maxTokens
                         + 300 * (maxTokens - p.predictedTokens) * Trust(p).den,
                       10 * Trust(p).den * maxTokens)
  IN  IF Cardinality(DOMAIN candidates) < 2 THEN <<>>
      ELSE Ranked(candidates, LAMBDA a, b : Exceeds(Score(a), Score(b)))

(* decideRoute without an override: the first gate that resolves, with what *)
(* is left of the quotas.                                                   *)
decideRoute(task, evaluated, left) ==
  LET trusted == highReputationCandidates(evaluated)
      top == Head(planBatches(task))
      scored == scoreMultiObjective(evaluated)
  IN  IF trusted # <<>>
        THEN buildApprovalFromAgent(task, "step-1-high-reputation-shortcut", Head(trusted))
      ELSE IF evaluateQuotaComfort(top, left[top.provider])
        THEN buildApprovalFromQuota(task, top)
      ELSE IF scored # <<>>
        THEN buildApprovalFromAgent(task, "step-3-multi-agent-comparison", Head(scored))
      ELSE buildRejection
=============================================================================
