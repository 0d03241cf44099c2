----------------------------- MODULE MCDispatch -----------------------------
(***************************************************************************)
(* A small dispatcher: a provider that takes three items at a time and one    *)
(* whose single item fills two thirds of its context; two agents, one with  *)
(* a safe guess and one that is never right.                                *)
(***************************************************************************)
EXTENDS Dispatch

CONSTANTS big, small, a1, a2

MCProfile ==
  big :> [tokensPerItem |-> 1, contextWindow |-> 6, safeContextPct |-> 60, maxBatchSize |-> 3,
          quality |-> [low |-> Over(84, 1), medium |-> Over(75, 1), high |-> Over(66, 1)]]
  @@ small :> [tokensPerItem |-> 2, contextWindow |-> 3, safeContextPct |-> 50, maxBatchSize |-> 2,
          quality |-> [low |-> Over(80, 1), medium |-> Over(75, 1), high |-> Over(66, 1)]]

MCProviderList == <<big, small>>

MCTotalQuota == big :> {7} @@ small :> {}

MCTasks == {[items |-> <<1, 2, 3>>, figures |-> {1}, workload |-> "extraction"],
            [items |-> <<1, 2, 3, 4, 5, 6>>, figures |-> {4}, workload |-> "synthesis"]}

Claims(value, grounded) ==
  {[claims |-> <<[subject |-> "dispatches", value |-> value, grounded |-> grounded]>>,
    truncated |-> FALSE]}

MCAnswer == {[more |-> 0, parsed |-> Claims(100, TRUE)],
             [more |-> 1, parsed |-> Claims(84, FALSE)],
             [more |-> -1, parsed |-> Claims(100, TRUE)]}

Predicts(agent, provider, tokens, size) ==
  [agent |-> agent, provider |-> provider, predictedTokens |-> tokens,
   recommendedBatchSize |-> size]

MCPrediction ==
  {<<>>,
   <<Predicts(a1, {big}, 3, {})>>,
   <<Predicts(a2, {big}, 10, {}), Predicts(a1, {small}, 4, {5})>>}

(* A task of an earlier run: a1 was right about it, and its batch scored    *)
(* badly.                                                                   *)
Earlier ==
  <<[type |-> "prediction-recorded", task |-> 0, predictionId |-> 1, agent |-> a1,
     predictedTokens |-> 3],
    [type |-> "task-routed", task |-> 0, provider |-> {big}, gate |-> "step-2-quota-buffer",
     agent |-> {}],
    [type |-> "task-completed", task |-> 0, provider |-> big, batchIndex |-> 0,
     actualTokens |-> 3, day |-> 0],
    [type |-> "batch-quality-scored", task |-> 0, batchIndex |-> 0, provider |-> big,
     workload |-> "extraction", score |-> Over(1200, 20), ratio |-> Over(3, 6)],
    [type |-> "reputation-updated", task |-> 0, predictionId |-> 1, agent |-> a1,
     predictedTokens |-> 3, actualTokens |-> 3, day |-> 0, accuracy |-> 100]>>

MCPast == {<<>>, Earlier}

Symmetric == Permutations(Process)
=============================================================================
