------------------------------ MODULE Dispatch ------------------------------
(***************************************************************************)
(* Processes that dispatch tasks over one shared ledger file.  Each takes a *)
(* task, records what agents predict of it, routes it (decideRoute, or the  *)
(* override `quorum run' uses), executes the batches of the plan one by     *)
(* one, records their quality scores, settles the predictions with the      *)
(* tokens the task really took, and, in `quorum run', forecasts the scores  *)
(* and records how well it did.                                             *)
(*                                                                          *)
(* Every decision reads the ledger: the quota that is left, the trust in an *)
(* agent, the curve of a provider.  Nothing is reserved between the reading *)
(* and the spending, other processes append in between, and a process may   *)
(* die inside any of its appends.                                           *)
(*                                                                          *)
(* Simplifications: a batch that fails is not tried elsewhere (QuorumRun    *)
(* has the fallback chain); the merge event, the signature of the trace and *)
(* the mirror are QuorumRun's; a settled task is never settled again.       *)
(***************************************************************************)
EXTENDS Ledger, Quality, FiniteSetsExt

CONSTANTS Process,        \* the dispatching processes
          Tasks,          \* what a task may be: [items, figures, workload]
          Prediction,     \* sequences of predictions agents may submit for a task
          Past,           \* ledgers of before: events of task 0 and day 0
          TotalQuota,     \* a provider's daily budget, {} when not configured
          Answer,         \* what a call may return: [more, parsed], how many tokens more
                          \* or fewer than expected it uses, and the answer, {} when it
                          \* does not parse
          MaxTasks,       \* bound on the tasks taken
          MaxAppends,     \* bound on the events appended
          MaxCrashes,     \* bound on the processes that die in an append
          MaxDay          \* bound on the days, the first of which is 1

ASSUME DispatchAssumptions ==
  /\ MaxTasks \in Nat /\ MaxAppends \in Nat /\ MaxCrashes \in Nat /\ MaxDay \in Nat
  /\ IsFiniteSet(Process)
  /\ \A p \in Provider : /\ TotalQuota[p] \subseteq Nat
                         /\ \A quota, other \in TotalQuota[p] : quota = other
  /\ \A task \in Tasks : task.items \in Seq(ToSet(task.items))
  /\ \A answer \in Answer :
       /\ answer.more \in Int
       /\ \A parsed \in answer.parsed : parsed.claims \in Seq(ToSet(parsed.claims))
  /\ \A all \in Prediction :
       /\ all \in Seq(ToSet(all))
       /\ \A prediction \in ToSet(all) : /\ prediction.provider \subseteq Provider
                                          /\ prediction.predictedTokens \in Nat
                                          /\ prediction.recommendedBatchSize \subseteq Nat \ {0}

(* Every outcome in `known' comes after the prediction it was measured      *)
(* against, and says the same of it.                                        *)
OutcomesFollow(known) ==
  \A i \in DOMAIN known : known[i].type = "reputation-updated" =>
    \E j \in 1..(i - 1) : /\ known[j].type = "prediction-recorded"
                          /\ known[j].task = known[i].task
                          /\ known[j].predictionId = known[i].predictionId
                          /\ known[j].agent = known[i].agent
                          /\ known[j].predictedTokens = known[i].predictedTokens

IsUsage(e) == e.type \in {"task-completed", "task-failed"}

(* What the code puts in the events that it reads back as numbers.          *)
WellFormed(e, today) ==
  /\ IsUsage(e) => e.actualTokens \in Nat /\ e.day \in 0..today
  /\ e.type = "prediction-recorded" => e.predictedTokens \in Nat
  /\ e.type = "reputation-updated" => e.accuracy \in Int /\ e.accuracy <= 100
                                      /\ e.day \in 0..today
  /\ e.type = "batch-quality-scored" => e.score \in Fractions /\ e.ratio \in Fractions

(* Every route of `all' that step 1 approved names an agent one of whose    *)
(* outcomes, also in `all', was within ten percent of its prediction.       *)
ShortcutsWereEarned(all) ==
  \A route \in {e \in all : e.type = "task-routed"} :
    route.gate = "step-1-high-reputation-shortcut" =>
      \E e \in all : e.type = "reputation-updated" /\ {e.agent} = route.agent /\ e.accuracy > 90

(* A ledger of before was written by the same code: no event twice, no      *)
(* outcome without its prediction, no shortcut without a hit.               *)
ASSUME PastAssumption ==
  \A past \in Past :
    /\ past \in Seq(ToSet(past)) /\ IsInjective(past)
    /\ \A i \in DOMAIN past : past[i].task = 0 /\ WellFormed(past[i], 0)
    /\ OutcomesFollow(past)
    /\ ShortcutsWereEarned(ToSet(past))

VARIABLES file,      \* the ledger file
          acked,     \* events whose appendEvent returned, in order
          cut,       \* events whose appendEvent was cut short
          work,      \* what each process is doing
          taken,     \* number of tasks taken so far
          day,       \* the UTC day
          spent      \* today's real use of each provider (see Spend)

vars == <<file, acked, cut, work, taken, day, spent>>

Idle == [stage |-> "idle"]

Nothing == [p \in Provider |-> [all |-> 0, checked |-> 0, beyond |-> 0]]

Init ==
  /\ acked \in Past
  /\ file = [EmptyFile EXCEPT !.lines = [i \in DOMAIN acked |-> LineOf(acked[i])]]
  /\ cut = {}
  /\ work = [d \in Process |-> Idle]
  /\ taken = 0
  /\ day = 1
  /\ spent = Nothing

-----------------------------------------------------------------------------
(* One append by process d, which goes on with `next', or dies in it.       *)
Records(d, e, next) ==
  /\ file' = appendEvent(file, e)
  /\ acked' = Append(acked, e)
  /\ work' = [work EXCEPT ![d] = next]
  /\ UNCHANGED cut

DiesRecording(d, e) ==
  /\ Cardinality(cut) < MaxCrashes
  /\ file' \in TornAppends(file, e)
  /\ cut' = cut \cup {e}
  /\ work' = [work EXCEPT ![d] = Idle]
  /\ UNCHANGED acked

Appends(d, e, next) == Records(d, e, next) \/ DiesRecording(d, e)

(* The bound on appends.                                                    *)
Room == Len(SelectSeq(acked, LAMBDA e : e.task # 0)) + Cardinality(cut) < MaxAppends

events == readEvents(file)

(* computePoolState: what the ledger says was used today, and what is left. *)
usedToday(p) ==
  LET today == RestrictValues(events, LAMBDA e : IsUsage(e) /\ e.provider = p /\ e.day = day)
  IN  SumFunction([i \in DOMAIN today |-> today[i].actualTokens])

remaining(p) == {Larger(0, quota - usedToday(p)) : quota \in TotalQuota[p]}

-----------------------------------------------------------------------------
(* What an idle process may take up, or else what it is working on.         *)
InHand(d) ==
  IF work[d].stage # "idle" THEN {work[d]}
  ELSE {[stage |-> "predicting", id |-> taken + 1, task |-> task, predictions |-> <<>>] :
          task \in IF taken < MaxTasks THEN Tasks ELSE {}}

(* recordPrediction: the committed value is in the ledger before the call.  *)
RecordPrediction(d) ==
  /\ Room
  /\ \E w \in InHand(d) :
       /\ w.stage = "predicting"
       /\ \E all \in Prediction :
            /\ IsStrictPrefix(w.predictions, all)
            /\ LET n == Len(w.predictions) + 1
               IN  Appends(d, [type |-> "prediction-recorded", task |-> w.id, predictionId |-> n,
                               agent |-> all[n].agent, predictedTokens |-> all[n].predictedTokens],
                           [w EXCEPT !.predictions = Append(@, all[n])])
       /\ taken' = Larger(taken, w.id)
       /\ UNCHANGED <<day, spent>>

(* decideRoute and its task-routed event.  A rejected task is dropped.      *)
Decision(task, predictions) ==
  decideRoute(task,
              [i \in DOMAIN predictions |-> evaluateAgentPrediction(predictions[i], events)],
              [p \in Provider |-> remaining(p)])

(* What `quorum run' does: the override names the provider ranked first     *)
(* with the learned curves.                                                 *)
RankedOverride(task) == buildOverrideDecision(task, Head(rankProviders(task, events)))

Route(d) ==
  /\ Room
  /\ \E w \in InHand(d) :
       /\ w.stage = "predicting"
       /\ w.predictions \in Prediction
       /\ \E route \in {Decision(w.task, w.predictions)}
                       \cup {RankedOverride(w.task) : none \in {<<>>} \cap {w.predictions}} :
            Appends(d, [type |-> "task-routed", task |-> w.id, provider |-> route.provider,
                        gate |-> route.gate, agent |-> route.agent],
                    IF route.approved
                    THEN [stage |-> "executing", id |-> w.id, task |-> w.task,
                          predictions |-> w.predictions, route |-> route,
                          results |-> <<>>, forecast |-> <<>>, scored |-> 0,
                          settled |-> 0, traced |-> FALSE]
                    ELSE Idle)
       /\ taken' = Larger(taken, w.id)
       /\ UNCHANGED <<day, spent>>

ProviderOf(w) == CHOOSE p \in w.route.provider : TRUE

Executed(w) == Len(w.results) = Len(w.route.batchPlan)

(* `quorum run' forecasts and traces; it routes by override.                *)
ByRun(w) == w.route.gate = "operator-override"

(* The batches still to score, and whether a task has nothing left to do.   *)
Unscored(w) == {i \in DOMAIN w.results : i > w.scored /\ w.results[i].parsed # {}}
Finished(w) ==
  /\ Executed(w) /\ Unscored(w) = {}
  /\ w.settled = Len(w.predictions)
  /\ ByRun(w) => w.traced

OnceFinished(w) == IF Finished(w) THEN Idle ELSE w

(* History: real use today, that of routes the quota gate approved, and     *)
(* what their batches took beyond their expected tokens.                    *)
Spend(w, expected, tokens) ==
  LET checked == w.route.gate = "step-2-quota-buffer"
  IN  [spent EXCEPT ![ProviderOf(w)] =
         [all |-> @.all + tokens,
          checked |-> @.checked + (IF checked THEN tokens ELSE 0),
          beyond |-> @.beyond + (IF checked THEN Larger(0, tokens - expected) ELSE 0)]]

(* executeBatch and the event of its outcome.  A failed call is recorded    *)
(* with 0 tokens; it may have used as many as one that answers.             *)
ExecuteBatch(d) ==
  /\ Room
  /\ work[d].stage = "executing"
  /\ ~Executed(work[d])
  /\ LET w == work[d]
         batch == w.route.batchPlan[Len(w.results) + 1]
         Ends(type, actualTokens, tokens, parsed) ==
           /\ spent' = Spend(w, batch.expectedTokens, tokens)
           /\ Appends(d, [type |-> type, task |-> w.id, provider |-> ProviderOf(w),
                          batchIndex |-> Len(w.results), actualTokens |-> actualTokens, day |-> day],
                      OnceFinished([w EXCEPT !.results =
                        Append(@, [tokens |-> actualTokens, items |-> batch.items,
                                   parsed |-> parsed])]))
     IN  \/ \E answer \in Answer :
              LET tokens == Larger(0, batch.expectedTokens + answer.more)
              IN  Ends("task-completed", tokens, tokens, answer.parsed)
         \/ Ends("task-failed", 0, batch.expectedTokens, {})
  /\ UNCHANGED <<taken, day>>

Size(w, i) == Len(w.results[i].items)

(* predictQuality for every batch of the plan.                              *)
PredictQuality(d) ==
  /\ work[d].stage = "executing"
  /\ Executed(work[d]) /\ ByRun(work[d])
  /\ work[d].forecast = <<>>
  /\ LET w == work[d]
     IN  work' = [work EXCEPT ![d].forecast =
                    [i \in DOMAIN w.results |->
                      predictQuality(events, ProviderOf(w), w.task, Size(w, i))]]
  /\ UNCHANGED <<file, acked, cut, taken, day, spent>>

(* Faulty variant: the forecast can wait.                                   *)
scoreFirst(w) == Executed(w)

(* `quorum run' scores when it has made its forecast.                       *)
mayScore(w) == Executed(w) /\ (ByRun(w) => w.forecast # <<>>)

combinedScore(w, i) ==
  scoreBatch([j \in DOMAIN w.results |-> w.results[j].parsed], i,
             ToSet(w.results[i].items) \cap w.task.figures # {})

(* The batch-quality-scored event of the next batch that mergeRoute parsed. *)
ScoreBatch(d) ==
  /\ Room
  /\ work[d].stage = "executing"
  /\ mayScore(work[d])
  /\ Unscored(work[d]) # {}
  /\ LET w == work[d]
         i == CHOOSE j \in Unscored(w) : \A k \in Unscored(w) : j <= k
     IN  Appends(d, [type |-> "batch-quality-scored", task |-> w.id, batchIndex |-> i - 1,
                     provider |-> ProviderOf(w), workload |-> w.task.workload,
                     score |-> combinedScore(w, i), ratio |-> ContextRatio(ProviderOf(w), Size(w, i))],
                 OnceFinished([w EXCEPT !.scored = i]))
  /\ UNCHANGED <<taken, day, spent>>

(* The execution-trace-recorded event of `quorum run', with how close the   *)
(* forecasts came to the scores.                                            *)
RecordTrace(d) ==
  /\ Room
  /\ work[d].stage = "executing"
  /\ Executed(work[d]) /\ work[d].forecast # <<>>
  /\ Unscored(work[d]) = {} /\ ~work[d].traced
  /\ LET w == work[d]
         scored == {i \in DOMAIN w.results : w.results[i].parsed # {}}
     IN  Appends(d, [type |-> "execution-trace-recorded", task |-> w.id,
                     accuracy |-> meanOutcomeAccuracy(
                       [i \in scored |-> compareOutcome(w.forecast[i], combinedScore(w, i))])],
                 OnceFinished([w EXCEPT !.traced = TRUE]))
  /\ UNCHANGED <<taken, day, spent>>

(* Faulty variant: the prediction the caller still has in memory.           *)
remembered(w, n) ==
  {[type |-> "prediction-recorded", task |-> w.id, predictionId |-> n,
    agent |-> w.predictions[n].agent, predictedTokens |-> w.predictions[n].predictedTokens]}

(* The prediction an outcome is measured against: the first in the ledger   *)
(* with its id, {} when there is none.                                      *)
recorded(w, n) ==
  LET first == SelectInSeq(events, LAMBDA e : /\ e.type = "prediction-recorded"
                                              /\ e.task = w.id /\ e.predictionId = n)
  IN  IF first = 0 THEN {} ELSE {events[first]}

(* recordOutcome, which throws when the prediction cannot be read any more. *)
RecordOutcome(d) ==
  /\ work[d].stage = "executing"
  /\ Executed(work[d])
  /\ Unscored(work[d]) = {}
  /\ work[d].settled < Len(work[d].predictions)
  /\ LET w == work[d]
         n == w.settled + 1
         actual == SumFunction([i \in DOMAIN w.results |-> w.results[i].tokens])
     IN  \/ /\ recorded(w, n) = {}
            /\ work' = [work EXCEPT ![d] = Idle]
            /\ UNCHANGED <<file, acked, cut>>
         \/ /\ Room
            /\ \E prediction \in recorded(w, n) :
                 Appends(d, [type |-> "reputation-updated", task |-> w.id, predictionId |-> n,
                             agent |-> w.predictions[n].agent,
                             predictedTokens |-> prediction.predictedTokens,
                             actualTokens |-> actual, day |-> day,
                             accuracy |-> computeAccuracy(prediction.predictedTokens, actual)],
                         OnceFinished([w EXCEPT !.settled = n]))
  /\ UNCHANGED <<taken, day, spent>>

(* Midnight UTC.  Days on which nothing was used are not told apart.        *)
NewDay ==
  /\ day < MaxDay
  /\ spent # Nothing
  /\ day' = day + 1
  /\ spent' = Nothing
  /\ UNCHANGED <<file, acked, cut, work, taken>>

Next ==
  \/ \E d \in Process : \/ RecordPrediction(d) \/ Route(d)
                        \/ ExecuteBatch(d) \/ PredictQuality(d) \/ ScoreBatch(d)
                        \/ RecordTrace(d) \/ RecordOutcome(d)
  \/ NewDay

Spec == Init /\ [][Next]_vars

-----------------------------------------------------------------------------
Readable == ToSet(events)
Lost == ToSet(acked) \ Readable
Written == ToSet(acked) \cup cut

(* store.js:20-26: a torn line costs at most the append that runs into it,  *)
(* and readEvents reports a malformed line for every acknowledged event it  *)
(* no longer returns: a projection that is short of events can know it.     *)
LossIsReported ==
  /\ Cardinality(Lost) <= Cardinality(malformedLines(file))
  /\ Cardinality(malformedLines(file)) <= Cardinality(cut)

(* The acknowledged events a reader sees come in the order they were        *)
(* acknowledged, each once, whatever crashed in between: reputation and     *)
(* curves take file order for time order.                                   *)
ReadersSeeAppendOrder ==
  LET known == events
  IN  \A i \in DOMAIN acked, k \in DOMAIN known : acked[i] = known[k] =>
        \A j \in DOMAIN acked, l \in DOMAIN known : acked[j] = known[l] =>
          (i < j <=> k < l)

(* The tokens of a route the quota gate approved that are yet to be spent.  *)
Outstanding(d, p) ==
  IF /\ work[d].stage = "executing"
     /\ work[d].route.gate = "step-2-quota-buffer"
     /\ work[d].route.provider = {p}
  THEN LET plan == work[d].route.batchPlan
       IN  SumFunction([i \in (Len(work[d].results) + 1)..Len(plan) |-> plan[i].expectedTokens])
  ELSE 0

(* What the ledger does not show of today's use: events lost or cut, and    *)
(* failed calls that used tokens.                                           *)
Unseen(p) == spent[p].all - usedToday(p)

(* policy.js:272-293: the quota gate reads what is left and reserves        *)
(* nothing, so n processes may commit to more than the quota; but to at     *)
(* most half a quota more for each process beyond the first, apart from     *)
(* what batches took beyond their estimate and what the ledger never saw.   *)
QuotaCommitmentBounded ==
  \A p \in Provider : \A quota \in TotalQuota[p] :
    2 * (spent[p].checked + SumFunction([d \in Process |-> Outstanding(d, p)]))
      <= (Cardinality(Process) + 1) * quota + 2 * (spent[p].beyond + Unseen(p))

(* policy.js:49-59: only an agent that has been right may skip the quota    *)
(* gate.  Whatever lines the ledger lost, a route approved by step 1 names  *)
(* an agent one of whose outcomes was within ten percent of its prediction. *)
(* And whoever the ledger says may skip it has, over all outcomes that can  *)
(* be read, a tier above the lowest, unless only its silence lowered it.    *)
ShortcutNeedsAHit ==
  LET known == events
      outcomes == {e \in Written : e.type = "reputation-updated"}
  IN  /\ ShortcutsWereEarned(Written)
      /\ \A agent \in {e.agent : e \in outcomes} :
           LET standing == getAgentTrustScore(known, agent, day)
           IN  (\E trust \in standing.trustScore : Exceeds(trust, Over(90, 1))) =>
                 standing.stale \/ standing.tier # "red"

(* reputation.js:199-261: every outcome that can be read can be audited;    *)
(* the prediction it was measured against can be read too, comes before it, *)
(* and says the same number of tokens, whatever lines were lost.            *)
OutcomesFollowTheirPredictions == OutcomesFollow(events)

(* policy.js:193-215: by the time a task is executed each of its items was  *)
(* in exactly one batch, in order, and no batch was larger than the         *)
(* provider takes, whichever gate approved the route.                       *)
PlansCoverTheTask ==
  \A d \in Process : work[d].stage = "executing" =>
    LET w == work[d]
        batches == [i \in DOMAIN w.results |-> w.results[i].items]
    IN  /\ \A i \in DOMAIN batches :
             Len(batches[i]) <= Profile[ProviderOf(w)].maxBatchSize
        /\ Executed(w) => FlattenSeq(batches) = w.task.items

(* curves.js:181-292: a learned value is never a guess: it lies among the   *)
(* scores that were measured for that provider in that band of context      *)
(* load, of which there were enough.  And what was measured is used: once   *)
(* enough acknowledged scores are still in the ledger, the bucket is        *)
(* learned, from other workloads when the task's own are too few.           *)
LearnedFromMeasurements ==
  LET known == events
      tried == {e \in Written : e.type = "batch-quality-scored"}
      kept == ToSet(known) \cap ToSet(acked)
      In(E, p, bucket) == {e \in E : e.provider = p /\ bucketForContextRatio(e.ratio) = bucket}
  IN  \A p \in Provider, workload \in {task.workload : task \in Tasks} :
        LET fit == fitDegradationCurve(known, p, workload)
        IN  \A bucket \in Bucket :
              LET measured == In(tried, p, bucket)
              IN  /\ \A q \in fit[bucket] :
                       /\ Cardinality(measured) >= MinBucketSamples
                       /\ \E e \in measured : ~Exceeds(q, e.score)
                       /\ \E e \in measured : ~Exceeds(e.score, q)
                  /\ Cardinality(measured \cap kept) >= MinBucketSamples => fit[bucket] # {}

(* quorum.js:653-656, "compares a real prediction against a real measured   *)
(* outcome".  A forecast owes nothing to the scores it is compared with: it *)
(* is what the workload leaves of a value between the static one and the    *)
(* scores of other tasks, whatever other processes append meanwhile.        *)
ForecastsPrecedeScores ==
  \A d \in {x \in Process : work[x].stage = "executing"} :
    \A i \in DOMAIN work[d].forecast :
      LET w == work[d]
          p == ProviderOf(w)
          bucket == bucketForContextRatio(ContextRatio(p, Larger(1, Size(w, i))))
          priors == {Profile[p].quality[bucket]}
                      \cup {e.score : e \in {x \in Written : /\ x.type = "batch-quality-scored"
                                                            /\ x.provider = p /\ x.task # w.id}}
      IN  /\ \E q \in priors : ~Exceeds(Adjusted(q, w.task.workload), w.forecast[i])
          /\ \E q \in priors : ~Exceeds(w.forecast[i], Adjusted(q, w.task.workload))
=============================================================================
