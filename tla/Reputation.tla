----------------------------- MODULE Reputation -----------------------------
(***************************************************************************)
(* What the ledger says of an agent (ledger/reputation.js): the accuracy of *)
(* one outcome, the history of an agent, its trust.  Everything is          *)
(* recomputed from the events on every call; nothing is cached.             *)
(*                                                                          *)
(* A timestamp is the day of the event.  An optional result is a set: {} is *)
(* the code's `trustScore: null'.  Signatures are left out: the ledger is   *)
(* read back without verifying them.                                        *)
(***************************************************************************)
EXTENDS Fraction

CONSTANTS RecentWindow,   \* RECENT_WINDOW_SIZE
          DecayDays       \* DEFAULT_DECAY_THRESHOLD_DAYS

ASSUME WindowAssumption == RecentWindow \in Nat \ {0} /\ DecayDays \in Nat

Distance(a, b) == IF a > b THEN a - b ELSE b - a

(* In hundredths; it has no lower bound: three times the prediction is -100.*)
computeAccuracy(predicted, actual) ==
  IF predicted = 0 THEN (IF actual = 0 THEN 100 ELSE 0)
  ELSE 100 - (100 * Distance(actual, predicted)) \div predicted

(* The reputation-updated events of one agent, at their places in the ledger. *)
buildAgentHistoryFromEvents(events, agent) ==
  RestrictValues(events, LAMBDA e : e.type = "reputation-updated" /\ e.agent = agent)

ByTime(history) == Ranked(history, LAMBDA a, b : a.day < b.day)

Accuracies(history) == [i \in DOMAIN history |-> history[i].accuracy]

(* 0.7 of the mean of the last RecentWindow outcomes and 0.3 of the mean of *)
(* all of them.                                                             *)
computeTrustScore(history) ==
  IF history = <<>> THEN {}
  ELSE LET all == Accuracies(ByTime(history))
           recent == SubSeq(all, Len(all) + 1 - (IF Len(all) < RecentWindow
                                                 THEN Len(all) ELSE RecentWindow), Len(all))
       IN  {Over(7 * SumFunction(recent) * Len(all) + 3 * SumFunction(all) * Len(recent),
                 10 * Len(recent) * Len(all))}

-----------------------------------------------------------------------------
TIER_ORDER == <<"red", "yellow", "blue", "green", "gold", "diamond">>

(* The tier as its place in TIER_ORDER; pct is in hundredths.               *)
assignCredibilityTier(pct, made) ==
  IF Exceeds(pct, Over(97, 1)) /\ made > 100 THEN 6
  ELSE IF Exceeds(pct, Over(92, 1)) THEN 5
  ELSE IF ~Exceeds(Over(85, 1), pct) THEN 4
  ELSE IF ~Exceeds(Over(75, 1), pct) THEN 3
  ELSE IF ~Exceeds(Over(60, 1), pct) THEN 2
  ELSE 1

capTierOneLevelDown(tier) == IF tier > 1 THEN tier - 1 ELSE tier

(* getAgentTrustScore and its buildReputationSnapshot, of which the trend   *)
(* and the counts are left out.  Only the tier decays, never the trust.     *)
getAgentTrustScore(events, agent, today) ==
  LET history == ByTime(buildAgentHistoryFromEvents(events, agent))
      stale == today - history[Len(history)].day > DecayDays
      tier == assignCredibilityTier(Over(SumFunction(Accuracies(history)), Len(history)), Len(history))
  IN  IF history = <<>> THEN [trustScore |-> {}, stale |-> FALSE, tier |-> "red"]
      ELSE [trustScore |-> computeTrustScore(history), stale |-> stale,
            tier |-> TIER_ORDER[IF stale THEN capTierOneLevelDown(tier) ELSE tier]]
=============================================================================
