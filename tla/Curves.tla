------------------------------- MODULE Curves -------------------------------
(***************************************************************************)
(* Learned degradation curves (ledger/curves.js): the quality a provider    *)
(* has shown per band of context load, from the batch-quality-scored events *)
(* of the ledger, and the static prior wherever too little was measured.    *)
(*                                                                          *)
(* A context ratio is a fraction.  The workload type of a task is part of   *)
(* the task; the keyword detectors that find it (profiling/classify.js) are *)
(* not modelled.                                                            *)
(***************************************************************************)
EXTENDS Fraction

CONSTANT MinBucketSamples     \* MIN_BUCKET_SAMPLES

ASSUME SamplesAssumption == MinBucketSamples \in Nat \ {0}

Bucket == {"low", "medium", "high"}

bucketForContextRatio(ratio) ==
  IF Exceeds(ratio, Over(9, 10)) THEN "high"
  ELSE IF Exceeds(ratio, Over(6, 10)) THEN "medium"
  ELSE "low"

(* The scores recorded for a provider in one band of context load, of every *)
(* workload type; and those of one type.                                    *)
Measured(events, provider, bucket) ==
  RestrictValues(events, LAMBDA e : /\ e.type = "batch-quality-scored"
                                    /\ e.provider = provider
                                    /\ bucketForContextRatio(e.ratio) = bucket)

OfWorkload(scores, workload) == RestrictValues(scores, LAMBDA e : e.workload = workload)

MeanScore(scores) == Mean([i \in DOMAIN scores |-> scores[i].score])

(* Faulty variant: the samples of all buckets together decide whether one   *)
(* has been measured.                                                       *)
fitFromAllBuckets(events, provider, workload, bucket) ==
  LET wide == RestrictValues(events, LAMBDA e : /\ e.type = "batch-quality-scored"
                                                /\ e.provider = provider)
  IN  IF Cardinality(DOMAIN wide) >= MinBucketSamples THEN {MeanScore(wide)} ELSE {}

(* One bucket of fitDegradationCurve: {} where neither the workload's own   *)
(* scores nor all of the provider's are enough.                             *)
fitBucket(events, provider, workload, bucket) ==
  LET wide == Measured(events, provider, bucket)
      own == OfWorkload(wide, workload)
  IN  IF Cardinality(DOMAIN own) >= MinBucketSamples THEN {MeanScore(own)}
      ELSE IF Cardinality(DOMAIN wide) >= MinBucketSamples THEN {MeanScore(wide)}
      ELSE {}

fitDegradationCurve(events, provider, workload) ==
  [bucket \in Bucket |-> fitBucket(events, provider, workload, bucket)]

(* The learned value of each bucket, or else the static one of the profile. *)
CurveOf(events, provider, workload, static) ==
  LET fit == fitDegradationCurve(events, provider, workload)
  IN  [bucket \in Bucket |-> IF fit[bucket] # {} THEN CHOOSE q \in fit[bucket] : TRUE
                             ELSE static[bucket]]
=============================================================================
