-------------------------- MODULE QuorumRunProofs ---------------------------
(***************************************************************************)
(* Proofs about QuorumRun, for every plan, provider set, chain and number   *)
(* of runs.                                                                 *)
(***************************************************************************)
EXTENDS QuorumRun, LedgerProofs, SequenceTheorems

-----------------------------------------------------------------------------
(* What the operators return.                                               *)

(* A classifier gives a failure and never an answer.                        *)
LEMMA ClassifyType ==
  ASSUME NEW p, NEW f \in Failure
  PROVE  /\ classify(p, f) \in Outcome
         /\ classify(p, f).status # "success"
  <1> USE DEF Failed, Failure, Outcome, Status, ErrorClass, NoOutput
  <1>1. classifyError(f) \in Outcome /\ classifyError(f).status # "success"
    BY DEF classifyError, InstanceOf
  <1>2. classifyGeminiError(f) \in Outcome /\ classifyGeminiError(f).status # "success"
    BY DEF classifyGeminiError
  <1>3. classify(p, f) \in {classifyError(f), classifyGeminiError(f)} BY DEF classify
  <1> HIDE DEF Failed, Failure, Outcome, Status, ErrorClass, NoOutput
  <1> QED BY <1>1, <1>2, <1>3

(* What comes back from a call is an outcome.                               *)
LEMMA ExecuteBatchType ==
  ASSUME NEW p, NEW o \in executeBatch(p, Failures)
  PROVE  o \in Outcome
  <1>1. CASE \E text \in Output : o = Answered(text)
    BY <1>1 DEF Answered, Outcome, Status, ErrorClass
  <1>2. CASE \E f \in Failures : o = classify(p, f)
    <2>1. PICK f \in Failures : o = classify(p, f) BY <1>2
    <2>2. f \in Failure BY DataAssumptions
    <2> QED BY <2>1, <2>2, ClassifyType
  <1> QED BY <1>1, <1>2 DEF executeBatch

(* A ranking is a sequence of providers without repetition.                 *)
LEMMA OrderingsType ==
  ASSUME NEW S \in SUBSET Provider, NEW c \in Orderings(S)
  PROVE  /\ c \in Seq(S)
         /\ c \in Seq(Provider)
         /\ \A i, j \in DOMAIN c : c[i] = c[j] => i = j
  <1> DEFINE n == Cardinality(S)
  <1>1. IsFiniteSet(S) BY FS_Subset, DataAssumptions
  <1>2. n \in Nat BY <1>1, FS_CardinalityType
  <1>3. c \in [1..n -> S] BY DEF Orderings
  <1> HIDE DEF n
  <1>4. [i \in 1..n |-> c[i]] \in Seq(S) BY <1>2, <1>3
  <1>5. c = [i \in 1..n |-> c[i]] BY <1>3
  <1>6. c \in Seq(S) BY <1>4, <1>5
  <1> QED BY <1>6, SeqMonotonic DEF Orderings

(* A batch not yet executed is told apart from every result.                *)
LEMMA NoResultType == NoResult.outcome \in Outcome /\ NoResult \notin Result
  BY DataAssumptions
  DEF NoResult, Failed, Outcome, Status, ErrorClass, NoOutput, NoProvider, Result

(* Appending a ledger event keeps the shape of the file.                    *)
LEMMA AppendEventType ==
  ASSUME NEW f \in LedgerFile, NEW e \in LedgerEvent
  PROVE  appendEvent(f, e) \in LedgerFile
  <1>1. Joined(f, e) \in Seq(LedgerEvent) BY DEF Joined, LineOf, Malformed
  <1> QED BY <1>1 DEF appendEvent, LedgerFile

(* A power loss in the middle of an append leaves the terminated lines.     *)
LEMMA TornAppendsType ==
  ASSUME NEW f \in LedgerFile, NEW e \in LedgerEvent, NEW g \in TornAppends(f, e)
  PROVE  g \in LedgerFile /\ g.lines = f.lines
  <1>1. Joined(f, e) \in Seq(LedgerEvent) /\ Malformed \in Seq(LedgerEvent)
    BY DEF Joined, LineOf, Malformed
  <1> QED BY <1>1 DEF TornAppends, LedgerFile

(* What createLedgerEvent builds is a ledger event.                         *)
LEMMA CreateLedgerEventType ==
  ASSUME task \in 1..MaxRuns, NEW type \in LedgerEventType, NEW p \in Provider \cup {NoProvider},
         NEW b \in Batches \cup {NoBatch}, NEW ok \in BOOLEAN
  PROVE  createLedgerEvent(type, p, b, ok) \in LedgerEvent
  BY DEF createLedgerEvent, LedgerEvent

(* The events cmdRun writes.                                                *)
LEMMA EventsWritten ==
  ASSUME TypeOK
  PROVE  /\ \A p \in Provider : TaskRouted(p) \in LedgerEvent
         /\ RouteRecorded \in LedgerEvent
         /\ buildExecutionLedgerEvent(outcome, provider, batch) \in LedgerEvent
         /\ \A b \in Batches : buildQualityScoreEvent(b) \in LedgerEvent
         /\ buildMergeLedgerEvent \in LedgerEvent
         /\ \A v \in BOOLEAN : TraceRecorded(v) \in LedgerEvent
  <1> USE CreateLedgerEventType DEF LedgerEventType, TypeOK
  <1>1. \A p \in Provider : TaskRouted(p) \in LedgerEvent BY DEF TaskRouted
  <1>2. RouteRecorded \in LedgerEvent BY DEF RouteRecorded
  <1>3. buildExecutionLedgerEvent(outcome, provider, batch) \in LedgerEvent
    BY DEF buildExecutionLedgerEvent, Success
  <1>4. ASSUME NEW b \in Batches PROVE buildQualityScoreEvent(b) \in LedgerEvent
    <2>1. results[b].provider \in Provider \cup {NoProvider} BY DEF Result, NoResult
    <2> QED BY <2>1 DEF buildQualityScoreEvent
  <1>5. buildMergeLedgerEvent \in LedgerEvent
    <2>1. (mergeStatus = "CLEAN") \in BOOLEAN OBVIOUS
    <2>2. NoProvider \in Provider \cup {NoProvider} OBVIOUS
    <2>3. mergeStatus \in {"CLEAN", "CONTRADICTIONS_FOUND", "INCOMPLETE"} BY DEF mergeStatus
    <2> QED BY <2>1, <2>2, <2>3 DEF buildMergeLedgerEvent
  <1>6. \A v \in BOOLEAN : TraceRecorded(v) \in LedgerEvent BY DEF TraceRecorded
  <1> QED BY <1>1, <1>2, <1>3, <1>4, <1>5, <1>6

-----------------------------------------------------------------------------
(* Type correctness.                                                        *)

(* There is a first batch and a first run.                                  *)
LEMMA FirstBatch == 1 \in Batches /\ 1 \in 1..MaxRuns
  BY BoundAssumptions DEF Batches

(* A ledger nobody wrote yet has the shape of one.                          *)
LEMMA EmptyFileType == EmptyFile \in LedgerFile
  BY DEF EmptyFile, LedgerFile

(* A crash leaves the terminated lines of the ledger as they were.          *)
LEMMA CrashKeepsLines ==
  ASSUME TypeOK, Crash
  PROVE  file' \in LedgerFile /\ file'.lines = file.lines
  <1>1. EventsBeingWritten \subseteq LedgerEvent
    BY EventsWritten DEF EventsBeingWritten
  <1>2. CASE file' = file BY <1>2 DEF TypeOK
  <1>3. CASE \E e \in EventsBeingWritten : file' \in TornAppends(file, e)
    BY <1>1, <1>3, TornAppendsType DEF TypeOK
  <1> QED BY <1>2, <1>3 DEF Crash

(* The decision is made before it is used: the primary and the chain are    *)
(* providers, all different, from routing on.                               *)
InProgress == {"routed", "executing", "logging", "merged", "tracing", "closing"}

Routed ==
  /\ stage \in InProgress => primary \in Provider
  /\ stage \in {"executing", "logging"} => provider \in Provider
  /\ \A i, j \in DOMAIN chain : chain[i] = chain[j] => i = j
  /\ \A i \in DOMAIN chain : chain[i] # primary

(* The types hold initially.                                                *)
LEMMA TypeInit == Init => TypeOK /\ Routed
  <1> SUFFICES ASSUME Init PROVE TypeOK /\ Routed OBVIOUS
  <1>1. results \in [Batches -> Result \cup {NoResult}] BY DEF Init, NoResults
  <1>2. file \in LedgerFile BY EmptyFileType DEF Init
  <1>3. chain \in Seq(Provider) /\ attempted \in Seq(Provider) BY DEF Init
  <1>4. TypeOK BY <1>1, <1>2, <1>3, FirstBatch, NoResultType DEF Init, TypeOK, Stages
  <1>5. Routed BY DEF Init, Routed, InProgress
  <1> QED BY <1>4, <1>5

(* Every step keeps the types, and the route while there is one.            *)
LEMMA TypeNext == TypeOK /\ Routed /\ [Next]_vars => TypeOK' /\ Routed'
  <1> SUFFICES ASSUME TypeOK, Routed, [Next]_vars PROVE TypeOK' /\ Routed' OBVIOUS
  <1> USE DEF external, loopVars, resultVars, routeVars, End, Stages, InProgress
  <1>1. CASE NoProviders BY <1>1 DEF NoProviders, TypeOK, Routed
  <1>2. ASSUME NEW S \in SUBSET Provider, NEW p \in S, NEW c \in Orderings(S \ {p}),
               decideRoute(p, c)
        PROVE  TypeOK' /\ Routed'
    <2>1. /\ c \in Seq(S \ {p})
          /\ c \in Seq(Provider)
          /\ \A i, j \in DOMAIN c : c[i] = c[j] => i = j
      BY OrderingsType
    <2>2. \A i \in DOMAIN c : c[i] # p BY <2>1
    <2>3. file' \in LedgerFile BY <1>2, AppendEventType, EventsWritten DEF decideRoute, TypeOK
    <2>4. TypeOK' BY <1>2, <2>1, <2>3 DEF decideRoute, TypeOK
    <2>5. Routed' BY <1>2, <2>1, <2>2 DEF decideRoute, Routed
    <2> QED BY <2>4, <2>5
  <1>3. CASE RecordDecision
    <2>1. file' \in LedgerFile
      BY <1>3, AppendEventType, EventsWritten DEF RecordDecision, appendDual, TypeOK
    <2>2. TypeOK' BY FirstBatch, <1>3, <2>1 DEF RecordDecision, appendDual, StartBatch, TypeOK
    <2>3. Routed' BY <1>3 DEF RecordDecision, StartBatch, Routed
    <2> QED BY <2>2, <2>3
  <1>4. ASSUME NEW o \in executeBatch(provider, Failures), Settle(o) PROVE TypeOK' /\ Routed'
    <2>1. attempted' \in Seq(Provider) BY <1>4 DEF Settle, Called, TypeOK, Routed
    <2>2. TypeOK' BY <1>4, <2>1, ExecuteBatchType DEF Settle, Called, TypeOK
    <2>3. Routed' BY <1>4 DEF Settle, Called, Routed
    <2> QED BY <2>2, <2>3
  <1>5. ASSUME NEW o \in executeBatch(provider, Failures), NEW p \in Provider, Reroute(o, p)
        PROVE  TypeOK' /\ Routed'
    <2>1. attempted' \in Seq(Provider) BY <1>5 DEF Reroute, Called, TypeOK, Routed
    <2>2. TypeOK' BY <1>5, <2>1, ExecuteBatchType DEF Reroute, Called, TypeOK
    <2>3. Routed' BY <1>5 DEF Reroute, Called, Routed
    <2> QED BY <2>2, <2>3
  <1>6. CASE LogOutcome
    <2>1. file' \in LedgerFile
      BY <1>6, AppendEventType, EventsWritten DEF LogOutcome, appendDual, TypeOK
    <2>2. [provider |-> provider, outcome |-> outcome] \in Result
      BY <1>6 DEF LogOutcome, Result, TypeOK, Routed
    <2>3. results' \in [Batches -> Result \cup {NoResult}]
      BY <1>6, <2>2 DEF LogOutcome, TypeOK
    <2>4. batch' \in Batches
      BY <1>6, BoundAssumptions DEF LogOutcome, StartBatch, TypeOK, Batches
    <2>5. provider' \in Provider /\ attempted' \in Seq(Provider)
      <3>1. CASE UNCHANGED <<batch, provider, attempted>>
        BY <1>6, <3>1 DEF LogOutcome, TypeOK, Routed
      <3>2. CASE StartBatch(batch + 1)
        BY <1>6, <3>2 DEF LogOutcome, StartBatch, Routed
      <3> QED BY <1>6, <3>1, <3>2 DEF LogOutcome
    <2>6. TypeOK' BY <1>6, <2>1, <2>3, <2>4, <2>5 DEF LogOutcome, TypeOK
    <2>7. Routed' BY <1>6, <2>5 DEF LogOutcome, Routed
    <2> QED BY <2>6, <2>7
  <1>7. ASSUME NEW b \in Batches, ScoreBatch(b) PROVE TypeOK' /\ Routed'
    <2>1. file' \in LedgerFile
      BY <1>7, AppendEventType, EventsWritten DEF ScoreBatch, appendDual, TypeOK
    <2>2. TypeOK' BY <1>7, <2>1 DEF ScoreBatch, TypeOK
    <2>3. Routed' BY <1>7 DEF ScoreBatch, Routed
    <2> QED BY <2>2, <2>3
  <1>8. CASE RecordMerge
    <2>1. file' \in LedgerFile
      BY <1>8, AppendEventType, EventsWritten DEF RecordMerge, appendDual, TypeOK
    <2>2. TypeOK' BY <1>8, <2>1 DEF RecordMerge, TypeOK
    <2>3. Routed' BY <1>8 DEF RecordMerge, Routed
    <2> QED BY <2>2, <2>3
  <1>9. ASSUME NEW v \in BOOLEAN, RecordTrace(v) PROVE TypeOK' /\ Routed'
    <2>1. file' \in LedgerFile
      BY <1>9, AppendEventType, EventsWritten DEF RecordTrace, appendDual, TypeOK
    <2>2. TypeOK' BY <1>9, <2>1 DEF RecordTrace, TypeOK
    <2>3. Routed' BY <1>9 DEF RecordTrace, Routed
    <2> QED BY <2>2, <2>3
  <1>10. CASE Finish BY <1>10 DEF Finish, TypeOK, Routed
  <1>11. ASSUME NEW r \in MirrorResults, MirrorWrite(r) PROVE TypeOK' /\ Routed'
    BY <1>11 DEF MirrorWrite, TypeOK, Routed
  <1>12. CASE LedgerWriteFails BY <1>12 DEF LedgerWriteFails, TypeOK, Routed
  <1>13. CASE Crash
    <2>1. file' \in LedgerFile BY <1>13, CrashKeepsLines
    <2> QED BY <1>13, <2>1 DEF Crash, TypeOK, Routed
  <1>14. CASE NextRun
    <2>1. task' \in 1..MaxRuns BY <1>14, BoundAssumptions DEF NextRun, TypeOK
    <2>2. results' \in [Batches -> Result \cup {NoResult}] BY <1>14 DEF NextRun, NoResults
    <2>3. chain' = <<>> /\ attempted' = <<>> BY <1>14 DEF NextRun
    <2>4. chain' \in Seq(Provider) /\ attempted' \in Seq(Provider) BY <2>3
    <2>5. TypeOK' BY <1>14, <2>1, <2>2, <2>4, FirstBatch, NoResultType DEF NextRun, TypeOK
    <2>6. Routed' BY <1>14, <2>3 DEF NextRun, Routed
    <2> QED BY <2>5, <2>6
  <1>15. CASE UNCHANGED vars BY <1>15 DEF vars, TypeOK, Routed
  <1> QED
    BY <1>1, <1>2, <1>3, <1>4, <1>5, <1>6, <1>7, <1>8, <1>9, <1>10, <1>11, <1>12, <1>13, <1>14,
       <1>15
    DEF Next, Running

(* The types of the run's state, in every reachable state.                  *)
THEOREM TypeCorrect == Spec => []TypeOK
  <1>1. Spec => [](TypeOK /\ Routed) BY TypeInit, TypeNext, PTL DEF Spec
  <1> QED BY <1>1, PTL

-----------------------------------------------------------------------------
(* The retry loop.                                                          *)

(* A step that stays in the same place of the same run.                     *)
LEMMA SamePlan ==
  ASSUME AttemptsFollowChain, UNCHANGED <<stage, primary, chain, provider, attempted>>
  PROVE  AttemptsFollowChain'
  BY DEF AttemptsFollowChain, FollowsPlan, PlannedAttempt

(* A batch starts with the primary.                                         *)
LEMMA StartFollowsPlan ==
  ASSUME TypeOK, Routed, stage' = "executing", provider' = primary, attempted' = <<>>,
         primary \in Provider, UNCHANGED <<primary, chain>>
  PROVE  AttemptsFollowChain'
  <1>1. Append(attempted', provider') = <<primary>> OBVIOUS
  <1>2. Len(chain) \in Nat BY DEF TypeOK
  <1>3. FollowsPlan(Append(attempted, provider))'
    BY <1>1, <1>2 DEF FollowsPlan, PlannedAttempt
  <1> QED BY <1>3 DEF AttemptsFollowChain

(* When the primary and the first k - 1 of the chain have been tried, the   *)
(* fallback picked is the k-th, and when nobody can be picked the chain is  *)
(* exhausted.                                                               *)
LEMMA PicksNext ==
  ASSUME TypeOK, Routed, NEW tried \in Seq(Provider), FollowsPlan(tried)
  PROVE  /\ \A p \in Provider : pickNextFallbackProvider(p, tried) =>
              Len(tried) \in DOMAIN chain /\ p = chain[Len(tried)]
         /\ (\A p \in Provider : ~pickNextFallbackProvider(p, tried)) =>
              ToSet(chain) \subseteq ToSet(tried)
  <1> DEFINE k == Len(tried)
  <1>1. /\ chain \in Seq(Provider) /\ DOMAIN chain = 1..Len(chain) /\ Len(chain) \in Nat
        /\ DOMAIN tried = 1..k /\ k \in Nat \ {0} /\ k <= Len(chain) + 1
    BY DEF TypeOK, FollowsPlan
  <1>2. \A i \in DOMAIN chain : i < k => chain[i] \in ToSet(tried)
    <2> TAKE i \in DOMAIN chain
    <2> HAVE i < k
    <2>1. i + 1 \in 1..k /\ i + 1 # 1 BY <1>1
    <2>2. tried[i + 1] = chain[i] BY <2>1, <1>1 DEF FollowsPlan, PlannedAttempt
    <2> QED BY <2>1, <2>2, <1>1 DEF ToSet
  <1>3. \A i \in DOMAIN chain : i >= k => IsFresh(chain[i], tried)
    <2> TAKE i \in DOMAIN chain
    <2> HAVE i >= k
    <2>1. chain[i] # primary BY DEF Routed
    <2>2. ASSUME NEW j \in 1..k, tried[j] = chain[i] PROVE FALSE
      <3>1. CASE j = 1 BY <3>1, <2>1, <2>2, <1>1 DEF FollowsPlan, PlannedAttempt
      <3>2. CASE j # 1
        <4>1. j - 1 \in DOMAIN chain /\ j - 1 # i BY <3>2, <1>1
        <4>2. tried[j] = chain[j - 1] BY <3>2, <1>1 DEF FollowsPlan, PlannedAttempt
        <4> QED BY <4>1, <4>2, <2>2 DEF Routed
      <3> QED BY <3>1, <3>2
    <2> QED BY <2>1, <2>2, <1>1 DEF IsFresh, ToSet
  <1>4. ASSUME NEW p \in Provider, pickNextFallbackProvider(p, tried)
        PROVE  k \in DOMAIN chain /\ p = chain[k]
    <2>1. PICK i \in DOMAIN chain :
            /\ chain[i] = p
            /\ IsFresh(p, tried)
            /\ \A j \in 1..(i - 1) : ~IsFresh(chain[j], tried)
      BY <1>4 DEF pickNextFallbackProvider
    <2>2. i >= k BY <2>1, <1>1, <1>2 DEF IsFresh
    <2>3. ~(k < i) 
      <3> SUFFICES ASSUME k < i PROVE FALSE OBVIOUS
      <3>1. k \in 1..(i - 1) /\ k \in DOMAIN chain BY <1>1
      <3> QED BY <3>1, <2>1, <1>3, <1>1
    <2>4. i = k BY <2>2, <2>3, <1>1
    <2> QED BY <2>1, <2>4
  <1>5. ASSUME \A p \in Provider : ~pickNextFallbackProvider(p, tried)
        PROVE  ToSet(chain) \subseteq ToSet(tried)
    <2>1. ~(k \in DOMAIN chain)
      <3> SUFFICES ASSUME k \in DOMAIN chain PROVE FALSE OBVIOUS
      <3>1. chain[k] \in Provider BY <1>1
      <3>2. IsFresh(chain[k], tried) BY <1>1, <1>3
      <3>3. \A j \in 1..(k - 1) : ~IsFresh(chain[j], tried) BY <1>1, <1>2 DEF IsFresh
      <3>4. pickNextFallbackProvider(chain[k], tried) BY <3>2, <3>3 DEF pickNextFallbackProvider
      <3> QED BY <3>1, <3>4, <1>5
    <2>2. \A i \in DOMAIN chain : i < k BY <2>1, <1>1
    <2> QED BY <2>2, <1>2 DEF ToSet
  <1> QED BY <1>4, <1>5

(* Every step keeps the retry loop on its chain.                            *)
LEMMA LoopNext ==
  TypeOK /\ Routed /\ AttemptsFollowChain /\ GivesUpOnlyWhenExhausted /\ [Next]_vars
    => AttemptsFollowChain' /\ GivesUpOnlyWhenExhausted'
  <1> SUFFICES ASSUME TypeOK, Routed, AttemptsFollowChain, GivesUpOnlyWhenExhausted, [Next]_vars
               PROVE  AttemptsFollowChain' /\ GivesUpOnlyWhenExhausted'
    OBVIOUS
  <1> DEFINE Elsewhere == stage' \notin {"executing", "logging"}
             Stays == UNCHANGED <<stage, primary, chain, provider, attempted, outcome>>
  <1>1. ASSUME Elsewhere PROVE AttemptsFollowChain' /\ GivesUpOnlyWhenExhausted'
    BY <1>1 DEF AttemptsFollowChain, GivesUpOnlyWhenExhausted
  <1>2. ASSUME Stays PROVE AttemptsFollowChain' /\ GivesUpOnlyWhenExhausted'
    BY <1>2, SamePlan DEF GivesUpOnlyWhenExhausted
  <1> USE DEF external, loopVars, resultVars, routeVars, End
  <1>3. CASE RecordDecision
    <2>1. AttemptsFollowChain'
      BY <1>3, StartFollowsPlan DEF RecordDecision, StartBatch, Routed, InProgress
    <2>2. GivesUpOnlyWhenExhausted' BY <1>3 DEF RecordDecision, GivesUpOnlyWhenExhausted
    <2> QED BY <2>1, <2>2
  <1>4. ASSUME NEW o \in executeBatch(provider, Failures), Settle(o)
        PROVE  AttemptsFollowChain' /\ GivesUpOnlyWhenExhausted'
    <2>1. /\ stage = "executing" /\ stage' = "logging" /\ outcome' = o
          /\ attempted' = Append(attempted, provider)
          /\ UNCHANGED <<primary, chain, provider>>
          /\ Success(o) \/ NoFallback(o, attempted')
      BY <1>4 DEF Settle, Called
    <2>2. FollowsPlan(attempted') BY <2>1 DEF AttemptsFollowChain
    <2>3. attempted' \in Seq(Provider) /\ provider = attempted'[Len(attempted')]
      BY <2>1 DEF TypeOK, Routed
    <2>4. AttemptsFollowChain'
      BY <2>1, <2>2, <2>3 DEF AttemptsFollowChain, FollowsPlan, PlannedAttempt
    <2>5. ASSUME o.status \in {"quota_exceeded", "timeout"}
          PROVE  ToSet(chain) \subseteq ToSet(attempted')
      <3>1. shouldRetryOnFallback(o) /\ ~Success(o) BY <2>5 DEF shouldRetryOnFallback, Success
      <3>2. \A p \in Provider : ~pickNextFallbackProvider(p, attempted')
        BY <3>1, <2>1 DEF NoFallback, decideFallback
      <3> QED BY <3>2, <2>2, <2>3, PicksNext
    <2>6. GivesUpOnlyWhenExhausted' BY <2>1, <2>5 DEF GivesUpOnlyWhenExhausted
    <2> QED BY <2>4, <2>6
  <1>5. ASSUME NEW o \in executeBatch(provider, Failures), NEW p \in Provider, Reroute(o, p)
        PROVE  AttemptsFollowChain' /\ GivesUpOnlyWhenExhausted'
    <2>1. /\ stage = "executing" /\ stage' = "executing" /\ provider' = p
          /\ attempted' = Append(attempted, provider)
          /\ UNCHANGED <<primary, chain>>
          /\ pickNextFallbackProvider(p, attempted')
      BY <1>5 DEF Reroute, Called, decideFallback
    <2>2. FollowsPlan(attempted') BY <2>1 DEF AttemptsFollowChain
    <2>3. attempted' \in Seq(Provider) BY <2>1 DEF TypeOK, Routed
    <2>4. Len(attempted') \in DOMAIN chain /\ p = chain[Len(attempted')]
      BY <2>1, <2>2, <2>3, PicksNext
    <2>5. FollowsPlan(Append(attempted', p))
      BY <2>2, <2>3, <2>4 DEF FollowsPlan, PlannedAttempt, TypeOK
    <2>6. AttemptsFollowChain'
      BY <2>1, <2>5 DEF AttemptsFollowChain, FollowsPlan, PlannedAttempt
    <2>7. GivesUpOnlyWhenExhausted' BY <2>1 DEF GivesUpOnlyWhenExhausted
    <2> QED BY <2>6, <2>7
  <1>6. CASE LogOutcome
    <2>1. CASE stage' = "executing"
      <3>1. /\ provider' = primary /\ attempted' = <<>> /\ primary \in Provider
            /\ UNCHANGED <<primary, chain>>
        BY <1>6, <2>1 DEF LogOutcome, StartBatch, Routed, InProgress
      <3>2. AttemptsFollowChain' BY <2>1, <3>1, StartFollowsPlan
      <3> QED BY <2>1, <3>2 DEF GivesUpOnlyWhenExhausted
    <2>2. CASE stage' = "merged" BY <2>2, <1>1
    <2> QED BY <1>6, <2>1, <2>2 DEF LogOutcome, StartBatch
  <1>7. CASE NoProviders \/ Finish \/ LedgerWriteFails \/ Crash \/ NextRun \/ RecordMerge
    BY <1>1, <1>7 DEF NoProviders, Finish, LedgerWriteFails, Crash, NextRun, RecordMerge
  <1>8. ASSUME NEW p, NEW c, decideRoute(p, c) PROVE Elsewhere BY <1>8 DEF decideRoute
  <1>9. ASSUME NEW b, ScoreBatch(b) PROVE Stays BY <1>9 DEF ScoreBatch
  <1>10. ASSUME NEW v, RecordTrace(v) PROVE Elsewhere BY <1>10 DEF RecordTrace
  <1>11. ASSUME NEW r, MirrorWrite(r) PROVE Stays BY <1>11 DEF MirrorWrite
  <1>12. CASE UNCHANGED vars BY <1>12, <1>2 DEF vars
  <1> QED
    BY <1>1, <1>2, <1>3, <1>4, <1>5, <1>6, <1>7, <1>8, <1>9, <1>10, <1>11, <1>12
    DEF Next, Running

(* executor/index.js:183-197: the providers tried for a batch are the       *)
(* primary and then the fallback chain in order, none skipped, none twice,  *)
(* for chains of any length.                                                *)
THEOREM AttemptsFollowTheChain == Spec => []AttemptsFollowChain
  <1>1. Init => AttemptsFollowChain /\ GivesUpOnlyWhenExhausted
    BY DEF Init, AttemptsFollowChain, GivesUpOnlyWhenExhausted
  <1> QED BY <1>1, TypeInit, TypeNext, LoopNext, PTL DEF Spec

(* policy.js:118-130: a rate limit or a timeout ends a batch only when      *)
(* every provider of its chain has been tried.                              *)
THEOREM GivesUpWhenExhausted == Spec => []GivesUpOnlyWhenExhausted
  <1>1. Init => AttemptsFollowChain /\ GivesUpOnlyWhenExhausted
    BY DEF Init, AttemptsFollowChain, GivesUpOnlyWhenExhausted
  <1> QED BY <1>1, TypeInit, TypeNext, LoopNext, PTL DEF Spec

(* Every retried outcome names a rate limit, a timeout or a connection      *)
(* failure.                                                                 *)
LEMMA RetriedClasses ==
  ASSUME NEW p, NEW o \in executeBatch(p, Failures), shouldRetryOnFallback(o)
  PROVE  o.errorClass \notin {"none", "AuthenticationError", "APIError", "UnknownError"}
  <1>1. CASE \E text \in Output : o = Answered(text)
    BY <1>1 DEF Answered, shouldRetryOnFallback
  <1>2. CASE \E f \in Failures : o = classify(p, f)
    <2>1. PICK f \in Failures : o = classify(p, f) BY <1>2
    <2> USE DEF shouldRetryOnFallback, Failed
    <2>2. CASE o = classifyGeminiError(f) BY <2>2 DEF classifyGeminiError
    <2>3. CASE o = classifyError(f) BY <2>3 DEF classifyError, InstanceOf
    <2> QED BY <2>1, <2>2, <2>3 DEF classify
  <1> QED BY <1>1, <1>2 DEF executeBatch

(* policy.js:125-150: bad credentials and bad content never move a batch to *)
(* another provider.                                                        *)
THEOREM ReroutesOnlyEnvironmental == Spec => RerouteOnlyOnEnvironmental
  <1> DEFINE A == stage = "executing" /\ stage' = "executing" /\ attempted' # attempted =>
                    outcome'.errorClass \notin
                      {"none", "AuthenticationError", "APIError", "UnknownError"}
  <1>1. [Next]_vars => [A]_vars
    <2> SUFFICES ASSUME Next, stage = "executing", stage' = "executing", attempted' # attempted
                 PROVE  outcome'.errorClass \notin
                          {"none", "AuthenticationError", "APIError", "UnknownError"}
      OBVIOUS
    <2>1. \E o \in executeBatch(provider, Failures), p \in Provider : Reroute(o, p)
      BY DEF Next, Running, NoProviders, decideRoute, RecordDecision, Settle, LogOutcome, ScoreBatch,
             RecordMerge, RecordTrace, Finish, MirrorWrite, LedgerWriteFails, Crash, NextRun, End,
             loopVars
    <2>2. PICK o \in executeBatch(provider, Failures), p \in Provider : Reroute(o, p) BY <2>1
    <2>3. outcome' = o /\ shouldRetryOnFallback(o) BY <2>2 DEF Reroute, Called, decideFallback
    <2> QED BY <2>3, RetriedClasses
  <1>2. Spec => [][Next]_vars BY DEF Spec
  <1> QED BY <1>1, <1>2, PTL DEF RerouteOnlyOnEnvironmental

-----------------------------------------------------------------------------
(* The evidence in the ledger and the verdict.                              *)

(* Appending keeps what is recorded, and records the event when no torn     *)
(* line precedes it.                                                        *)
LEMMA AppendKeepsRecords ==
  ASSUME NEW f \in LedgerFile, NEW e, NEW r, Recorded(f, r)
  PROVE  Recorded(appendEvent(f, e), r)
  <1>1. f.lines \in Seq(Seq(LedgerEvent)) BY DEF LedgerFile
  <1>2. PICK i \in DOMAIN f.lines : f.lines[i] = LineOf(r) BY DEF Recorded
  <1>3. i \in DOMAIN Append(f.lines, Joined(f, e)) /\ Append(f.lines, Joined(f, e))[i] = f.lines[i]
    BY <1>1
  <1> QED BY <1>2, <1>3 DEF Recorded, appendEvent

(* An append after a whole line is on record.                               *)
LEMMA AppendRecords ==
  ASSUME NEW f \in LedgerFile, NEW e, f.tail = {}
  PROVE  Recorded(appendEvent(f, e), e)
  <1>1. f.lines \in Seq(Seq(LedgerEvent)) BY DEF LedgerFile
  <1> DEFINE s == Append(f.lines, Joined(f, e))
  <1>2. Len(s) \in DOMAIN s /\ s[Len(s)] = Joined(f, e) BY <1>1
  <1>3. Joined(f, e) = LineOf(e) BY DEF Joined
  <1> QED BY <1>2, <1>3 DEF Recorded, appendEvent

(* The strengthening that makes the two exit-code properties inductive:     *)
(* each piece of evidence, from the step that writes it to the end of the   *)
(* run.                                                                     *)
LogClean == stage \in InProgress => file.tail = {}

DecisionOnRecord ==
  stage \in InProgress \ {"routed"} => Recorded(file, RouteRecorded)

OutcomesOnRecord ==
  \A b \in Batches : results[b] # NoResult =>
    Recorded(file, buildExecutionLedgerEvent(results[b].outcome, results[b].provider, b))

ScoresOnRecord ==
  /\ stage \in {"intake", "routed", "executing", "logging"} => scored = {}
  /\ \A b \in scored : Recorded(file, buildQualityScoreEvent(b))

MergeOnRecord ==
  stage \in {"tracing", "closing"} =>
    parsedBatches \subseteq scored /\ Recorded(file, buildMergeLedgerEvent)

TraceOnRecord == stage = "closing" => Recorded(file, TraceRecorded(verified))

PassOnRecord ==
  PassedRun =>
    /\ ~untrustworthy
    /\ parsedBatches \subseteq scored
    /\ Recorded(file, RouteRecorded)
    /\ Recorded(file, buildMergeLedgerEvent)
    /\ Recorded(file, TraceRecorded(verified))

Evidence ==
  /\ LogClean /\ DecisionOnRecord /\ OutcomesOnRecord /\ ScoresOnRecord
  /\ MergeOnRecord /\ TraceOnRecord /\ PassOnRecord

(* What the evidence is about: while it does not change, neither does what  *)
(* cmdRun computes from it.                                                 *)
Story == <<task, primary, results, verified>>

(* What is written and decided is a function of the story.                  *)
LEMMA StoryDetermines ==
  ASSUME UNCHANGED Story
  PROVE  /\ RouteRecorded' = RouteRecorded
         /\ parsedBatches' = parsedBatches
         /\ mergeStatus' = mergeStatus
         /\ buildMergeLedgerEvent' = buildMergeLedgerEvent
         /\ untrustworthy' = untrustworthy
         /\ TraceRecorded(verified)' = TraceRecorded(verified)
         /\ \A b \in Batches : /\ buildQualityScoreEvent(b)' = buildQualityScoreEvent(b)
                               /\ results'[b] = results[b]
         /\ \A o, p, b : buildExecutionLedgerEvent(o, p, b)' = buildExecutionLedgerEvent(o, p, b)
  <1> USE DEF Story
  <1>1. parsedBatches' = parsedBatches BY DEF parsedBatches
  <1>2. failedBatches' = failedBatches BY <1>1 DEF failedBatches
  <1>3. contradictions' = contradictions BY <1>1 DEF contradictions
  <1>4. mergeStatus' = mergeStatus BY <1>2, <1>3 DEF mergeStatus
  <1>5. buildMergeLedgerEvent' = buildMergeLedgerEvent
    BY <1>4 DEF buildMergeLedgerEvent, createLedgerEvent
  <1>6. untrustworthy' = untrustworthy BY <1>2, <1>4 DEF untrustworthy
  <1>7. RouteRecorded' = RouteRecorded /\ TraceRecorded(verified)' = TraceRecorded(verified)
    BY DEF RouteRecorded, TraceRecorded, createLedgerEvent
  <1>8. \A b \in Batches : buildQualityScoreEvent(b)' = buildQualityScoreEvent(b)
    BY DEF buildQualityScoreEvent, createLedgerEvent
  <1>9. \A o, p, b : buildExecutionLedgerEvent(o, p, b)' = buildExecutionLedgerEvent(o, p, b)
    BY DEF buildExecutionLedgerEvent, createLedgerEvent
  <1> QED BY <1>1, <1>4, <1>5, <1>6, <1>7, <1>8, <1>9

(* The evidence holds initially.                                            *)
LEMMA EvidenceInit == Init => Evidence
  BY DEF Init, Evidence, LogClean, DecisionOnRecord, OutcomesOnRecord, ScoresOnRecord,
         MergeOnRecord, TraceOnRecord, PassOnRecord, PassedRun, NoResults, InProgress, EmptyFile

(* Records are kept by every step, and a step that moves neither the story  *)
(* nor the stage keeps the evidence.                                        *)
KeepsRecords == \A e : Recorded(file, e) => Recorded(file, e)'

(* A step that writes nothing and settles nothing keeps it.                 *)
LEMMA EvidenceKept ==
  ASSUME TypeOK, Evidence, UNCHANGED <<Story, scored>>, KeepsRecords,
         \/ stage' = "crashed" /\ exit' = 1
         \/ stage' = "exited" /\ exit' = 1
         \/ stage' = stage /\ exit' = exit /\ (stage \in InProgress => file'.tail = {})
  PROVE  Evidence'
  <1> USE StoryDetermines DEF Evidence, KeepsRecords
  <1>1. LogClean' BY DEF LogClean, InProgress
  <1>2. DecisionOnRecord' BY DEF DecisionOnRecord, InProgress
  <1>3. OutcomesOnRecord' BY DEF OutcomesOnRecord
  <1>4. ScoresOnRecord' BY DEF ScoresOnRecord, TypeOK
  <1>5. MergeOnRecord' BY DEF MergeOnRecord
  <1>6. TraceOnRecord' BY DEF TraceOnRecord
  <1>7. PassOnRecord' BY DEF PassOnRecord, PassedRun
  <1> QED BY <1>1, <1>2, <1>3, <1>4, <1>5, <1>6, <1>7

(* What one append to the local ledger does.                                *)
LEMMA AppendStep ==
  ASSUME TypeOK, NEW e, file' = appendEvent(file, e)
  PROVE  /\ KeepsRecords
         /\ file'.tail = {}
         /\ file.tail = {} => Recorded(file', e)
  <1>1. file \in LedgerFile BY DEF TypeOK
  <1>2. KeepsRecords BY <1>1, AppendKeepsRecords DEF KeepsRecords, Recorded
  <1>3. file'.tail = {} BY DEF appendEvent
  <1>4. file.tail = {} => Recorded(file', e) BY <1>1, AppendRecords
  <1> QED BY <1>2, <1>3, <1>4

(* Recorded looks at the file only.                                         *)
LEMMA RecordPrime ==
  ASSUME NEW e
  PROVE  Recorded(file, e)' <=> Recorded(file', e)
  BY DEF Recorded

(* Every step keeps the evidence.                                           *)
LEMMA EvidenceNext == TypeOK /\ Routed /\ Evidence /\ [Next]_vars => Evidence'
  <1> SUFFICES ASSUME TypeOK, Routed, Evidence, [Next]_vars PROVE Evidence' OBVIOUS
  <1> USE DEF external, loopVars, resultVars, routeVars, End
  <1> DEFINE Parts == /\ LogClean' /\ DecisionOnRecord' /\ OutcomesOnRecord' /\ ScoresOnRecord'
                      /\ MergeOnRecord' /\ TraceOnRecord' /\ PassOnRecord'
  <1>a. Parts => Evidence' BY DEF Evidence
  <1>b. LogClean /\ DecisionOnRecord /\ OutcomesOnRecord /\ ScoresOnRecord /\ MergeOnRecord
        /\ TraceOnRecord /\ PassOnRecord
    BY DEF Evidence
  <1> HIDE DEF Parts
  <1>c. UNCHANGED file => KeepsRecords BY DEF KeepsRecords, Recorded
  <1>1. CASE NoProviders
    BY <1>1, <1>c, EvidenceKept DEF NoProviders, Story
  <1>2. ASSUME NEW p, NEW c, decideRoute(p, c) PROVE Evidence'
    <2>1. /\ stage = "intake" /\ stage' = "routed" /\ file' = appendEvent(file, TaskRouted(p))
          /\ UNCHANGED <<task, results, scored>>
      BY <1>2 DEF decideRoute
    <2>2. KeepsRecords /\ file'.tail = {} BY <2>1, AppendStep
    <2>3. scored = {} BY <1>b, <2>1 DEF ScoresOnRecord
    <2>4. OutcomesOnRecord'
      BY <1>b, <2>1, <2>2 DEF OutcomesOnRecord, KeepsRecords, buildExecutionLedgerEvent,
                              createLedgerEvent
    <2>5. Parts
      BY <2>1, <2>2, <2>3, <2>4
      DEF Parts, LogClean, DecisionOnRecord, ScoresOnRecord, MergeOnRecord, TraceOnRecord,
          PassOnRecord, PassedRun, InProgress
    <2> QED BY <1>a, <2>5
  <1>3. CASE RecordDecision
    <2>1. /\ stage = "routed" /\ stage' = "executing" /\ file' = appendEvent(file, RouteRecorded)
          /\ UNCHANGED <<Story, scored>>
      BY <1>3 DEF RecordDecision, appendDual, Story
    <2>2. KeepsRecords /\ file'.tail = {} /\ Recorded(file', RouteRecorded)
      BY <1>b, <2>1, AppendStep DEF LogClean, InProgress
    <2>3. DecisionOnRecord'
      BY <2>1, <2>2, RecordPrime, StoryDetermines DEF DecisionOnRecord
    <2>4. OutcomesOnRecord'
      BY <1>b, <2>1, <2>2, StoryDetermines DEF OutcomesOnRecord, KeepsRecords
    <2>5. scored = {} BY <1>b, <2>1 DEF ScoresOnRecord
    <2>6. Parts
      BY <2>1, <2>2, <2>3, <2>4, <2>5
      DEF Parts, LogClean, ScoresOnRecord, MergeOnRecord, TraceOnRecord, PassOnRecord, PassedRun
    <2> QED BY <1>a, <2>6
  <1>4. ASSUME NEW o, Called(o), stage' \in {"executing", "logging"} PROVE Evidence'
    <2>1. /\ stage = "executing" /\ UNCHANGED <<Story, scored, file>>
      BY <1>4 DEF Called, Story
    <2>2. Parts
      BY <1>b, <1>c, <1>4, <2>1, StoryDetermines
      DEF Parts, LogClean, DecisionOnRecord, OutcomesOnRecord, ScoresOnRecord, MergeOnRecord,
          TraceOnRecord, PassOnRecord, PassedRun, KeepsRecords, InProgress
    <2> QED BY <1>a, <2>2
  <1>5. CASE LogOutcome
    <2> DEFINE e == buildExecutionLedgerEvent(outcome, provider, batch)
               r == [provider |-> provider, outcome |-> outcome]
    <2>1. /\ stage = "logging" /\ stage' \in {"executing", "merged"}
          /\ file' = appendEvent(file, e)
          /\ results' = [results EXCEPT ![batch] = r]
          /\ UNCHANGED <<task, primary, scored>>
      BY <1>5 DEF LogOutcome, appendDual, StartBatch
    <2>2. /\ \A o, p, b : buildExecutionLedgerEvent(o, p, b)' = buildExecutionLedgerEvent(o, p, b)
          /\ RouteRecorded' = RouteRecorded
      BY <2>1 DEF buildExecutionLedgerEvent, RouteRecorded, createLedgerEvent
    <2>3. KeepsRecords /\ file'.tail = {} /\ Recorded(file', e)
      BY <1>b, <2>1, AppendStep DEF LogClean, InProgress
    <2>4. OutcomesOnRecord'
      <3> SUFFICES ASSUME NEW b \in Batches, results'[b] # NoResult
                   PROVE  Recorded(file', buildExecutionLedgerEvent(results'[b].outcome,
                                                                    results'[b].provider, b))
        BY <2>2, RecordPrime DEF OutcomesOnRecord
      <3>1. CASE b = batch BY <3>1, <2>1, <2>3 DEF TypeOK
      <3>2. CASE b # batch
        <4>1. results'[b] = results[b] BY <3>2, <2>1 DEF TypeOK
        <4> QED BY <4>1, <1>b, <2>3, RecordPrime DEF OutcomesOnRecord, KeepsRecords
      <3> QED BY <3>1, <3>2
    <2>5. DecisionOnRecord'
      BY <1>b, <2>1, <2>2, <2>3 DEF DecisionOnRecord, KeepsRecords, InProgress
    <2>6. scored' = {} BY <1>b, <2>1 DEF ScoresOnRecord
    <2>7. Parts
      BY <2>1, <2>3, <2>4, <2>5, <2>6
      DEF Parts, LogClean, ScoresOnRecord, MergeOnRecord, TraceOnRecord, PassOnRecord, PassedRun
    <2> QED BY <1>a, <2>7
  <1>6. ASSUME NEW b \in Batches, ScoreBatch(b) PROVE Evidence'
    <2>1. /\ stage = "merged" /\ stage' = "merged"
          /\ file' = appendEvent(file, buildQualityScoreEvent(b))
          /\ scored' = scored \cup {b}
          /\ UNCHANGED Story
      BY <1>6 DEF ScoreBatch, appendDual, Story
    <2>2. KeepsRecords /\ file'.tail = {} /\ Recorded(file', buildQualityScoreEvent(b))
      BY <1>b, <2>1, AppendStep DEF LogClean, InProgress
    <2>3. ScoresOnRecord'
      BY <1>b, <2>1, <2>2, RecordPrime, StoryDetermines DEF ScoresOnRecord, KeepsRecords, TypeOK
    <2>4. DecisionOnRecord' /\ OutcomesOnRecord'
      BY <1>b, <2>1, <2>2, StoryDetermines
      DEF DecisionOnRecord, OutcomesOnRecord, KeepsRecords, InProgress
    <2>5. Parts
      BY <2>1, <2>2, <2>3, <2>4
      DEF Parts, LogClean, MergeOnRecord, TraceOnRecord, PassOnRecord, PassedRun
    <2> QED BY <1>a, <2>5
  <1>7. CASE RecordMerge
    <2>1. /\ stage = "merged" /\ stage' = "tracing" /\ parsedBatches \subseteq scored
          /\ file' = appendEvent(file, buildMergeLedgerEvent)
          /\ UNCHANGED <<Story, scored>>
      BY <1>7 DEF RecordMerge, appendDual, Story
    <2>2. KeepsRecords /\ file'.tail = {} /\ Recorded(file', buildMergeLedgerEvent)
      BY <1>b, <2>1, AppendStep DEF LogClean, InProgress
    <2>3. MergeOnRecord'
      BY <2>1, <2>2, RecordPrime, StoryDetermines DEF MergeOnRecord
    <2>4. DecisionOnRecord' /\ OutcomesOnRecord' /\ ScoresOnRecord'
      BY <1>b, <2>1, <2>2, StoryDetermines
      DEF DecisionOnRecord, OutcomesOnRecord, ScoresOnRecord, KeepsRecords, InProgress, TypeOK
    <2>5. Parts
      BY <2>1, <2>2, <2>3, <2>4 DEF Parts, LogClean, TraceOnRecord, PassOnRecord, PassedRun
    <2> QED BY <1>a, <2>5
  <1>8. ASSUME NEW v \in BOOLEAN, RecordTrace(v) PROVE Evidence'
    <2>1. /\ stage = "tracing" /\ stage' = "closing" /\ verified' = v
          /\ file' = appendEvent(file, TraceRecorded(v))
          /\ UNCHANGED <<task, primary, results, scored>>
      BY <1>8 DEF RecordTrace, appendDual
    <2>2. KeepsRecords /\ file'.tail = {} /\ Recorded(file', TraceRecorded(v))
      BY <1>b, <2>1, AppendStep DEF LogClean, InProgress
    <2>3. /\ TraceRecorded(verified)' = TraceRecorded(v)
          /\ RouteRecorded' = RouteRecorded
          /\ parsedBatches' = parsedBatches
          /\ buildMergeLedgerEvent' = buildMergeLedgerEvent
          /\ \A b \in Batches : buildQualityScoreEvent(b)' = buildQualityScoreEvent(b)
          /\ \A o, p, b : buildExecutionLedgerEvent(o, p, b)' = buildExecutionLedgerEvent(o, p, b)
      BY <2>1
      DEF TraceRecorded, RouteRecorded, parsedBatches, failedBatches, contradictions, mergeStatus,
          buildMergeLedgerEvent, buildQualityScoreEvent, buildExecutionLedgerEvent,
          createLedgerEvent
    <2>4. TraceOnRecord' BY <2>1, <2>2, <2>3, RecordPrime DEF TraceOnRecord
    <2>5. DecisionOnRecord' /\ OutcomesOnRecord' /\ ScoresOnRecord' /\ MergeOnRecord'
      BY <1>b, <2>1, <2>2, <2>3
      DEF DecisionOnRecord, OutcomesOnRecord, ScoresOnRecord, MergeOnRecord, KeepsRecords,
          InProgress, TypeOK
    <2>6. Parts BY <2>1, <2>2, <2>4, <2>5 DEF Parts, LogClean, PassOnRecord, PassedRun
    <2> QED BY <1>a, <2>6
  <1>9. CASE Finish
    <2>1. /\ stage = "closing" /\ stage' = "exited"
          /\ exit' = (IF untrustworthy THEN 1 ELSE 0)
          /\ UNCHANGED <<Story, scored, file>>
      BY <1>9 DEF Finish, Story
    <2>2. KeepsRecords BY <2>1, <1>c
    <2>3. CASE untrustworthy BY <2>1, <2>2, <2>3, EvidenceKept
    <2>4. CASE ~untrustworthy
      <3>1. /\ Recorded(file, RouteRecorded)
            /\ parsedBatches \subseteq scored
            /\ Recorded(file, buildMergeLedgerEvent)
            /\ Recorded(file, TraceRecorded(verified))
        BY <1>b, <2>1 DEF DecisionOnRecord, MergeOnRecord, TraceOnRecord, InProgress
      <3>2. PassOnRecord'
        BY <2>1, <2>2, <2>4, <3>1, StoryDetermines DEF PassOnRecord, KeepsRecords
      <3>3. OutcomesOnRecord' /\ ScoresOnRecord'
        BY <1>b, <2>1, <2>2, StoryDetermines
        DEF OutcomesOnRecord, ScoresOnRecord, KeepsRecords, TypeOK
      <3>4. Parts
        BY <2>1, <3>2, <3>3
        DEF Parts, LogClean, DecisionOnRecord, MergeOnRecord, TraceOnRecord, InProgress
      <3> QED BY <1>a, <3>4
    <2> QED BY <2>3, <2>4
  <1>10. ASSUME NEW r, MirrorWrite(r) PROVE Evidence'
    BY <1>10, <1>b, <1>c, EvidenceKept DEF MirrorWrite, Story, LogClean
  <1>11. CASE LedgerWriteFails
    BY <1>11, <1>c, EvidenceKept DEF LedgerWriteFails, Story
  <1>12. CASE Crash
    <2>1. KeepsRecords BY <1>12, CrashKeepsLines DEF KeepsRecords, Recorded
    <2> QED BY <1>12, <2>1, EvidenceKept DEF Crash, Story
  <1>13. CASE NextRun
    <2>1. stage' = "intake" /\ scored' = {} /\ \A b \in Batches : results'[b] = NoResult
      BY <1>13 DEF NextRun, NoResults
    <2>2. Parts
      BY <2>1
      DEF Parts, LogClean, DecisionOnRecord, OutcomesOnRecord, ScoresOnRecord, MergeOnRecord,
          TraceOnRecord, PassOnRecord, PassedRun, InProgress
    <2> QED BY <1>a, <2>2
  <1>14. CASE UNCHANGED vars
    BY <1>14, <1>b, <1>c, EvidenceKept DEF vars, Story, LogClean
  <1>15. ASSUME NEW o, NEW p, Settle(o) \/ Reroute(o, p) PROVE Evidence'
    <2>1. Called(o) /\ stage' \in {"executing", "logging"}
      BY <1>15 DEF Settle, Reroute, Called
    <2> QED BY <2>1, <1>4
  <1> QED
    BY <1>1, <1>2, <1>3, <1>5, <1>6, <1>7, <1>8, <1>9, <1>10, <1>11, <1>12, <1>13, <1>14, <1>15
    DEF Next, Running

(* The inductive invariant holds in every reachable state.                  *)
LEMMA EvidenceInvariant == Spec => [](TypeOK /\ Routed /\ Evidence)
  BY TypeInit, TypeNext, EvidenceInit, EvidenceNext, PTL DEF Spec

(* A run whose verdict is clean has a usable result for every batch.        *)
LEMMA CleanMeansUsable ==
  ASSUME TypeOK, ~untrustworthy
  PROVE  /\ parsedBatches = Batches
         /\ \A b \in Batches : UsableResult(b) /\ results[b] # NoResult /\ Success(results[b].outcome)
         /\ \A b, c \in Batches :
              b # c => {results[b].outcome.output, results[c].outcome.output} \notin Conflicts
         /\ verified /\ mergeStatus = "CLEAN"
  <1>1. failedBatches = {} /\ contradictions = {} /\ verified /\ mergeStatus = "CLEAN"
    BY DEF untrustworthy, mergeStatus
  <1>2. parsedBatches = Batches BY <1>1 DEF failedBatches, parsedBatches
  <1>3. ASSUME NEW b \in Batches
        PROVE  UsableResult(b) /\ results[b] # NoResult /\ Success(results[b].outcome)
    <2>1. Success(results[b].outcome) /\ parseEnvelope(results[b].outcome)
      BY <1>2 DEF parsedBatches
    <2>2. results[b] # NoResult BY <2>1 DEF Success, NoResult, Failed
    <2>3. results[b] \in Result BY <2>2 DEF TypeOK
    <2> QED BY <2>1, <2>2, <2>3 DEF UsableResult, Success, parseEnvelope, Result
  <1>4. ASSUME NEW b \in Batches, NEW c \in Batches, b # c
        PROVE  {results[b].outcome.output, results[c].outcome.output} \notin Conflicts
    <2>1. b < c \/ c < b BY <1>4, BoundAssumptions DEF Batches
    <2>2. \A i, j \in Batches : i < j =>
            {results[i].outcome.output, results[j].outcome.output} \notin Conflicts
      <3> SUFFICES ASSUME NEW i \in Batches, NEW j \in Batches, i < j
                   PROVE  {results[i].outcome.output, results[j].outcome.output} \notin Conflicts
        OBVIOUS
      <3>1. <<i, j>> \in parsedBatches \X parsedBatches BY <1>2
      <3> QED BY <3>1, <1>1 DEF contradictions
    <2>3. {results[b].outcome.output, results[c].outcome.output}
            = {results[c].outcome.output, results[b].outcome.output}
      OBVIOUS
    <2> QED BY <2>1, <2>2, <2>3
  <1> QED BY <1>1, <1>2, <1>3, <1>4

(* quorum.js:741-762: exit code 0 only for a run whose every batch came     *)
(* back usable, uncontradicted, under a trace that verifies.                *)
THEOREM ExitZeroTrustworthy == Spec => []ExitZeroIsTrustworthy
  <1>1. TypeOK /\ Routed /\ Evidence => ExitZeroIsTrustworthy
    BY CleanMeansUsable DEF Evidence, PassOnRecord, ExitZeroIsTrustworthy
  <1> QED BY <1>1, EvidenceInvariant, PTL

(* quorum.js:544-550: exit code 0 leaves the whole story of the run in the  *)
(* local ledger, readable, whatever crashed before and whatever the mirror  *)
(* did.                                                                     *)
THEOREM ExitZeroEvidence == Spec => []ExitZeroLeavesEvidence
  <1>1. ASSUME TypeOK, Evidence, PassedRun PROVE ExitZeroLeavesEvidence
    <2>1. /\ ~untrustworthy /\ parsedBatches \subseteq scored
          /\ Recorded(file, RouteRecorded)
          /\ Recorded(file, buildMergeLedgerEvent)
          /\ Recorded(file, TraceRecorded(verified))
      BY <1>1 DEF Evidence, PassOnRecord
    <2>2. ASSUME NEW b \in Batches
          PROVE  /\ Recorded(file, createLedgerEvent("task-completed", results[b].provider, b, TRUE))
                 /\ Recorded(file, createLedgerEvent("batch-quality-scored", results[b].provider, b,
                                                     TRUE))
      <3>1. results[b] # NoResult /\ Success(results[b].outcome) /\ b \in scored
        BY <1>1, <2>1, CleanMeansUsable
      <3>2. Recorded(file, buildExecutionLedgerEvent(results[b].outcome, results[b].provider, b))
        BY <1>1, <3>1 DEF Evidence, OutcomesOnRecord
      <3>3. Recorded(file, buildQualityScoreEvent(b))
        BY <1>1, <3>1 DEF Evidence, ScoresOnRecord
      <3>4. buildExecutionLedgerEvent(results[b].outcome, results[b].provider, b)
              = createLedgerEvent("task-completed", results[b].provider, b, TRUE)
        BY <3>1 DEF buildExecutionLedgerEvent, Success
      <3> QED BY <3>2, <3>3, <3>4 DEF buildQualityScoreEvent
    <2>3. mergeStatus = "CLEAN" /\ verified BY <1>1, <2>1, CleanMeansUsable
    <2>4. buildMergeLedgerEvent = createLedgerEvent("merge-completed", NoProvider, NoBatch, TRUE)
      BY <2>3 DEF buildMergeLedgerEvent
    <2>5. TraceRecorded(verified)
            = createLedgerEvent("execution-trace-recorded", primary, NoBatch, TRUE)
      BY <1>1, <2>3 DEF TraceRecorded, TypeOK
    <2> QED BY <2>1, <2>2, <2>4, <2>5 DEF ExitZeroLeavesEvidence
  <1>2. TypeOK /\ Routed /\ Evidence => ExitZeroLeavesEvidence
    BY <1>1 DEF ExitZeroLeavesEvidence
  <1> QED BY <1>2, EvidenceInvariant, PTL

-----------------------------------------------------------------------------
(* The run implements the abstract verdict.                                 *)

(* The batches still to be executed have no result.                         *)
Unsettled ==
  /\ stage \in {"intake", "routed"} => results = NoResults
  /\ stage \in {"executing", "logging"} => \A b \in Batches : b >= batch => results[b] = NoResult

(* A batch the loop has not reached has no result.                          *)
LEMMA UnsettledNext == TypeOK /\ Unsettled /\ [Next]_vars => Unsettled'
  <1> SUFFICES ASSUME TypeOK, Unsettled, [Next]_vars PROVE Unsettled' OBVIOUS
  <1> USE DEF external, loopVars, resultVars, routeVars, End
  <1>1. CASE stage' \notin {"intake", "routed", "executing", "logging"} BY <1>1 DEF Unsettled
  <1>2. CASE UNCHANGED <<stage, results, batch>> BY <1>2 DEF Unsettled
  <1>3. CASE LogOutcome
    <2>1. CASE stage' = "executing"
      <3>1. /\ stage = "logging" /\ batch' = batch + 1
            /\ results' = [results EXCEPT ![batch] = [provider |-> provider, outcome |-> outcome]]
        BY <1>3, <2>1 DEF LogOutcome, StartBatch
      <3>2. ASSUME NEW b \in Batches, b >= batch + 1 PROVE results'[b] = NoResult
        BY <3>1, <3>2, BoundAssumptions DEF Unsettled, TypeOK, Batches
      <3> QED BY <2>1, <3>1, <3>2 DEF Unsettled
    <2>2. CASE stage' = "merged" BY <1>1, <2>2
    <2> QED BY <1>3, <2>1, <2>2 DEF LogOutcome, StartBatch
  <1>4. CASE RecordDecision
    <2>1. stage = "routed" /\ stage' = "executing" /\ UNCHANGED results
      BY <1>4 DEF RecordDecision
    <2> QED BY <2>1 DEF Unsettled, NoResults
  <1>5. CASE NextRun BY <1>5 DEF NextRun, Unsettled, NoResults
  <1>6. ASSUME NEW p, NEW c, decideRoute(p, c) PROVE Unsettled'
    BY <1>6 DEF decideRoute, Unsettled
  <1>7. ASSUME NEW o, Called(o), stage' \in {"executing", "logging"} PROVE Unsettled'
    BY <1>7 DEF Called, Unsettled
  <1>8. ASSUME NEW o, NEW p, Settle(o) \/ Reroute(o, p) PROVE Unsettled'
    <2>1. Called(o) /\ stage' \in {"executing", "logging"}
      BY <1>8 DEF Settle, Reroute, Called
    <2> QED BY <2>1, <1>7
  <1>9. CASE NoProviders \/ RecordMerge \/ Finish \/ LedgerWriteFails \/ Crash
    BY <1>1, <1>9 DEF NoProviders, RecordMerge, Finish, LedgerWriteFails, Crash
  <1>10. ASSUME NEW b, ScoreBatch(b) PROVE Unsettled' BY <1>2, <1>10 DEF ScoreBatch
  <1>11. ASSUME NEW v, RecordTrace(v) PROVE Unsettled' BY <1>1, <1>11 DEF RecordTrace
  <1>12. ASSUME NEW r, MirrorWrite(r) PROVE Unsettled' BY <1>2, <1>12 DEF MirrorWrite
  <1>13. CASE UNCHANGED vars BY <1>2, <1>13 DEF vars
  <1> QED
    BY <1>3, <1>4, <1>5, <1>6, <1>8, <1>9, <1>10, <1>11, <1>12, <1>13 DEF Next, Running

settledBatches == {b \in Batches : results[b] # NoResult}
usableBatches == {b \in Batches : UsableResult(b)}
verdictOfRun == IF PassedRun THEN "pass" ELSE IF Ended THEN "fail" ELSE "open"

(* A batch without a result is not usable.                                  *)
LEMMA NoResultUnusable ==
  ASSUME NEW b, results[b] = NoResult
  PROVE  ~UsableResult(b)
  BY DEF UsableResult, NoResult, Failed

(* Every step of the run is a step of the abstract verdict or a stutter.    *)
LEMMA VerdictStep ==
  ASSUME TypeOK, Routed, Evidence, Unsettled, [Next]_vars
  PROVE  [Verdict!Next]_(Verdict!vars)
  <1> USE DEF external, loopVars, resultVars, routeVars, End
  <1> DEFINE Batched == settledBatches' = settledBatches /\ usableBatches' = usableBatches
  <1>1. UNCHANGED results => Batched BY DEF settledBatches, usableBatches, UsableResult
  <1>2. ASSUME Batched, stage \notin {"exited", "crashed"}, stage' \notin {"exited", "crashed"}
        PROVE  UNCHANGED Verdict!vars
    BY <1>2 DEF Verdict!vars, settledBatches, usableBatches, PassedRun, Ended
  <1>3. ASSUME Batched, stage \notin {"exited", "crashed"}, stage' \in {"exited", "crashed"},
               exit' = 1
        PROVE  Verdict!Fail
    BY <1>3 DEF Verdict!Fail, settledBatches, usableBatches, PassedRun, Ended
  <1>4. CASE LogOutcome
    <2> DEFINE r == [provider |-> provider, outcome |-> outcome]
    <2>1. /\ stage = "logging" /\ stage' \in {"executing", "merged"}
          /\ results' = [results EXCEPT ![batch] = r]
      BY <1>4 DEF LogOutcome, StartBatch
    <2>2. batch \in Batches /\ results[batch] = NoResult
      BY <2>1, BoundAssumptions DEF Unsettled, TypeOK, Batches
    <2>3. r # NoResult BY <2>1, DataAssumptions DEF Routed, NoResult, NoProvider
    <2>4. settledBatches' = settledBatches \cup {batch}
      BY <2>1, <2>2, <2>3 DEF settledBatches, TypeOK
    <2>5. usableBatches' \in {usableBatches, usableBatches \cup {batch}}
      <3>1. \A b \in Batches \ {batch} : UsableResult(b)' <=> UsableResult(b)
        BY <2>1 DEF UsableResult, TypeOK
      <3>2. ~UsableResult(batch) BY <2>2, NoResultUnusable
      <3> QED BY <2>2, <3>1, <3>2 DEF usableBatches
    <2>6. batch \notin settledBatches BY <2>2 DEF settledBatches
    <2>7. PICK b \in Batches : b = batch BY <2>2
    <2>8. Verdict!SettleBatch(b)
      BY <2>1, <2>4, <2>5, <2>6, <2>7
      DEF Verdict!SettleBatch, settledBatches, usableBatches, PassedRun, Ended
    <2> QED BY <2>8 DEF Verdict!Next
  <1>5. CASE Finish
    <2>1. stage = "closing" /\ stage' = "exited" /\ UNCHANGED <<results, verified>>
      BY <1>5 DEF Finish
    <2>2. CASE untrustworthy BY <1>1, <1>3, <1>5, <2>1, <2>2 DEF Finish, Verdict!Next
    <2>3. CASE ~untrustworthy
      <3>1. settledBatches = Batches /\ usableBatches = Batches
        BY <2>3, CleanMeansUsable DEF settledBatches, usableBatches
      <3>2. exit' = 0 BY <1>5, <2>3 DEF Finish
      <3>3. Verdict!Pass
        BY <1>1, <2>1, <3>1, <3>2
        DEF Verdict!Pass, settledBatches, usableBatches, PassedRun, Ended
      <3> QED BY <3>3 DEF Verdict!Next
    <2> QED BY <2>2, <2>3
  <1>6. CASE NextRun
    <2>1. /\ stage \in {"exited", "crashed"} /\ stage' = "intake"
          /\ \A b \in Batches : results'[b] = NoResult
      BY <1>6 DEF NextRun, NoResults, Ended
    <2>2. settledBatches' = {} /\ usableBatches' = {}
      BY <2>1 DEF settledBatches, usableBatches, UsableResult, NoResult, Failed
    <2>3. Verdict!NewRun
      BY <2>1, <2>2 DEF Verdict!NewRun, settledBatches, usableBatches, PassedRun, Ended
    <2> QED BY <2>3 DEF Verdict!Next
  <1>7. CASE NoProviders \/ LedgerWriteFails \/ Crash
    <2>1. stage \notin {"exited", "crashed"}
      BY <1>7 DEF NoProviders, LedgerWriteFails, Crash, Ended, EventsBeingWritten
    <2>2. stage' \in {"exited", "crashed"} /\ exit' = 1 /\ UNCHANGED results
      BY <1>7 DEF NoProviders, LedgerWriteFails, Crash
    <2> QED BY <1>1, <1>3, <2>1, <2>2 DEF Verdict!Next
  <1>8. ASSUME stage \notin {"exited", "crashed"}, stage' \notin {"exited", "crashed"},
               UNCHANGED results
        PROVE  UNCHANGED Verdict!vars
    BY <1>1, <1>2, <1>8
  <1>9. ASSUME NEW p, NEW c, decideRoute(p, c) PROVE UNCHANGED Verdict!vars
    BY <1>8, <1>9 DEF decideRoute
  <1>10. ASSUME NEW o, NEW p, Settle(o) \/ Reroute(o, p) PROVE UNCHANGED Verdict!vars
    BY <1>8, <1>10 DEF Settle, Reroute, Called
  <1>11. ASSUME NEW b, ScoreBatch(b) PROVE UNCHANGED Verdict!vars BY <1>8, <1>11 DEF ScoreBatch
  <1>12. ASSUME NEW v, RecordTrace(v) PROVE UNCHANGED Verdict!vars BY <1>8, <1>12 DEF RecordTrace
  <1>13. CASE RecordDecision \/ RecordMerge BY <1>8, <1>13 DEF RecordDecision, RecordMerge
  <1>14. ASSUME UNCHANGED <<stage, exit, results>> PROVE UNCHANGED Verdict!vars
    BY <1>1, <1>14 DEF Verdict!vars, settledBatches, usableBatches, PassedRun, Ended
  <1>15. ASSUME NEW r, MirrorWrite(r) PROVE UNCHANGED Verdict!vars BY <1>14, <1>15 DEF MirrorWrite
  <1>16. CASE UNCHANGED vars BY <1>14, <1>16 DEF vars
  <1> QED
    BY <1>4, <1>5, <1>6, <1>7, <1>9, <1>10, <1>11, <1>12, <1>13, <1>15, <1>16 DEF Next, Running

(* Every behaviour of cmdRun, crashes and restarts included, is one of the  *)
(* abstract verdict: a pass only after every batch of the plan has settled  *)
(* as usable, and never revised.                                            *)
THEOREM RunImplementsVerdict == Spec => ImplementsVerdict
  <1>1. Init => Verdict!Init
    BY NoResultUnusable DEF Init, Verdict!Init, PassedRun, Ended, NoResults
  <1>2. Init => Unsettled BY DEF Init, Unsettled
  <1> QED
    BY <1>1, <1>2, TypeInit, TypeNext, EvidenceInit, EvidenceNext, UnsettledNext, VerdictStep, PTL
    DEF Spec, ImplementsVerdict, Verdict!Spec

-----------------------------------------------------------------------------
(* What a reader of the ledger and of the mirror sees.                      *)

FileShape == file \in FilesOf(LedgerEvent)

(* An event the pipeline is past: of an earlier run, or of a place in the   *)
(* story of this run that comes before what this stage writes.              *)
Written(e) ==
  \/ e.task < task
  \/ /\ e.task = task
     /\ stage # "intake"
     /\ stage = "routed" => Rank(e.type) <= 1
     /\ stage \in {"executing", "logging"} =>
          Rank(e.type) <= 2 \/ (Rank(e.type) = 3 /\ e.batch < batch)
     /\ stage = "merged" => Rank(e.type) <= 3 \/ (Rank(e.type) = 4 /\ e.batch \in scored)
     /\ stage = "tracing" => Rank(e.type) <= 5

StorySoFar == InOrder(readEvents(file)) /\ \A e \in ToSet(readEvents(file)) : Written(e)

(* The scores written are those of the first batches to score.              *)
ScoredInOrder == \A c \in scored : \A b \in parsedBatches \ scored : c < b

(* The mirror, with the insert in flight, copies terminated lines.          *)
MirrorSoFar ==
  /\ mirror \in Seq(LedgerEvent)
  /\ pending = <<>> \/ \E e \in LedgerEvent : pending = <<e>>
  /\ InOrder(mirror \o pending)
  /\ \A e \in ToSet(mirror \o pending) :
       e \in ToSet(FlattenSeq(file.lines)) /\ e.type # "task-routed"

(* Every event has a place in the story.                                    *)
LEMMA RankType == \A e \in LedgerEvent : Rank(e.type) \in 1..6
  BY DEF Rank, LedgerEvent, LedgerEventType

(* An event a stage may write comes after every event the run is past.      *)
LEMMA NextEventIsLater ==
  ASSUME TypeOK, ScoredInOrder, NEW e \in LedgerEvent, Written(e), NEW x \in EventsBeingWritten
  PROVE  Before(e, x)
  <1> USE DEF createLedgerEvent
  <1>1. /\ task \in Nat /\ e.task \in Nat /\ batch \in Nat /\ e.batch \in Nat
        /\ Rank(e.type) \in 1..6
    <2>1. e.task \in 1..MaxRuns /\ e.batch \in Batches \cup {NoBatch} BY DEF LedgerEvent
    <2>2. task \in 1..MaxRuns /\ batch \in Batches BY DEF TypeOK
    <2> QED BY <2>1, <2>2, RankType, BoundAssumptions DEF Batches, NoBatch
  <1>2. CASE e.task < task
    <2>1. x.task = task
      BY DEF EventsBeingWritten, TaskRouted, RouteRecorded, buildExecutionLedgerEvent,
             buildQualityScoreEvent, buildMergeLedgerEvent, TraceRecorded
    <2> QED BY <1>2, <2>1 DEF Before
  <1>3. CASE ~(e.task < task)
    <2>1. e.task = task /\ stage # "intake" BY <1>3 DEF Written
    <2>2. CASE stage = "routed"
      <3>1. x.task = task /\ Rank(x.type) = 2 BY <2>2 DEF EventsBeingWritten, RouteRecorded, Rank
      <3>2. Rank(e.type) <= 1 BY <1>3, <2>2 DEF Written
      <3> QED BY <1>1, <2>1, <3>1, <3>2 DEF Before
    <2>3. CASE stage = "logging"
      <3>1. x.task = task /\ Rank(x.type) = 3 /\ x.batch = batch
        BY <2>3 DEF EventsBeingWritten, buildExecutionLedgerEvent, Rank
      <3>2. Rank(e.type) <= 2 \/ (Rank(e.type) = 3 /\ e.batch < batch) BY <1>3, <2>3 DEF Written
      <3> QED BY <1>1, <2>1, <3>1, <3>2 DEF Before
    <2>4. CASE stage = "merged"
      <3>1. Rank(e.type) <= 3 \/ (Rank(e.type) = 4 /\ e.batch \in scored)
        BY <1>3, <2>4 DEF Written
      <3>2. CASE parsedBatches \subseteq scored
        <4>1. x = buildMergeLedgerEvent BY <2>4, <3>2 DEF EventsBeingWritten
        <4>2. x.task = task /\ Rank(x.type) = 5 BY <4>1 DEF buildMergeLedgerEvent, Rank
        <4> QED BY <1>1, <2>1, <3>1, <4>2 DEF Before
      <3>3. CASE ~(parsedBatches \subseteq scored)
        <4>1. PICK b \in Batches : NextToScore(b) /\ x = buildQualityScoreEvent(b)
          BY <2>4, <3>3 DEF EventsBeingWritten
        <4>2. x.task = task /\ Rank(x.type) = 4 /\ x.batch = b
          BY <4>1 DEF buildQualityScoreEvent, Rank
        <4>3. e.batch \in scored => e.batch < b BY <4>1 DEF ScoredInOrder, NextToScore
        <4> QED BY <1>1, <2>1, <3>1, <4>2, <4>3 DEF Before
      <3> QED BY <3>2, <3>3
    <2>5. CASE stage = "tracing"
      <3>1. x.task = task /\ Rank(x.type) = 6 BY <2>5 DEF EventsBeingWritten, TraceRecorded, Rank
      <3>2. Rank(e.type) <= 5 BY <1>3, <2>5 DEF Written
      <3> QED BY <1>1, <2>1, <3>1, <3>2 DEF Before
    <2> QED BY <2>1, <2>2, <2>3, <2>4, <2>5 DEF EventsBeingWritten
  <1> QED BY <1>2, <1>3

(* A sequence in order stays so when its end is lost, and when what comes   *)
(* after all of it is appended.                                             *)
LEMMA InOrderGrows ==
  ASSUME NEW s \in Seq(LedgerEvent), InOrder(s), NEW x \in LedgerEvent,
         \A e \in ToSet(s) : Before(e, x)
  PROVE  InOrder(Append(s, x)) /\ ToSet(Append(s, x)) = ToSet(s) \cup {x}
  <1> DEFINE t == Append(s, x)
             n == Len(s)
  <1>1. /\ n \in Nat /\ DOMAIN s = 1..n /\ DOMAIN t = 1..(n + 1)
        /\ t[n + 1] = x /\ \A i \in 1..n : t[i] = s[i]
    OBVIOUS
  <1> HIDE DEF n, t
  <1>2. ASSUME NEW i \in DOMAIN t, NEW j \in DOMAIN t, i < j PROVE Before(t[i], t[j])
    <2>1. i \in 1..n /\ s[i] \in ToSet(s) BY <1>1, <1>2 DEF ToSet
    <2>2. CASE j = n + 1 BY <1>1, <2>1, <2>2
    <2>3. CASE j # n + 1
      <3>1. j \in 1..n BY <1>1, <2>3
      <3> QED BY <1>1, <1>2, <2>1, <3>1 DEF InOrder
    <2> QED BY <2>2, <2>3
  <1>3. InOrder(t) BY <1>2 DEF InOrder
  <1>4. ToSet(t) = ToSet(s) \cup {x} BY ToSetAppend DEF t
  <1> QED BY <1>3, <1>4 DEF t

LEMMA InOrderCut ==
  ASSUME NEW s \in Seq(LedgerEvent), s # <<>>, InOrder(s)
  PROVE  InOrder(WithoutLast(s)) /\ ToSet(WithoutLast(s)) \subseteq ToSet(s)
  BY ToSetWithoutLast DEF InOrder

(* What is written in a stage, whole or torn, keeps the story in order.     *)
LEMMA WritingKeepsOrder ==
  ASSUME TypeOK, FileShape, StorySoFar, ScoredInOrder,
         NEW x \in EventsBeingWritten,
         file' \in {appendEvent(file, x)} \cup TornAppends(file, x)
  PROVE  /\ FileShape' /\ InOrder(readEvents(file'))
         /\ ToSet(readEvents(file')) \subseteq ToSet(readEvents(file)) \cup {x}
  <1> DEFINE s == readEvents(file)
  <1>1. x \in LedgerEvent BY EventsWritten DEF EventsBeingWritten
  <1>2. s \in Seq(LedgerEvent) BY ReadEventsIs DEF FileShape
  <1>3. /\ file' \in FilesOf(LedgerEvent)
        /\ \/ readEvents(file') = s
           \/ readEvents(file') = Append(s, x)
           \/ s # <<>> /\ readEvents(file') = WithoutLast(s)
    BY <1>1, ReadersSeeLogGrow DEF FileShape
  <1>4. InOrder(s) /\ \A e \in ToSet(s) : Written(e) BY DEF StorySoFar
  <1> HIDE DEF s
  <1>5. \A e \in ToSet(s) : e \in LedgerEvent BY <1>2 DEF ToSet
  <1>6. \A e \in ToSet(s) : Before(e, x) BY <1>4, <1>5, NextEventIsLater
  <1>7. CASE readEvents(file') = s BY <1>3, <1>4, <1>7 DEF FileShape, s
  <1>8. CASE readEvents(file') = Append(s, x)
    BY <1>1, <1>2, <1>3, <1>4, <1>6, <1>8, InOrderGrows DEF FileShape, s
  <1>9. CASE s # <<>> /\ readEvents(file') = WithoutLast(s)
    BY <1>2, <1>3, <1>4, <1>9, InOrderCut DEF FileShape, s
  <1> QED BY <1>3, <1>7, <1>8, <1>9

(* readEvents looks at the file only.                                       *)
LEMMA ReadPrime == readEvents(file)' = readEvents(file')
  BY DEF readEvents, AllLines

(* An event the run is past stays past.                                     *)
LEMMA WrittenStays ==
  ASSUME TypeOK, [Next]_vars, NEW e \in LedgerEvent, Written(e)
  PROVE  Written(e)'
  <1> USE DEF external, loopVars, resultVars, routeVars, End
  <1> USE DEF Written
  <1>1. e.task \in Nat /\ task \in Nat /\ batch \in Nat /\ e.batch \in Nat /\ Rank(e.type) \in 1..6
    <2>1. e.task \in 1..MaxRuns /\ e.batch \in Batches \cup {NoBatch} BY DEF LedgerEvent
    <2>2. task \in 1..MaxRuns /\ batch \in Batches BY DEF TypeOK
    <2> QED BY <2>1, <2>2, RankType, BoundAssumptions DEF Batches, NoBatch
  <1>2. CASE UNCHANGED <<task, stage, batch, scored>> BY <1>2
  <1>3. CASE task' = task /\ stage' \in {"closing", "exited", "crashed"}
    <2>1. CASE stage = "intake" BY <1>1, <1>3, <2>1
    <2>2. CASE stage # "intake" BY <1>1, <1>3, <2>2
    <2> QED BY <2>1, <2>2
  <1>4. ASSUME NEW p, NEW c, decideRoute(p, c) PROVE Written(e)' BY <1>1, <1>4 DEF decideRoute
  <1>5. CASE RecordDecision BY <1>1, <1>5 DEF RecordDecision, StartBatch
  <1>6. ASSUME NEW o, NEW p, Settle(o) \/ Reroute(o, p) PROVE Written(e)'
    BY <1>1, <1>6 DEF Settle, Reroute, Called
  <1>7. CASE LogOutcome
    <2>1. /\ stage = "logging" /\ task' = task
          /\ \/ stage' = "executing" /\ batch' = batch + 1
             \/ stage' = "merged"
      BY <1>7 DEF LogOutcome, StartBatch
    <2> QED BY <1>1, <2>1
  <1>8. ASSUME NEW b, ScoreBatch(b) PROVE Written(e)' BY <1>1, <1>8 DEF ScoreBatch
  <1>9. CASE RecordMerge BY <1>1, <1>9 DEF RecordMerge
  <1>10. CASE NextRun BY <1>1, <1>10 DEF NextRun, Ended
  <1>11. CASE NoProviders BY <1>3, <1>11 DEF NoProviders
  <1>12. ASSUME NEW v, RecordTrace(v) PROVE Written(e)' BY <1>3, <1>12 DEF RecordTrace
  <1>13. CASE Finish BY <1>3, <1>13 DEF Finish
  <1>14. ASSUME NEW r, MirrorWrite(r) PROVE Written(e)' BY <1>2, <1>14 DEF MirrorWrite
  <1>15. CASE LedgerWriteFails BY <1>3, <1>15 DEF LedgerWriteFails
  <1>16. CASE Crash BY <1>3, <1>16 DEF Crash
  <1>17. CASE UNCHANGED vars BY <1>2, <1>17 DEF vars
  <1> QED
    BY <1>4, <1>5, <1>6, <1>7, <1>8, <1>9, <1>10, <1>11, <1>12, <1>13, <1>14, <1>15, <1>16, <1>17
    DEF Next, Running

(* What one step does to the ledger file: nothing, or a write of an event   *)
(* of this stage that the next stage is past.                               *)
Writes(x) ==
  /\ x \in EventsBeingWritten
  /\ \/ file' = appendEvent(file, x)
     \/ MayCrash /\ file' \in TornAppends(file, x)
  /\ Written(x)'

LEMMA StepWrites ==
  ASSUME TypeOK, [Next]_vars
  PROVE  file' = file \/ \E x \in EventsBeingWritten : Writes(x)
  <1> USE DEF external, loopVars, resultVars, routeVars, End, createLedgerEvent
  <1>1. task \in Nat /\ batch \in Nat
    <2>1. task \in 1..MaxRuns /\ batch \in Batches BY DEF TypeOK
    <2> QED BY <2>1, BoundAssumptions DEF Batches
  <1>2. ASSUME NEW S \in SUBSET Provider, NEW p \in S, NEW c, decideRoute(p, c)
        PROVE  \E x \in EventsBeingWritten : Writes(x)
    <2>1. PICK x : x = TaskRouted(p) OBVIOUS
    <2>2. x \in EventsBeingWritten BY <1>2, <2>1 DEF decideRoute, EventsBeingWritten
    <2>3. file' = appendEvent(file, x) /\ stage' = "routed" /\ task' = task
      BY <1>2, <2>1 DEF decideRoute
    <2>4. x.task = task /\ Rank(x.type) = 1 BY <2>1 DEF TaskRouted, Rank
    <2>5. Written(x)' BY <2>3, <2>4 DEF Written
    <2> QED BY <2>2, <2>3, <2>5 DEF Writes
  <1>3. CASE RecordDecision
    <2>1. RouteRecorded \in EventsBeingWritten BY <1>3 DEF RecordDecision, EventsBeingWritten
    <2>2. /\ file' = appendEvent(file, RouteRecorded)
          /\ stage' = "executing" /\ task' = task
      BY <1>3 DEF RecordDecision, appendDual
    <2>3. PICK x : x = RouteRecorded OBVIOUS
    <2>4. x.task = task /\ Rank(x.type) = 2 BY <2>3 DEF RouteRecorded, Rank
    <2>5. Written(x)' BY <2>2, <2>4 DEF Written
    <2> QED BY <2>1, <2>2, <2>3, <2>5 DEF Writes
  <1>4. CASE LogOutcome
    <2>1. PICK x : x = buildExecutionLedgerEvent(outcome, provider, batch) OBVIOUS
    <2>2. x \in EventsBeingWritten BY <1>4, <2>1 DEF LogOutcome, EventsBeingWritten
    <2>3. /\ file' = appendEvent(file, x) /\ task' = task
          /\ \/ stage' = "executing" /\ batch' = batch + 1
             \/ stage' = "merged"
      BY <1>4, <2>1 DEF LogOutcome, appendDual, StartBatch
    <2>4. x.task = task /\ Rank(x.type) = 3 /\ x.batch = batch
      BY <2>1 DEF buildExecutionLedgerEvent, Rank
    <2>5. Written(x)' BY <1>1, <2>3, <2>4 DEF Written
    <2> QED BY <2>2, <2>3, <2>5 DEF Writes
  <1>5. ASSUME NEW b \in Batches, ScoreBatch(b) PROVE \E x \in EventsBeingWritten : Writes(x)
    <2>1. PICK x : x = buildQualityScoreEvent(b) OBVIOUS
    <2>2. stage = "merged" /\ NextToScore(b) BY <1>5 DEF ScoreBatch
    <2>3. ~(parsedBatches \subseteq scored) BY <2>2 DEF NextToScore
    <2>4. x \in EventsBeingWritten BY <2>1, <2>2, <2>3 DEF EventsBeingWritten
    <2>5. /\ file' = appendEvent(file, x) /\ task' = task /\ stage' = "merged" /\ b \in scored'
      BY <1>5, <2>1 DEF ScoreBatch, appendDual
    <2>6. x.task = task /\ Rank(x.type) = 4 /\ x.batch = b
      BY <2>1 DEF buildQualityScoreEvent, Rank
    <2>7. Written(x)' BY <2>5, <2>6 DEF Written
    <2> QED BY <2>4, <2>5, <2>7 DEF Writes
  <1>6. CASE RecordMerge
    <2>1. PICK x : x = buildMergeLedgerEvent OBVIOUS
    <2>2. x \in EventsBeingWritten BY <1>6, <2>1 DEF RecordMerge, EventsBeingWritten
    <2>3. file' = appendEvent(file, x) /\ task' = task /\ stage' = "tracing"
      BY <1>6, <2>1 DEF RecordMerge, appendDual
    <2>4. x.task = task /\ Rank(x.type) = 5 BY <2>1 DEF buildMergeLedgerEvent, Rank
    <2>5. Written(x)' BY <2>3, <2>4 DEF Written
    <2> QED BY <2>2, <2>3, <2>5 DEF Writes
  <1>7. ASSUME NEW v \in BOOLEAN, RecordTrace(v) PROVE \E x \in EventsBeingWritten : Writes(x)
    <2>1. PICK x : x = TraceRecorded(v) OBVIOUS
    <2>2. x \in EventsBeingWritten BY <1>7, <2>1 DEF RecordTrace, EventsBeingWritten
    <2>3. file' = appendEvent(file, x) /\ task' = task /\ stage' = "closing"
      BY <1>7, <2>1 DEF RecordTrace, appendDual
    <2>4. x.task = task BY <2>1 DEF TraceRecorded
    <2>5. Written(x)' BY <2>3, <2>4 DEF Written
    <2> QED BY <2>2, <2>3, <2>5 DEF Writes
  <1>8. CASE Crash
    <2>1. CASE file' = file BY <2>1
    <2>2. CASE \E x \in EventsBeingWritten : file' \in TornAppends(file, x)
      <3>1. PICK x \in EventsBeingWritten : file' \in TornAppends(file, x) BY <2>2
      <3>2. x.task = task
        BY DEF EventsBeingWritten, TaskRouted, RouteRecorded, buildExecutionLedgerEvent,
               buildQualityScoreEvent, buildMergeLedgerEvent, TraceRecorded
      <3>3. MayCrash /\ task' = task /\ stage' = "crashed" BY <1>8 DEF Crash
      <3>4. Written(x)' BY <3>2, <3>3 DEF Written
      <3> QED BY <3>1, <3>3, <3>4 DEF Writes
    <2> QED BY <1>8, <2>1, <2>2 DEF Crash
  <1>9. ASSUME NEW o, NEW p, Settle(o) \/ Reroute(o, p) PROVE file' = file
    BY <1>9 DEF Settle, Reroute, Called
  <1>10. ASSUME NEW r, MirrorWrite(r) PROVE file' = file BY <1>10 DEF MirrorWrite
  <1>11. CASE NoProviders \/ Finish \/ LedgerWriteFails \/ NextRun \/ UNCHANGED vars
    BY <1>11 DEF NoProviders, Finish, LedgerWriteFails, NextRun, vars
  <1> QED
    BY <1>2, <1>3, <1>4, <1>5, <1>6, <1>7, <1>8, <1>9, <1>10, <1>11 DEF Next, Running

(* The scores are written in the order of the batches.                      *)
LEMMA ScoredInOrderNext ==
  ASSUME TypeOK, ScoresOnRecord, ScoredInOrder, [Next]_vars
  PROVE  ScoredInOrder'
  <1> USE DEF external, loopVars, resultVars, routeVars, End
  <1>1. CASE scored' = {} BY <1>1 DEF ScoredInOrder
  <1>2. CASE UNCHANGED <<results, scored>> BY <1>2 DEF ScoredInOrder, parsedBatches
  <1>3. ASSUME NEW b \in Batches, ScoreBatch(b) PROVE ScoredInOrder'
    <2>1. /\ scored' = scored \cup {b} /\ parsedBatches' = parsedBatches
          /\ b \in parsedBatches \ scored /\ \A c \in parsedBatches \ scored : b <= c
      BY <1>3 DEF ScoreBatch, NextToScore, parsedBatches
    <2>2. ASSUME NEW c \in scored', NEW d \in parsedBatches' \ scored' PROVE c < d
      <3>1. d \in parsedBatches \ scored /\ d # b BY <2>1
      <3>2. CASE c \in scored BY <3>1, <3>2 DEF ScoredInOrder
      <3>3. CASE c = b
        <4>1. b <= d /\ b \in Nat /\ d \in Nat
          BY <2>1, <3>1, BoundAssumptions DEF Batches, parsedBatches
        <4> QED BY <3>1, <3>3, <4>1
      <3> QED BY <2>1, <3>2, <3>3
    <2> QED BY <2>2 DEF ScoredInOrder
  <1>4. CASE LogOutcome
    <2>1. scored = {} /\ scored' = scored BY <1>4 DEF LogOutcome, ScoresOnRecord
    <2> QED BY <1>1, <2>1
  <1>5. CASE NextRun BY <1>1, <1>5 DEF NextRun
  <1>6. CASE NoProviders \/ RecordDecision \/ RecordMerge \/ Finish
    BY <1>2, <1>6 DEF NoProviders, RecordDecision, RecordMerge, Finish
  <1>7. ASSUME NEW p, NEW c, decideRoute(p, c) PROVE ScoredInOrder' BY <1>2, <1>7 DEF decideRoute
  <1>8. ASSUME NEW o, NEW p, Settle(o) \/ Reroute(o, p) PROVE ScoredInOrder'
    BY <1>2, <1>8 DEF Settle, Reroute, Called
  <1>9. ASSUME NEW v, RecordTrace(v) PROVE ScoredInOrder' BY <1>2, <1>9 DEF RecordTrace
  <1>10. ASSUME NEW r, MirrorWrite(r) PROVE ScoredInOrder' BY <1>2, <1>10 DEF MirrorWrite
  <1>11. CASE LedgerWriteFails \/ Crash \/ UNCHANGED vars
    BY <1>2, <1>11 DEF LedgerWriteFails, Crash, vars
  <1> QED BY <1>3, <1>4, <1>5, <1>6, <1>7, <1>8, <1>9, <1>10, <1>11 DEF Next, Running

(* Every step keeps the story in order.                                     *)
LEMMA StoryNext ==
  ASSUME TypeOK, FileShape, StorySoFar, ScoredInOrder, [Next]_vars
  PROVE  FileShape' /\ StorySoFar'
  <1> DEFINE Now == ToSet(readEvents(file))
  <1>1. Now \subseteq LedgerEvent
    <2>1. readEvents(file) \in Seq(LedgerEvent) BY ReadEventsIs DEF FileShape
    <2> QED BY <2>1 DEF ToSet
  <1>2. \A e \in Now : Written(e)' BY <1>1, WrittenStays DEF StorySoFar
  <1>3. CASE file' = file
    <2>1. readEvents(file)' = readEvents(file) BY <1>3, ReadPrime
    <2> QED BY <1>2, <1>3, <2>1 DEF FileShape, StorySoFar, InOrder
  <1>4. ASSUME NEW x \in EventsBeingWritten, Writes(x) PROVE FileShape' /\ StorySoFar'
    <2>1. /\ FileShape' /\ InOrder(readEvents(file'))
          /\ ToSet(readEvents(file')) \subseteq Now \cup {x}
      BY <1>4, WritingKeepsOrder DEF Writes
    <2>2. \A e \in Now \cup {x} : Written(e)' BY <1>2, <1>4 DEF Writes
    <2>3. StorySoFar' BY <2>1, <2>2, ReadPrime DEF StorySoFar, InOrder
    <2> QED BY <2>1, <2>3
  <1> QED BY <1>3, <1>4, StepWrites

(* The inductive invariant behind the order of the ledger.                  *)
LEMMA StoryInvariant ==
  Spec => [](TypeOK /\ Routed /\ Evidence /\ FileShape /\ StorySoFar /\ ScoredInOrder)
  <1>1. Init => FileShape /\ StorySoFar /\ ScoredInOrder
    <2>1. EmptyFile \in FilesOf(LedgerEvent) /\ readEvents(EmptyFile) = <<>> BY EmptyFileReads
    <2> QED BY <2>1 DEF Init, FileShape, StorySoFar, ScoredInOrder, InOrder, ToSet
  <1>2. Evidence => ScoresOnRecord BY DEF Evidence
  <1> QED
    BY <1>1, <1>2, TypeInit, TypeNext, EvidenceInit, EvidenceNext, StoryNext, ScoredInOrderNext, PTL
    DEF Spec

(* quorum.js:520-740: a reader of the ledger sees each run's events in the  *)
(* order of the pipeline, none twice, for any number of runs, batches and   *)
(* crashes.                                                                 *)
THEOREM LedgerInOrder == Spec => []LedgerTellsRunsInOrder
  <1>1. StorySoFar => LedgerTellsRunsInOrder BY DEF StorySoFar, LedgerTellsRunsInOrder
  <1> QED BY <1>1, StoryInvariant, PTL

(* The events on terminated lines, which no crash takes away.               *)
Terminated(f) == ToSet(FlattenSeq(f.lines))

LEMMA TerminatedIsRead ==
  ASSUME NEW f \in FilesOf(LedgerEvent)
  PROVE  Terminated(f) \subseteq ToSet(readEvents(f))
  <1> DEFINE s == FlattenSeq(f.lines)
             r == readEvents(f)
  <1>1. s \in Seq(LedgerEvent) /\ r \in Seq(LedgerEvent) BY ReadEventsIs
  <1>2. s = r \/ (r # <<>> /\ s = WithoutLast(r)) BY BeforeTheTail DEF WithoutLast
  <1> HIDE DEF s, r
  <1>3. CASE s = r BY <1>3 DEF Terminated, s, r
  <1>4. CASE r # <<>> /\ s = WithoutLast(r)
    <2>1. ToSet(s) \subseteq ToSet(r) BY <1>1, <1>4, ToSetWithoutLast
    <2> QED BY <2>1 DEF Terminated, s, r
  <1> QED BY <1>2, <1>3, <1>4

LEMMA TerminatedGrows ==
  ASSUME NEW f \in FilesOf(LedgerEvent), NEW e \in LedgerEvent
  PROVE  /\ Terminated(f) \subseteq Terminated(appendEvent(f, e))
         /\ f.tail = {} => e \in Terminated(appendEvent(f, e))
  <1> DEFINE s == FlattenSeq(f.lines)
             r == readEvents(f)
             g == appendEvent(f, e)
  <1>1. s \in Seq(LedgerEvent) /\ r \in Seq(LedgerEvent) BY ReadEventsIs
  <1>2. g \in FilesOf(LedgerEvent) /\ g.tail = {} BY AppendReads
  <1>3. FlattenSeq(g.lines) = readEvents(g) BY <1>2, ReadEventsIs
  <1>4. /\ f.tail = {} => s = r /\ readEvents(g) = Append(r, e)
        /\ f.tail # {} => readEvents(g) = s
    <2>1. f.tail = {} => s = r BY ReadEventsIs
    <2>2. /\ f.tail = {} => readEvents(g) = Append(r, e)
          /\ f.tail # {} => readEvents(g) = s
      BY AppendReads
    <2> QED BY <2>1, <2>2
  <1> HIDE DEF s, r, g
  <1>5. ToSet(Append(r, e)) = ToSet(r) \cup {e} BY <1>1, ToSetAppend
  <1>6. ToSet(s) \subseteq ToSet(FlattenSeq(g.lines)) BY <1>3, <1>4, <1>5
  <1>7. f.tail = {} => e \in ToSet(FlattenSeq(g.lines)) BY <1>3, <1>4, <1>5
  <1> QED BY <1>6, <1>7 DEF Terminated, s, r, g

(* A step that appends nothing to the mirror but what is in flight.         *)
LEMMA MirrorKept ==
  ASSUME FileShape, MirrorSoFar, Terminated(file) \subseteq Terminated(file'),
         \/ UNCHANGED <<mirror, pending>>
         \/ mirror' \in {mirror, mirror \o pending} /\ pending' = <<>>
  PROVE  MirrorSoFar'
  <1> DEFINE m == mirror \o pending
  <1>1. mirror \in Seq(LedgerEvent) /\ pending \in Seq(LedgerEvent)
    <2>1. <<>> \in Seq(LedgerEvent) /\ \A e \in LedgerEvent : <<e>> \in Seq(LedgerEvent) OBVIOUS
    <2> QED BY <2>1 DEF MirrorSoFar
  <1>2. m \in Seq(LedgerEvent) /\ m \o <<>> = m /\ mirror \o <<>> = mirror BY <1>1
  <1>3. \A i \in DOMAIN mirror : i \in DOMAIN m /\ m[i] = mirror[i] BY <1>1
  <1> HIDE DEF m
  <1>4. InOrder(m) /\ \A e \in ToSet(m) : e \in Terminated(file') /\ e.type # "task-routed"
    BY DEF MirrorSoFar, Terminated, m
  <1>5. InOrder(mirror) BY <1>3, <1>4 DEF InOrder
  <1>6. ToSet(mirror) \subseteq ToSet(m) BY <1>3 DEF ToSet
  <1>7. CASE UNCHANGED <<mirror, pending>>
    <2>1. \A e \in ToSet(mirror' \o pending') : e \in Terminated(file') /\ e.type # "task-routed"
      BY <1>4, <1>7 DEF m
    <2> QED BY <1>4, <1>7, <2>1 DEF MirrorSoFar, InOrder, Terminated, m
  <1>8. CASE mirror' = m /\ pending' = <<>>
    <2>1. mirror' \o pending' = m BY <1>2, <1>8
    <2> QED BY <1>2, <1>4, <1>8, <2>1 DEF MirrorSoFar, InOrder, Terminated
  <1>9. CASE mirror' = mirror /\ pending' = <<>>
    <2>1. mirror' \o pending' = mirror BY <1>2, <1>9
    <2> QED BY <1>1, <1>4, <1>5, <1>6, <1>9, <2>1 DEF MirrorSoFar, InOrder, Terminated
  <1> QED BY <1>7, <1>8, <1>9 DEF m

(* appendDual copies the event a reader finds at the end of the ledger.     *)
LEMMA MirrorAppends ==
  ASSUME TypeOK, FileShape, StorySoFar, ScoredInOrder, MirrorSoFar, file.tail = {},
         NEW x \in EventsBeingWritten, x.type # "task-routed", appendDual(x)
  PROVE  MirrorSoFar'
  <1>1. x \in LedgerEvent BY EventsWritten DEF EventsBeingWritten
  <1>2. /\ file' = appendEvent(file, x) /\ pending = <<>> /\ pending' = <<x>> /\ mirror' = mirror
        /\ mirror \in Seq(LedgerEvent)
    BY DEF appendDual, Idle, MirrorSoFar
  <1>3. mirror \o pending = mirror /\ mirror' \o pending' = Append(mirror, x) BY <1>2
  <1>4. InOrder(mirror) /\ \A e \in ToSet(mirror) : e \in Terminated(file) /\ e.type # "task-routed"
    BY <1>3 DEF MirrorSoFar, Terminated
  <1>5. /\ Terminated(file) \subseteq ToSet(readEvents(file))
        /\ Terminated(file) \subseteq Terminated(file') /\ x \in Terminated(file')
    BY <1>1, <1>2, TerminatedIsRead, TerminatedGrows DEF FileShape
  <1>6. \A e \in ToSet(mirror) : e \in LedgerEvent BY <1>2 DEF ToSet
  <1>7. \A e \in ToSet(mirror) : Before(e, x)
    BY <1>4, <1>5, <1>6, NextEventIsLater DEF StorySoFar
  <1>8. InOrder(Append(mirror, x)) /\ ToSet(Append(mirror, x)) = ToSet(mirror) \cup {x}
    BY <1>1, <1>2, <1>4, <1>7, InOrderGrows
  <1>9. \A e \in ToSet(mirror' \o pending') : e \in Terminated(file') /\ e.type # "task-routed"
    BY <1>3, <1>4, <1>5, <1>8
  <1> QED BY <1>1, <1>2, <1>3, <1>8, <1>9 DEF MirrorSoFar, InOrder, Terminated

(* Every step keeps the mirror a copy.                                      *)
LEMMA MirrorNext ==
  ASSUME TypeOK, FileShape, StorySoFar, ScoredInOrder, LogClean, MirrorSoFar, [Next]_vars
  PROVE  MirrorSoFar'
  <1> USE DEF external, loopVars, resultVars, routeVars, End
  <1>1. CASE UNCHANGED <<file, mirror, pending>> BY <1>1, MirrorKept
  <1>2. ASSUME NEW S \in SUBSET Provider, NEW p \in S, NEW c, decideRoute(p, c)
        PROVE  MirrorSoFar'
    <2>1. /\ TaskRouted(p) \in LedgerEvent /\ file' = appendEvent(file, TaskRouted(p))
          /\ UNCHANGED <<mirror, pending>>
      BY <1>2, EventsWritten DEF decideRoute
    <2>2. Terminated(file) \subseteq Terminated(file') BY <2>1, TerminatedGrows DEF FileShape
    <2> QED BY <2>1, <2>2, MirrorKept
  <1>3. CASE RecordDecision
    <2>1. PICK x : x = RouteRecorded OBVIOUS
    <2>2. x \in EventsBeingWritten /\ appendDual(x) /\ file.tail = {}
      BY <1>3, <2>1 DEF RecordDecision, EventsBeingWritten, LogClean, InProgress
    <2>3. x.type # "task-routed" BY <2>1 DEF RouteRecorded, createLedgerEvent
    <2> QED BY <2>2, <2>3, MirrorAppends
  <1>4. CASE LogOutcome
    <2>1. PICK x : x = buildExecutionLedgerEvent(outcome, provider, batch) OBVIOUS
    <2>2. x \in EventsBeingWritten /\ appendDual(x) /\ file.tail = {}
      BY <1>4, <2>1 DEF LogOutcome, EventsBeingWritten, LogClean, InProgress
    <2>3. x.type # "task-routed" BY <2>1 DEF buildExecutionLedgerEvent, createLedgerEvent
    <2> QED BY <2>2, <2>3, MirrorAppends
  <1>5. ASSUME NEW b \in Batches, ScoreBatch(b) PROVE MirrorSoFar'
    <2>1. PICK x : x = buildQualityScoreEvent(b) OBVIOUS
    <2>2. stage = "merged" /\ NextToScore(b) /\ appendDual(x) BY <1>5, <2>1 DEF ScoreBatch
    <2>3. ~(parsedBatches \subseteq scored) BY <2>2 DEF NextToScore
    <2>4. x \in EventsBeingWritten /\ file.tail = {}
      BY <2>1, <2>2, <2>3 DEF EventsBeingWritten, LogClean, InProgress
    <2>5. x.type # "task-routed" BY <2>1 DEF buildQualityScoreEvent, createLedgerEvent
    <2> QED BY <2>2, <2>4, <2>5, MirrorAppends
  <1>6. CASE RecordMerge
    <2>1. PICK x : x = buildMergeLedgerEvent OBVIOUS
    <2>2. x \in EventsBeingWritten /\ appendDual(x) /\ file.tail = {}
      BY <1>6, <2>1 DEF RecordMerge, EventsBeingWritten, LogClean, InProgress
    <2>3. x.type # "task-routed" BY <2>1 DEF buildMergeLedgerEvent, createLedgerEvent
    <2> QED BY <2>2, <2>3, MirrorAppends
  <1>7. ASSUME NEW v \in BOOLEAN, RecordTrace(v) PROVE MirrorSoFar'
    <2>1. PICK x : x = TraceRecorded(v) OBVIOUS
    <2>2. x \in EventsBeingWritten /\ appendDual(x) /\ file.tail = {}
      BY <1>7, <2>1 DEF RecordTrace, EventsBeingWritten, LogClean, InProgress
    <2>3. x.type # "task-routed" BY <2>1 DEF TraceRecorded, createLedgerEvent
    <2> QED BY <2>2, <2>3, MirrorAppends
  <1>8. CASE Crash
    <2>1. /\ file'.lines = file.lines /\ mirror' \in {mirror, mirror \o pending}
          /\ pending' = <<>>
      BY <1>8, CrashKeepsLines DEF Crash
    <2>2. Terminated(file) = Terminated(file') BY <2>1 DEF Terminated
    <2> QED BY <2>1, <2>2, MirrorKept
  <1>9. ASSUME NEW r, MirrorWrite(r) PROVE MirrorSoFar'
    <2>1. file' = file /\ mirror' \in {mirror, mirror \o pending} /\ pending' = <<>>
      BY <1>9 DEF MirrorWrite
    <2> QED BY <2>1, MirrorKept
  <1>10. CASE NextRun
    <2>1. file' = file /\ mirror' = mirror /\ pending' = <<>> BY <1>10 DEF NextRun
    <2> QED BY <2>1, MirrorKept
  <1>11. ASSUME NEW o, NEW p, Settle(o) \/ Reroute(o, p) PROVE MirrorSoFar'
    BY <1>1, <1>11 DEF Settle, Reroute, Called
  <1>12. CASE NoProviders \/ Finish \/ LedgerWriteFails \/ UNCHANGED vars
    BY <1>1, <1>12 DEF NoProviders, Finish, LedgerWriteFails, vars
  <1> QED
    BY <1>2, <1>3, <1>4, <1>5, <1>6, <1>7, <1>8, <1>9, <1>10, <1>11, <1>12 DEF Next, Running

(* supabase-store.js header: what the mirror holds is in the local ledger,  *)
(* in the same order, readable and none twice, and never the thin routing   *)
(* event, whatever is lost in between.                                      *)
THEOREM MirrorCopies == Spec => []MirrorIsACopy
  <1>1. Init => MirrorSoFar
    <2> SUFFICES ASSUME Init PROVE MirrorSoFar OBVIOUS
    <2>1. mirror = <<>> /\ pending = <<>> /\ mirror \o pending = <<>> BY DEF Init
    <2> QED BY <2>1 DEF MirrorSoFar, InOrder, ToSet
  <1>2. FileShape /\ MirrorSoFar => MirrorIsACopy
    <2> SUFFICES ASSUME FileShape, MirrorSoFar PROVE MirrorIsACopy OBVIOUS
    <2>1. \A i \in DOMAIN mirror : i \in DOMAIN (mirror \o pending) /\ (mirror \o pending)[i] = mirror[i]
      BY DEF MirrorSoFar
    <2>2. InOrder(mirror) BY <2>1 DEF MirrorSoFar, InOrder
    <2>3. ToSet(mirror) \subseteq ToSet(mirror \o pending) BY <2>1 DEF ToSet
    <2>4. Terminated(file) \subseteq ToSet(readEvents(file))
      BY TerminatedIsRead DEF FileShape
    <2> QED BY <2>2, <2>3, <2>4 DEF MirrorIsACopy, MirrorSoFar, Terminated
  <1>3. Evidence => LogClean BY DEF Evidence
  <1> QED BY <1>1, <1>2, <1>3, StoryInvariant, MirrorNext, PTL DEF Spec

(* store.js header: while no process is killed inside an append, the local  *)
(* ledger is a log that grows at its end by one event at a time, and a      *)
(* reader sees all of it.                                                   *)
THEOREM LedgerImplementsLog ==
  ASSUME ~MayCrash
  PROVE  Spec => ImplementsAppendOnlyLog
  <1> DEFINE Whole == file.tail = {}
             log == readEvents(file)
  <1>1. ASSUME TypeOK, FileShape, Whole, [Next]_vars
        PROVE  Whole' /\ [Log!Next]_log
    <2>1. CASE file' = file
      <3>1. log' = log BY <2>1, ReadPrime
      <3> QED BY <1>1, <2>1, <3>1
    <2>2. ASSUME NEW x \in EventsBeingWritten, Writes(x) PROVE Whole' /\ [Log!Next]_log
      <3>1. x \in LedgerEvent BY <1>1, EventsWritten DEF EventsBeingWritten
      <3>2. file' = appendEvent(file, x) BY <2>2 DEF Writes
      <3>3. readEvents(file') = Append(readEvents(file), x) /\ file'.tail = {}
        BY <1>1, <3>1, <3>2, AppendReads DEF FileShape
      <3>4. log' = Append(log, x) BY <3>3, ReadPrime
      <3> QED BY <3>1, <3>3, <3>4 DEF Log!Next, Log!Record
    <2> QED BY <1>1, <2>1, <2>2, StepWrites
  <1>2. Init => Whole /\ log = <<>>
    BY EmptyFileReads DEF Init, EmptyFile
  <1>3. Init => Log!Init BY <1>2 DEF Log!Init
  <1> QED
    BY <1>1, <1>2, <1>3, StoryInvariant, PTL DEF Spec, ImplementsAppendOnlyLog, Log!Spec
=============================================================================
