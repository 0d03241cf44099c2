----------------------------- MODULE QuorumRun ------------------------------
(***************************************************************************)
(* `quorum run' (bin/quorum.js, cmdRun): intake, route, execute every batch *)
(* with its fallback chain, merge, score, sign and verify the trace, and    *)
(* exit with the verdict.  One process at a time; the ledger file and the   *)
(* Supabase mirror outlive it, so a behaviour is a sequence of runs, each   *)
(* of which exits or is killed.                                             *)
(*                                                                          *)
(* Every effect on the outside is a step of its own: a provider call, an    *)
(* append to the local ledger, an insert into the mirror.  What happens     *)
(* between two of them is one atomic step, as it is in the JavaScript.      *)
(*                                                                          *)
(* Abstracted: the ranking (any funded provider may come out on top, in any *)
(* order), the batch plan (NumBatches batches), token counts, predictions   *)
(* and score values, which decide nothing here, and claim comparison, of    *)
(* which only the relation on outputs remains (Conflicts).                  *)
(***************************************************************************)
EXTENDS Executor, Ledger, FiniteSets

CONSTANTS NumBatches,     \* batches of the plan
          Unparsable,     \* outputs parseEnvelope rejects
          Conflicts,      \* {o} or {o1, o2}: outputs whose claims contradict each other
          Failures,       \* the failures a call may meet, of Failure
          MaxRuns,        \* bound on the runs of one behaviour
          MayCrash,       \* whether a process may be killed or fail to write the ledger
          MirrorResults   \* what an insert into the mirror may do, of {"inserted", "failed"}

ASSUME BoundAssumptions == NumBatches \in Nat \ {0} /\ MaxRuns \in Nat \ {0}

ASSUME DataAssumptions ==
  /\ IsFiniteSet(Provider) /\ "no provider" \notin Provider
  /\ NoOutput \notin Output
  /\ Unparsable \subseteq Output
  /\ Conflicts \subseteq SUBSET Output
  /\ Failures \subseteq Failure
  /\ MayCrash \in BOOLEAN
  /\ MirrorResults \subseteq {"inserted", "failed"}

VARIABLES task,       \* number of the current run; its taskId
          stage,      \* where cmdRun is
          primary,    \* decision.primaryProvider
          chain,      \* decision.fallbackProviders
          batch,      \* the batch being executed
          provider,   \* providerName
          attempted,  \* providers tried for this batch, in order
          outcome,    \* the outcome of the last call
          results,    \* batchResults
          scored,     \* batches whose quality event has been written
          verified,   \* verifyExecutionTrace(signed)
          exit,       \* the exit code; any abnormal end of the process is 1
          file,       \* the local ledger
          mirror,     \* the rows of dispatch_ledger_events
          pending     \* <<e>> while the mirror insert of e is in flight

vars == <<task, stage, primary, chain, batch, provider, attempted, outcome, results, scored,
          verified, exit, file, mirror, pending>>

external == <<file, mirror, pending>>
loopVars == <<batch, provider, attempted, outcome>>
resultVars == <<results, scored, verified>>
routeVars == <<primary, chain>>

Batches == 1..NumBatches
NoProvider == "no provider"
NoBatch == 0
NoResult == [provider |-> NoProvider, outcome |-> Failed("error", "none")]
Result == [provider : Provider, outcome : Outcome]

Stages == {"intake", "routed", "executing", "logging", "merged", "tracing", "closing",
           "exited", "crashed"}

-----------------------------------------------------------------------------
(* Ledger events: createLedgerEvent, with the payload fields that matter.   *)
LedgerEventType ==
  {"task-routed", "route-decision-recorded", "task-completed", "task-failed",
   "batch-quality-scored", "merge-completed", "merge-contradiction-found", "merge-incomplete",
   "execution-trace-recorded"}

LedgerEvent ==
  [task : 1..MaxRuns, provider : Provider \cup {NoProvider}, batch : Batches \cup {NoBatch},
   ok : BOOLEAN, type : LedgerEventType]

createLedgerEvent(type, p, b, ok) ==
  [task |-> task, type |-> type, provider |-> p, batch |-> b, ok |-> ok]

TaskRouted(p) == createLedgerEvent("task-routed", p, NoBatch, TRUE)
RouteRecorded == createLedgerEvent("route-decision-recorded", primary, NoBatch, TRUE)

(* buildExecutionLedgerEvent: the provider is the last one tried.           *)
buildExecutionLedgerEvent(o, p, b) ==
  createLedgerEvent(IF Success(o) THEN "task-completed" ELSE "task-failed", p, b, Success(o))

buildQualityScoreEvent(b) == createLedgerEvent("batch-quality-scored", results[b].provider, b, TRUE)

-----------------------------------------------------------------------------
(* mergeRoute on batchResults: pure here, cmdRun passes no ledgerPath.      *)
parseEnvelope(o) == o.output \in Output \ Unparsable

parsedBatches == {b \in Batches : Success(results[b].outcome) /\ parseEnvelope(results[b].outcome)}

failedBatches == Batches \ parsedBatches

(* crossCheckBatches: pairs of claims of different batches.                 *)
contradictions ==
  {pair \in parsedBatches \X parsedBatches :
     /\ pair[1] < pair[2]
     /\ {results[pair[1]].outcome.output, results[pair[2]].outcome.output} \in Conflicts}

mergeStatus ==
  IF failedBatches # {} THEN "INCOMPLETE"
  ELSE IF contradictions # {} THEN "CONTRADICTIONS_FOUND"
  ELSE "CLEAN"

buildMergeLedgerEvent ==
  createLedgerEvent(CASE mergeStatus = "CLEAN" -> "merge-completed"
          [] mergeStatus = "CONTRADICTIONS_FOUND" -> "merge-contradiction-found"
          [] OTHER -> "merge-incomplete",
        NoProvider, NoBatch, mergeStatus = "CLEAN")

TraceRecorded(v) == createLedgerEvent("execution-trace-recorded", primary, NoBatch, v)

(* Faulty variants of untrustworthy: contradictions do not count; only the  *)
(* trace does.                                                              *)
untrustworthyIfIncomplete == failedBatches # {} \/ ~verified
untrustworthyIfUnverified == ~verified

untrustworthy == mergeStatus # "CLEAN" \/ failedBatches # {} \/ ~verified

-----------------------------------------------------------------------------
(* rankProviders and rankFallbackProviders: the funded providers in some    *)
(* order, without the one chosen.                                           *)
Orderings(S) == {s \in [1..Cardinality(S) -> S] : \A i, j \in DOMAIN s : s[i] = s[j] => i = j}

(* Faulty variant of IsFresh: the providers tried are forgotten.            *)
IsNotPrimary(p, tried) == p # primary

(* pickNextFallbackProvider: p is the first of the chain that is neither    *)
(* the primary nor among those tried.                                       *)
IsFresh(p, tried) == p # primary /\ p \notin ToSet(tried)

pickNextFallbackProvider(p, tried) ==
  \E i \in DOMAIN chain :
    /\ chain[i] = p
    /\ IsFresh(p, tried)
    /\ \A j \in 1..(i - 1) : ~IsFresh(chain[j], tried)

(* decideFallback: whether, and where, to retry.                            *)
decideFallback(o, tried, p) == shouldRetryOnFallback(o) /\ pickNextFallbackProvider(p, tried)

NoFallback(o, tried) == \A p \in Provider : ~decideFallback(o, tried, p)

(* appendDual: the local ledger first, then the mirror.                     *)
Idle == pending = <<>>

appendDual(e) ==
  /\ Idle
  /\ file' = appendEvent(file, e)
  /\ pending' = <<e>>
  /\ UNCHANGED mirror

(* Faulty variants of MirrorWrite: a failed insert is retried until it      *)
(* succeeds; an insert whose answer is lost has landed and is retried.      *)
MirrorRetried(result) ==
  /\ ~Idle
  /\ mirror' = IF result = "inserted" THEN mirror \o pending ELSE mirror
  /\ pending' = IF result = "inserted" THEN <<>> ELSE pending
  /\ UNCHANGED <<task, stage, exit, file, routeVars, loopVars, resultVars>>

MirrorAtLeastOnce(result) ==
  /\ ~Idle
  /\ mirror' = mirror \o pending
  /\ pending' = IF result = "inserted" THEN <<>> ELSE pending
  /\ UNCHANGED <<task, stage, exit, file, routeVars, loopVars, resultVars>>

(* The insert into Supabase ends; a failure is logged and swallowed.        *)
MirrorWrite(result) ==
  /\ ~Idle
  /\ mirror' = IF result = "inserted" THEN mirror \o pending ELSE mirror
  /\ pending' = <<>>
  /\ UNCHANGED <<task, stage, exit, file, routeVars, loopVars, resultVars>>

-----------------------------------------------------------------------------
NoResults == [b \in Batches |-> NoResult]

Init ==
  /\ task = 1
  /\ stage = "intake"
  /\ primary = NoProvider
  /\ chain = <<>>
  /\ batch = 1
  /\ provider = NoProvider
  /\ attempted = <<>>
  /\ outcome = NoResult.outcome
  /\ results = NoResults
  /\ scored = {}
  /\ verified = FALSE
  /\ exit = 0
  /\ pending = <<>>
  /\ file = EmptyFile
  /\ mirror = <<>>

End(code) == stage' = "exited" /\ exit' = code

(* No provider has credentials.                                             *)
NoProviders ==
  /\ stage = "intake"
  /\ End(1)
  /\ UNCHANGED <<task, routeVars, loopVars, resultVars, external>>

(* rankProviders and decideRoute with operatorOverride; the thin event goes *)
(* to the local ledger only.                                                *)
decideRoute(p, fallbacks) ==
  /\ stage = "intake"
  /\ file' = appendEvent(file, TaskRouted(p))
  /\ primary' = p
  /\ chain' = fallbacks
  /\ stage' = "routed"
  /\ UNCHANGED <<task, exit, mirror, pending, loopVars, resultVars>>

(* Faulty variant of StartBatch: batches numbered from 0.                   *)
StartBatchFromZero(b) ==
  /\ batch' = b - 1
  /\ provider' = primary
  /\ attempted' = <<>>

StartBatch(b) ==
  /\ batch' = b
  /\ provider' = primary
  /\ attempted' = <<>>

RecordDecision ==
  /\ stage = "routed"
  /\ appendDual(RouteRecorded)
  /\ StartBatch(1)
  /\ stage' = "executing"
  /\ UNCHANGED <<task, exit, outcome, routeVars, resultVars>>

Called(o) ==
  /\ stage = "executing"
  /\ Idle
  /\ outcome' = o
  /\ attempted' = Append(attempted, provider)
  /\ UNCHANGED <<task, exit, batch, routeVars, resultVars, external>>

(* The call succeeded, or its failure is not to be retried, or nobody is    *)
(* left to retry it.                                                        *)
Settle(o) ==
  /\ Called(o)
  /\ Success(o) \/ NoFallback(o, attempted')
  /\ stage' = "logging"
  /\ UNCHANGED provider

(* The call failed and the loop goes round with the next provider.          *)
Reroute(o, p) ==
  /\ Called(o)
  /\ ~Success(o)
  /\ decideFallback(o, attempted', p)
  /\ provider' = p
  /\ UNCHANGED stage

(* After the loop: one event for the batch, whoever was tried before.       *)
LogOutcome ==
  /\ stage = "logging"
  /\ appendDual(buildExecutionLedgerEvent(outcome, provider, batch))
  /\ results' = [results EXCEPT ![batch] = [provider |-> provider, outcome |-> outcome]]
  /\ IF batch < NumBatches
       THEN StartBatch(batch + 1) /\ stage' = "executing"
       ELSE UNCHANGED <<batch, provider, attempted>> /\ stage' = "merged"
  /\ UNCHANGED <<task, exit, outcome, scored, verified, routeVars>>

(* Faulty variant of NextToScore: a batch scored already is scored again.   *)
NextOrScoredBefore(b) == b \in parsedBatches /\ \A c \in parsedBatches \ scored : b <= c

NextToScore(b) == b \in parsedBatches \ scored /\ \A c \in parsedBatches \ scored : b <= c

ScoreBatch(b) ==
  /\ stage = "merged"
  /\ NextToScore(b)
  /\ appendDual(buildQualityScoreEvent(b))
  /\ scored' = scored \cup {b}
  /\ UNCHANGED <<task, stage, exit, results, verified, routeVars, loopVars>>

(* Faulty variant of RecordMerge: the loop over the scores stops early.     *)
RecordMergeEarly ==
  /\ stage = "merged"
  /\ appendDual(buildMergeLedgerEvent)
  /\ stage' = "tracing"
  /\ UNCHANGED <<task, exit, routeVars, loopVars, resultVars>>

RecordMerge ==
  /\ stage = "merged"
  /\ parsedBatches \subseteq scored
  /\ appendDual(buildMergeLedgerEvent)
  /\ stage' = "tracing"
  /\ UNCHANGED <<task, exit, routeVars, loopVars, resultVars>>

(* Assemble, sign, verify; `keysMatch' is false when the attested key is    *)
(* not the signing one.                                                     *)
RecordTrace(keysMatch) ==
  /\ stage = "tracing"
  /\ verified' = keysMatch
  /\ appendDual(TraceRecorded(keysMatch))
  /\ stage' = "closing"
  /\ UNCHANGED <<task, exit, results, scored, routeVars, loopVars>>

Finish ==
  /\ stage = "closing"
  /\ Idle
  /\ End(IF untrustworthy THEN 1 ELSE 0)
  /\ UNCHANGED <<task, routeVars, loopVars, resultVars, external>>

-----------------------------------------------------------------------------
(* The events the next local append of this run may be writing.             *)
EventsBeingWritten ==
  CASE stage = "intake"  -> {TaskRouted(p) : p \in Provider}
    [] stage = "routed"  -> {RouteRecorded}
    [] stage = "logging" -> {buildExecutionLedgerEvent(outcome, provider, batch)}
    [] stage = "merged"  -> IF parsedBatches \subseteq scored
                              THEN {buildMergeLedgerEvent}
                              ELSE {buildQualityScoreEvent(b) : b \in {c \in Batches : NextToScore(c)}}
    [] stage = "tracing" -> {TraceRecorded(v) : v \in BOOLEAN}
    [] OTHER             -> {}

Ended == stage \in {"exited", "crashed"}

(* appendFileSync throws: appendDual rethrows and nobody catches.           *)
LedgerWriteFails ==
  /\ MayCrash
  /\ Idle
  /\ EventsBeingWritten # {}
  /\ End(1)
  /\ UNCHANGED <<task, routeVars, loopVars, resultVars, external>>

(* The process is killed, or the machine loses power in the middle of an    *)
(* append.                                                                  *)
Crash ==
  /\ MayCrash
  /\ ~Ended
  /\ stage' = "crashed"
  /\ exit' = 1
  /\ \/ UNCHANGED file
     \/ Idle /\ \E e \in EventsBeingWritten : file' \in TornAppends(file, e)
  /\ mirror' \in {mirror, mirror \o pending}
  /\ pending' = <<>>
  /\ UNCHANGED <<task, routeVars, loopVars, resultVars>>

(* The next invocation: nothing of the last one is left in memory.          *)
NextRun ==
  /\ Ended
  /\ task < MaxRuns
  /\ task' = task + 1
  /\ stage' = "intake"
  /\ primary' = NoProvider
  /\ chain' = <<>>
  /\ batch' = 1
  /\ provider' = NoProvider
  /\ attempted' = <<>>
  /\ outcome' = NoResult.outcome
  /\ results' = NoResults
  /\ scored' = {}
  /\ verified' = FALSE
  /\ exit' = 0
  /\ pending' = <<>>
  /\ UNCHANGED <<file, mirror>>

Running ==
  \/ NoProviders
  \/ \E S \in SUBSET Provider : \E p \in S : \E c \in Orderings(S \ {p}) : decideRoute(p, c)
  \/ RecordDecision
  \/ \E o \in executeBatch(provider, Failures) : Settle(o)
  \/ \E o \in executeBatch(provider, Failures), p \in Provider : Reroute(o, p)
  \/ LogOutcome
  \/ \E b \in Batches : ScoreBatch(b)
  \/ RecordMerge
  \/ \E v \in BOOLEAN : RecordTrace(v)
  \/ Finish
  \/ \E r \in MirrorResults : MirrorWrite(r)

Next == Running \/ LedgerWriteFails \/ Crash \/ NextRun

Spec == Init /\ [][Next]_vars

(* Node runs the promise chain of cmdRun to its end unless the process dies *)
(* and every SDK client bounds its calls by a timeout, so a step of the run *)
(* that can be taken is taken.                                              *)
FairSpec == Spec /\ WF_vars(Running)

-----------------------------------------------------------------------------
LedgerFile == [lines : Seq(Seq(LedgerEvent)), tail : SUBSET Seq(LedgerEvent)]

(* The shapes of the run's own state and of the ledger it shares.           *)
TypeOK ==
  /\ task \in 1..MaxRuns
  /\ stage \in Stages
  /\ primary \in Provider \cup {NoProvider}
  /\ chain \in Seq(Provider)
  /\ batch \in Batches
  /\ provider \in Provider \cup {NoProvider}
  /\ attempted \in Seq(Provider)
  /\ outcome \in Outcome
  /\ results \in [Batches -> Result \cup {NoResult}]
  /\ scored \subseteq Batches
  /\ verified \in BOOLEAN
  /\ exit \in {0, 1}
  /\ file \in LedgerFile

(* quorum.js:741-762: exit code 0 is only for a run that executed every     *)
(* batch of its plan to a usable answer, whose answers do not contradict    *)
(* each other across batches, and whose signed trace verifies.              *)
PassedRun == stage = "exited" /\ exit = 0

UsableResult(b) ==
  /\ results[b].provider \in Provider
  /\ results[b].outcome.status = "success"
  /\ results[b].outcome.output \in Output \ Unparsable

ExitZeroIsTrustworthy ==
  PassedRun =>
    /\ \A b \in Batches : UsableResult(b)
    /\ \A b, c \in Batches :
         b # c => {results[b].outcome.output, results[c].outcome.output} \notin Conflicts
    /\ verified

(* quorum.js:544-550: no run looks successful while its evidence went       *)
(* nowhere: after exit code 0 the local ledger holds, readable, the         *)
(* decision, each batch's completion by the provider that produced its      *)
(* result, its quality score, the clean merge and the verified trace, even  *)
(* when an earlier run was killed in the middle of an append.               *)
ExitZeroLeavesEvidence ==
  PassedRun =>
    /\ Recorded(file, RouteRecorded)
    /\ \A b \in Batches :
         /\ Recorded(file, createLedgerEvent("task-completed", results[b].provider, b, TRUE))
         /\ Recorded(file, createLedgerEvent("batch-quality-scored", results[b].provider, b, TRUE))
    /\ Recorded(file, createLedgerEvent("merge-completed", NoProvider, NoBatch, TRUE))
    /\ Recorded(file, createLedgerEvent("execution-trace-recorded", primary, NoBatch, TRUE))

(* executor/index.js:183-197: while a batch is being executed the providers *)
(* tried, and the one about to be, are the primary and then the fallback    *)
(* chain in its order, none skipped and none twice.                         *)
PlannedAttempt(i) == IF i = 1 THEN primary ELSE chain[i - 1]

FollowsPlan(s) ==
  /\ Len(s) \in 1..(Len(chain) + 1)
  /\ \A i \in 1..Len(s) : s[i] = PlannedAttempt(i)

AttemptsFollowChain ==
  /\ stage = "executing" => FollowsPlan(Append(attempted, provider))
  /\ stage = "logging" => FollowsPlan(attempted) /\ provider = attempted[Len(attempted)]

(* policy.js:125-150: bad credentials and bad content are never rerouted to *)
(* another provider.                                                        *)
RerouteOnlyOnEnvironmental ==
  [][stage = "executing" /\ stage' = "executing" /\ attempted' # attempted =>
       outcome'.errorClass \notin {"none", "AuthenticationError", "APIError", "UnknownError"}]_vars

(* policy.js:118-130: a rate limit or a timeout is given up on only when    *)
(* every provider of the chain has been tried.                              *)
GivesUpOnlyWhenExhausted ==
  stage = "logging" /\ outcome.status \in {"quota_exceeded", "timeout"} =>
    ToSet(chain) \subseteq ToSet(attempted)

(* policy.js:128-130: so is a connection failure, DNS or reset, whichever   *)
(* adapter reports it.                                                      *)
ConnectionFailuresReroute ==
  stage = "logging" /\ outcome.errorClass \in {"APIConnectionError", "ConnectionError"} =>
    ToSet(chain) \subseteq ToSet(attempted)

(* The order in which cmdRun tells a run's story in the ledger.             *)
Rank(type) ==
  CASE type = "task-routed" -> 1
    [] type = "route-decision-recorded" -> 2
    [] type \in {"task-completed", "task-failed"} -> 3
    [] type = "batch-quality-scored" -> 4
    [] type = "execution-trace-recorded" -> 6
    [] OTHER -> 5

Before(e, f) ==
  \/ e.task < f.task
  \/ e.task = f.task /\ Rank(e.type) < Rank(f.type)
  \/ e.task = f.task /\ Rank(e.type) = Rank(f.type) /\ e.batch < f.batch

InOrder(s) == \A i, j \in DOMAIN s : i < j => Before(s[i], s[j])

(* A reader of the ledger sees each run's events in pipeline order, one     *)
(* outcome, at most one score per batch and one merge, never twice, also    *)
(* across crashes.                                                          *)
LedgerTellsRunsInOrder == InOrder(readEvents(file))

(* supabase-store.js header: the mirror is a best-effort copy: what it      *)
(* holds is in the local ledger, in the same order, and it never holds the  *)
(* thin task-routed event.                                                  *)
MirrorIsACopy ==
  /\ InOrder(mirror)
  /\ ToSet(mirror) \subseteq {e \in ToSet(readEvents(file)) : e.type # "task-routed"}

(* Every run that is not killed ends: the retry loop is bounded by the      *)
(* chain.                                                                   *)
RunsEnd == \A t \in 1..MaxRuns : (task = t /\ stage = "intake") ~> (task = t /\ Ended)

(* The run implements the abstract verdict.                                 *)
Verdict == INSTANCE RunVerdict WITH
  verdict <- IF PassedRun THEN "pass" ELSE IF Ended THEN "fail" ELSE "open",
  settled <- {b \in Batches : results[b] # NoResult},
  usable  <- {b \in Batches : UsableResult(b)}

ImplementsVerdict == Verdict!Spec

(* Without crashes the ledger is an append-only log of the runs' events.    *)
Log == INSTANCE AppendOnlyLog WITH Event <- LedgerEvent, log <- readEvents(file)
ImplementsAppendOnlyLog == Log!Spec
=============================================================================
