# Quorum / BATON: a TLA+ verification project

This directory models the coordination logic of the repository: the code that
routes a task to providers, executes it, decides whether the answer may be
trusted, keeps the record of it, and resumes after a failure. The modules are
checked with TLC on small instances; what matters most is proved with TLAPS for
every value of the constants. `PROJECT.json` lists the runs, the theorems, the
hazards they answer to and the source lines behind every definition.

## 1. The system

| Component | State it keeps | Operations | Talks to |
|---|---|---|---|
| ledger store, `packages/dispatch/ledger/store.js` | one JSONL file | `appendEvent`, `readEvents`, `computePoolState` | every other component reads or writes it |
| Supabase mirror, `ledger/supabase-store.js` | a table of events | one insert per event | called by `appendDual` after the local append |
| executor, `executor/` | none | `executeBatch`, the error classifiers, `pickNextFallbackProvider` | one SDK call per batch and attempt |
| dispatcher policy, `dispatcher/policy.js` | none (reads the ledger) | `decideRoute`, `shouldRetryOnFallback`, `decideFallback` | ranking, ledger, executor |
| merge, `merge/` | none | `mergeRoute`, `crossCheckBatches`, `compareClaims` | executor's outcomes, scoring |
| trace and signature, `trace/`, `packages/sign/` | none | assemble, sign, verify | the merged result |
| `quorum run`, `bin/quorum.js` | the run in memory, the exit code | `cmdRun` | all of the above |
| degradation campaign, `bench/degradation/` | the ledger as checkpoint; halted providers in memory | `runCampaign`, `runCampaignCell` | executor, merge, ledger |
| CLI session, `bin/lib/auth.js` | OS keychain entry, `session.json` | `login`, `logout`, `whoami` | the web app's HTTP API (not in the repository) |
| provider fit and ranking, `provider-profiles.js`, `route-contracts.js` | none | `estimateProviderFit`, `rankProviders`, `planBatches` | the learned curves |
| reputation, `ledger/reputation.js` | events in the ledger | `recordPrediction`, `recordOutcome`, `getAgentTrustScore` | the ledger; read by `decideRoute` |
| curves and forecasts, `ledger/curves.js`, `profiling/predict.js`, `trace/outcome.js` | events in the ledger | `fitDegradationCurve`, `predictQuality`, `compareOutcome` | the ledger; the ranking |
| quality scoring, `quality/score.js` | none | `scoreBatch` | `mergeRoute`; the ledger |
| claim alignment, `packages/align/` | none | `mintClaims`, `mintCandidates`, `align`, `diffClaim`, `gate` | the registry |
| claim registry, `packages/registry/` | nonces, version floors, attestations, all in memory | `checkReplay`, `accept`, `record`, `applyProposal` | alignment, signatures |
| stake contract, `packages/stake/contracts/` | stakes, the guard and the ether, on chain | `stake`, `slash`, `unstake` | the receivers of its transfers, which may call back |
| slashing policy, `packages/stake/policy/` | the identity registry | `register`, `lookup`, `evaluateAndSlash` | quality scores, the merge's contradictions and agreements, the contract |

What is hard about it:

* **Writes that are not atomic.** A ledger append is one `appendFileSync`, which
  a power loss can cut anywhere; a run is a dozen of them; a campaign cell is
  two; an event goes to two stores one after the other; a session is in one of
  two tiers.
* **Restart on what was left.** The campaign's only checkpoint is the ledger; a
  second run appends to the file a killed one left; the next command reads
  whichever session tier it can reach.
* **Failure classes.** Two families of adapters name the same failure
  differently, and the retry predicate looks at the names.
* **Verdicts.** Exit code 0 is consumed by scripts (`quorum run && deploy`), so
  any way of getting it without a usable result is a defect.
* **Money moved on evidence.** A verdict is reached from several batches, an
  address is looked up, and a transaction is mined some awaits later, while the
  agents stake and withdraw. Each transfer hands control to its receiver, which
  may call the contract again or refuse the ether and undo all that was nested.
* **Decisions on a shared projection.** Quota, trust and curves are recomputed
  from the ledger at each decision; nothing is reserved, several processes decide
  at once, and the lines a crash took are missing from what they read.
* **Refusing to guess.** Alignment is greedy over floating scores, a percentage
  may take its base from an earlier sentence, and acceptance is the absence of a
  failing delta: whatever one stage overlooks is accepted in silence.
* **Signed messages.** Bundles come late, early, twice and out of order, check and
  accept are two calls, and all that the registry remembers is in memory.
* **Timeouts and lost answers.** The login handshake polls under a deadline, and
  its exchange code is spent even when the answer is lost.

What makes each component correct is stated in section 3; section 5 has what is
not modelled. `PROJECT.json` lists the hazards line by line.

## 2. The modules

| Module | Models | Composes |
|---|---|---|
| `Ledger` | the JSONL file as a value: `appendEvent`, `readEvents`, the files a torn append leaves | |
| `AppendOnlyLog` | abstract: a log that only grows and whose readers see everything | |
| `LedgerStore` | processes appending to one file, with power losses | `Ledger` |
| `Executor` | one provider call: outcomes, both classifiers, the retry predicate | |
| `RunVerdict` | abstract: what a script may conclude from a run's exit code | |
| `QuorumRun` | `cmdRun`: every call, append and mirror insert a step; kills and restarts | `Executor`, `Ledger`; implements `RunVerdict` and `AppendOnlyLog` |
| `FoldProofs` | lemmas on the recursions the modules use: sums over finite sets, `FlattenSeq`, places in an order, lists of sets | `TLAPS` |
| `LedgerProofs` | what a write, finished or torn, does to what readers see | `Ledger`, `FoldProofs` |
| `QuorumRunProofs` | the theorems about `QuorumRun` | `QuorumRun`, `LedgerProofs` |
| `Campaign` | `runCampaign` with kills and fresh invocations on the same ledger | `Executor`, `Ledger` |
| `CampaignProofs` | the theorems about `Campaign` | `Campaign`, `LedgerProofs` |
| `Session` | `login` and `logout`, the two session tiers, the web app's side | |
| `SessionProofs` | the theorems about `Session` | `Session`, `TLAPS` |
| `AgentStake` | the staking contract, with nested transfers and reverts | |
| `SlashPolicy` | from claims to verdicts: `crossCheckBatches`, whose backing counts, who is condemned | |
| `Enforcement` | `evaluateAndSlash`, the registry, the agents: lookups, transactions and receipts as steps | `AgentStake`, `SlashPolicy` |
| `EnforcementProofs` | the theorems about `Enforcement` and the contract in it | `Enforcement`, `FoldProofs` |
| `Fraction` | exact fractions for the code's floating numbers, the stable sort of rankings | |
| `Reputation` | accuracy, history, tier, decay and trust of an agent, from the ledger's events | `Fraction` |
| `Curves` | buckets of context load, learned curves per workload and over all | `Fraction` |
| `Routing` | fit, ranking, batch plans, the four gates of `decideRoute` | `Reputation`, `Curves` |
| `Quality` | batch scores, `predictQuality`, `compareOutcome` | `Routing` |
| `Dispatch` | processes that predict, route, execute, score and settle tasks over one ledger, with crashes | `Ledger`, `Quality` |
| `DispatchProofs` | the theorems about `Dispatch`: its ledger, plans, forecasts, curves, trust and quota | `Dispatch`, `LedgerProofs` |
| `Quantity` | the quantities of a sentence: bands, bases, suppressed matches | |
| `Extract` | the one parser: sentences to cores, `mintClaims`, `mintCandidates` | `Quantity` |
| `Score` | the three channels of similarity and the score of a pair | `Extract` |
| `Align` | `align`: matched, ambiguous, supporting, unaligned, dropped | `Score` |
| `Diff` | `diffClaim`: the four classes of corruption and their severities | `Extract` |
| `Gate` | `gate` and what the constructors of `contract.js` refuse | `Align`, `Diff` |
| `Transitions` | the five proposals of `transitions.js` and their verdicts | `Gate` |
| `ReplayGuard` | `checkReplay`, `accept`, the equivocation store; deliveries and restarts | |
| `ClaimRegistry` | the claims of a document, the gate on its restatements, signed proposals on the registry | `Transitions`, `ReplayGuard` |
| `RegistryProofs` | the theorems about the parser, the scores, the walk of `align`, the differs, the gate, `ReplayGuard` and `ClaimRegistry` | `ClaimRegistry`, `FoldProofs` |
| `MCQuorumRun`, `MCCampaign`, `MCEnforcement`, `MCDispatch`, `MCClaims` | values for constants that a `.cfg` cannot write | |

### State and code

*Ledger.* `file.lines` are the lines that end in a newline, each `<<e>>` when it
parses and `<<>>` when it does not; `file.tail` holds the line a power loss left
without its newline, if any. `readEvents` flattens them, which is `JSON.parse`
line by line with a skip. Text written after a tail joins it, and the joined
line does not parse: that is the whole of the non-trivial behaviour of
`appendFileSync` under crashes. The torn line itself may be empty, partial or
complete but for its newline.

*QuorumRun.* The JavaScript runs to its next `await` or file write without
interruption, so those are the steps. `stage` is the place in `cmdRun`:

| stage | next step | action |
|---|---|---|
| `intake` | no credentials, or rank and route, with the `task-routed` append of `logRouteDecision` | `NoProviders`, `decideRoute` |
| `routed` | append of the route decision, first batch | `RecordDecision` |
| `executing` | one provider call, then settle or reroute | `Settle`, `Reroute` |
| `logging` | append of the batch's outcome, next batch | `LogOutcome` |
| `merged` | append of each parsed batch's score, then of the merge | `ScoreBatch`, `RecordMerge` |
| `tracing` | sign, verify, append the trace | `RecordTrace` |
| `closing` | the exit code | `Finish` |

`pending` is the mirror insert in flight; `appendDual` awaits it, so nothing
else of the run moves meanwhile (`MirrorWrite`). `LedgerWriteFails` is a throw
out of `appendFileSync`, `Crash` a kill or a power loss, `NextRun` the next
invocation. The four-gate decision of `decideRoute` is not in this module but in
`Routing`: `cmdRun` always passes `operatorOverride`, which takes the branch
modelled here.

*Campaign.* `pos` is the loop variable, `halted` is `haltedProviders`, and
`isCellAlreadyCompleted` is evaluated on what `readEvents` can parse. `calls`
and `crashes` are history variables for the properties.

*Session.* `keychain` and `sessionFile` are the tiers, `keychainUp` whether the
running command gets to the keychain (daemon down, `QUORUM_SESSION_BACKEND`).
`request`, `issued` and `active` are the web app's side, modelled from the calls
`auth.js` makes because that server is not in the repository. `told` and
`steady` are history: what the commands printed, and whether the reachability of
the tiers ever changed.

*AgentStake.* `frames` is the stack of transfers under way, each with what a
revert of its call restores. During a transfer only the receiver acts: it may
call `stake`, `slash` or `unstake` again, directly or through another contract,
return (`TransferReturns`) or refuse (`TransferRefused`, after which `require(ok)`
undoes the call and everything nested in it). `code` says which accounts are
contracts; the others return at once. A call that a `require` rejects changes
nothing and is no step. `slash` does not take the guard, as in the code (the
comment at `AgentStake.sol:104-107` says it does); what the guard covers is
stated as it is coded. `moved` is history.

*SlashPolicy.* A source is a `(provider, batchIndex)` pair. Values lie on one
scale and agree within a distance of one, which keeps what matters of the
relative tolerance: agreement is not transitive, so a third batch may agree with
both sides of a contradiction.

*Enforcement.* Each `await` of `evaluateAndSlash` ends a step:

| phase | next step | action |
|---|---|---|
| `idle`, `returned`, `threw` | a new call, through the lookup of the quality score it is given | `evaluateQualityFailure` |
| `running`, contradictions left | one verdict with its lookup | `evaluateContradiction` |
| `running`, all judged | the next slash mined, or no slash left | `SubmitSlash`, `Return` |
| `mining` | the receipt, once the transfer has ended | `Receipt` |
| any lookup, transaction or receipt | it fails | `Throw` |

Between any two steps agents call the contract and `register` rebinds a
provider. The contradictions of a route are judged in any order, which is more
than the array order of the code. Amounts come from two sets: the formulas
that map a score or a delta to ether are arithmetic without effect on who is
slashed. `mined` and `bindings` are history.

*Dispatch.* A process takes a task through these steps; each is one synchronous
stretch of JavaScript that ends in at most one append:

| stage | next step | action |
|---|---|---|
| `idle` or `predicting` | append of one prediction for the task taken up | `RecordPrediction` |
| | `decideRoute`, or the override of `quorum run`, on what the ledger shows now; append of the route | `Route` |
| `executing`, batches left | one batch, with its outcome's append | `ExecuteBatch` |
| all batches done, in `quorum run` | the forecasts, before any score | `PredictQuality` |
| | append of one batch's score | `ScoreBatch` |
| | append of the trace with the accuracy of the forecasts | `RecordTrace` |
| | append of one prediction's outcome, or a throw if it cannot be read | `RecordOutcome` |

An append may be cut by a power loss, which ends its process and leaves a torn
line. `usedToday` and `remaining` are `computePoolState`. Numbers that the code
holds in floating point are fractions; what that leaves out is the rounding of a
last binary digit. A list the code filters and then only counts, sums or
averages is the set of positions it keeps, and a stable sort is each element at
its place (`Ranked`): one more than the number of elements before it. `spent` is
history: what calls used, whether the ledger shows it or not; a call may use more
tokens than estimated, or fewer.

*The claims.* A document is a sequence of paragraphs of sentences, and a
sentence is what the regular expressions and vocabularies match in it: words,
names, raw quantities with the noun each counts, caveats. Units are those nouns as
they stand in the text. How they are spelt is given by three constants: `Stem`, the
parser's stem of each noun (`lexicon.js`); `StemDice`, how alike two stems are in
trigrams (`score.js`); and `AlikeUnits`, the pairs `diff.js` takes for one unit,
because of its own stemmer or a trigram Dice of 0.72. The last is symmetric and not
transitive, and wider than equality of stems: with the terms of the run,
"dispatches" and "dispatchers" (0.80) are one unit for the differs and two for the
parser. `diffDenominator` and `diffUnit` use `unitCompatible`, as the code does. From there on the modules follow the code to the
verdict: `Quantity` turns raw matches into bands and bases, `Extract` gives a
percentage the base its paragraph offers, `Score` computes the channels (with
the square roots of whole numbers, and a table `Ln100` of their logarithms),
`Align` walks the pairs from the best down (`Walk`, a recursion over the set of
pairs: the rows of all but the last pair, and then the last), `Diff` names what
was lost, `Gate` decides. Where the code filters a list whose order nothing
reads again (the quantities a sentence keeps, the verdicts of a report), the
modules hold a set; where it searches one (`find`), they take the least
position; ids place claims and candidates in the canonical order.
`ClaimRegistry` has two kinds of behaviour: one document checked against its
claims, or bundles on their way to a registry that holds them. In the second
each delivery is `Receive` (record, then check), and a bundle that passed is
decided in a later step (`Decide`), after any number of other deliveries,
restarts and ticks of the clock. A bundle signed without a nonce is recorded and
makes `check` throw (`HasReplayFields`). The proposal of a bundle is judged by
`applyProposal` with the real gate.

### Faulty variants

Next to a definition stand a few *faulty variants* of it: the same operator with
a bug a programmer could have made (a newline forgotten, a guard dropped, a
deadline restarted). No specification uses them. `PROJECT.json` pairs each
property with a variant that breaks it, as evidence that the property is about
the code and not about the shape of the model.

## 3. The runs

| Run | Instance | What it shows |
|---|---|---|
| `LedgerStore_torn.cfg` | 3 events, 1 power loss | **violation** of `ReadableStaysReadable` |
| `QuorumRun_main.cfg` | 3 providers (one on Gemini's adapter), 2 batches, 3 answers of which two contradict each other and one does not parse, 4 failures, 1 run, mirror always failing | the verdict (`ExitZeroIsTrustworthy`), the fallback chain (`AttemptsFollowChain`, `GivesUpOnlyWhenExhausted`, `RerouteOnlyOnEnvironmental`), the ledger as a log (`ImplementsAppendOnlyLog`), termination (`RunsEnd`) |
| `QuorumRun_crash.cfg` | 1 provider, 1 batch, 2 runs, every crash, mirror succeeding or failing | `ExitZeroLeavesEvidence`, `LedgerTellsRunsInOrder` across crashes, `MirrorIsACopy`, `ImplementsVerdict` |
| `QuorumRun_gemini.cfg` | 2 providers, connection failures | **violation** of `ConnectionFailuresReroute` |
| `Campaign_restarts.cfg` | 2 providers with 2 cells each, rate limits, 2 crashes, any number of invocations | `OneResultPerCell`, `CrashCostsTwoCalls`, `CampaignCompletes` |
| `Campaign_duplicate.cfg` | 1 cell, 1 crash | **violation** of `OneMeasurementPerCell` |
| `Session_steady.cfg` | 3 logins, 2 polls each | `SessionIsWhatWasTold` while the tiers stay reachable or stay not, `LoginEnds` |
| `Session_logout.cfg` | 1 login | **violation** of `LogoutForgets` |
| `Enforcement_main.cfg` | 3 batches of 2 providers, claims about 2 subjects, stakes of 2 and 1, receivers that may be contracts, transfers nested twice, a provider registered at either of two addresses at any time, any number of evaluations | the money (`StakesAccountedFor`, `Solvent`), the flag and the guard (`ActiveIffFunded`, `GuardCoversOneWithdrawal`), the verdicts (`SlashedSideStandsAlone`) and the transactions (`FindingsEnforcedInOrder`, `SlashHitsTheWrongSide`) |
| `Dispatch_main.cfg` | 2 processes (interchangeable), 2 agents, a provider with a daily quota of 7 and one whose context overflows, tasks of 3 and 6 items, answers that agree or contradict and take a token more or less than estimated, an empty ledger or one with a settled task, 2 tasks, 5 appends, 1 power loss, 2 changes of day | the ledger under crashes (`LossIsReported`, `ReadersSeeAppendOrder`), quota (`QuotaCommitmentBounded`), trust (`ShortcutNeedsAHit`, `OutcomesFollowTheirPredictions`), plans (`PlansCoverTheTask`), learning (`LearnedFromMeasurements`, `ForecastsPrecedeScores`) |
| `Claims_main.cfg` | 57 origin documents of up to 3 sentences from 6, in one or two paragraphs; restatements of up to 2 sentences from 11 and of 3 from 4, of one that renames the unit, alike or not, alone or before one of 4, and the verbatim copy; and pairs of bundles with 8 proposals, 2 keys, 2 versions, 2 nonces or none, sent on time or early, a clock of 0 to 2, 1 restart | the receipts (`ReceiptsComplete`, `NothingGuessed`, `OrderIndependent`), the verdicts (`CopyIsNeverCorrupt`, `AcceptedIsFaithful`), the registry (`PassesAgainOnlyAfterRestart`, `FloorIsHighestAccepted`, `EquivocationIsEvidenced`, `AcceptedProposalsAreSound`) |
| `Enforcement_backing.cfg` | the same batches with any claims, no stakes | **violation** of `BackingIsOfTheClaim` |

Why the bounds are enough:

* Ledger: an append interacts with the file only through the tail, which the
  next append consumes. One crash and two more appends give a tail, the line
  joined to it and a whole line after that.
* Run: with three providers there is a primary, a fallback to skip and one left,
  so a chain can be followed, exhausted or followed out of order; two batches are
  the fewest with a contradiction and with a second pass through the loop. Chains
  and plans of any length are covered by the theorems. Crashes need two runs, so
  that one can start on a ledger the other left torn; there one provider and one
  batch suffice because the recording does not depend on how many there are, and
  `ExitZeroEvidence` proves it for any number.
* Campaign: two cells per provider so that a halted provider has a cell left, two
  crashes so that a torn line can meet the line after it twice.
* Session: three logins so that a session may be replaced while one is lost; two
  polls so that the deadline is reached with and without an answer.
* Enforcement: three batches are a contradiction and one third party; with the
  second subject two batches may agree and contradict each other at once. Two
  transfers nested in each other are the fewest in which a revert of the outer
  undoes the inner, and a withdrawal meets the guard. A stake of two can be
  withdrawn in part and slashed in part. The provider slashed is registered at
  either agent, so that a rebinding can move a verdict to another stake.
  Theorems cover any depth, any stakes and any number of batches.
* Dispatch: two processes race for one quota; a quota of 7 is more than one task
  of 3 and less than two of 6, so that two decisions can both be comfortable and
  together too much. A task of 6 items needs two batches of 3. Five appends are
  a decision, its batches, a score and an outcome of one process with another
  decision in between; the ledger with an earlier task puts a process where trust
  and a first score already exist, and the windows (`RecentWindow`, `DecayDays`,
  `MinBucketSamples`) are shrunk so that they are crossed. All four gates, the
  override through a learned curve, a commitment beyond the quota, a lost
  reputation line and an outcome whose prediction is gone are reached.
* Claims: the sentences are chosen so that every case of the parser occurs (a
  base of its own, from a ratio, from an earlier sentence, none; vague words,
  hedges, years) and every class of corruption, a unit changed to an alike one and to
  another included; three sentences are the fewest
  with a claim, a rival within the margin and a candidate that supports one.
  Two bundles meet in every way a pair can (same nonce, version, key, or not);
  the theorems cover any number of bundles, ticks and restarts.

Fairness. `RunsEnd` assumes that the run takes its next step if it can
(`WF_vars(Running)`): Node runs the promise chain unless the process dies, and
each SDK call is bounded by its timeout. `CampaignCompletes` also assumes that
someone starts the campaign again (`WF_vars(Invoke)`): without it the plan is
simply never finished; crashes are bounded, so after the last one a whole pass
happens. `LoginEnds` assumes fairness of the running command only, not of the
user, who may never answer. Deadlock is checked in the campaign and session
runs; the ledger's appends, the run's invocations, the dispatcher's tasks, the
bundles' clock and the agents' money are finite, so the other cfgs switch it
off, and `RunsEnd` covers the run. No
liveness is stated of `Enforcement`: nothing obliges an agent to act, a receiver
to return or a transaction to be mined. Nor of `Dispatch` and `ClaimRegistry`:
their steps are single synchronous calls of programs that may stop at any time.

### What the models showed besides

Five runs expect a violation; `PROJECT.json` quotes for each what the code or its
comments promise. Some observations are true of the model as of the code and
have no run of their own; a maintainer may want to know them. The first two go
against a document of the repository, the others break no promise, or only a
comment's wording.

* `diff.js:394`: `diffCaveats` compares the caveats of two sentences and never reads
  `neighbours`. "44% of the 289 dispatches failed an unverified check" restated as
  "44% of the 289 dispatches failed the check. This is unverified." is refused for
  `caveat_loss`; `contract.js:466-469` and `PROJECT-REFERENCE.md:81` say that a hoisted
  caveat is not reported as stripped.
* `diff.js:108`, `diff.js:305`: alike units are one unit, so "44% of the 289
  dispatches" restated as "44% of the 289 dispatchers" is accepted;
  `PROJECT-REFERENCE.md:79` describes the tolerance as one for pluralization.
  "patients" and "patents" (0.74) are also one. `AcceptedIsFaithful` and its theorem
  therefore speak of units up to `AlikeUnits`, and of no more.
* `align.js:165-171`: a claim is dropped as `ambiguous_only` or `no_candidate` by
  the best score of any candidate, also one that went to another claim, so the
  reason may not be the true one. A claim may have an ambiguous row (REJECT) and
  a matched row (ACCEPT) in one report.
* A verbatim copy of a document with two nearly alike claims is refused as
  ambiguous; this is why `CopyIsNeverCorrupt` has its exception.
* `diff.js`: a caveat whose term is in no family is judged by the parser's kind:
  losing "anecdotal" refuses a restatement, losing "nearly" or "compared with" is a
  warning.
* `slash-policy.js:286`: an address is slashed as it was bound at the lookup. A
  provider registered elsewhere before the transaction is mined leaves its old
  address to pay; `SlashHitsTheWrongSide` is stated of the binding at the lookup
  and allows this.
* `auth.js:406`: a session whose answer is lost is active on the server and in no
  tier. `SessionIsWhatWasTold` speaks of the tiers and does not see it.
* `equivocation.js:45-52`: the same statement honestly signed again under a fresh
  nonce has other bytes, and is reported as equivocation.
* `replay.js:77-111`: a bundle refused for a passing reason has used its nonce up,
  and two bundles of one version both pass if checked before either is accepted.
* `policy.js:272-293`: the quota gate reserves nothing. With n processes the
  commitment may reach (n + 1) / 2 of the quota, plus what the ledger did not
  show, and a failed call is recorded with zero tokens.
* `policy.js:606`: one prediction within ten percent gives an agent a trust above
  0.9 and the shortcut past the quota gate; trust never decays, only the tier
  does; a lost reputation line can raise it.
* `policy.js:339-342`: an agent's recommended batch size is capped by the
  provider's maximum, not by its safe context.
* `provider-profiles.js` looks a learned value up by the number of batches,
  `curves.js` files it by context ratio, so the `high` bucket is never learned
  from batches the planner cut.
* `predict.js` reports `static_prior` as its source even when the learned lookup
  answered.

## 4. The proofs

Each theorem holds for every value of the constants that meets the assumptions
its section names. All the theorems about state machines follow one pattern: an
invariant holds initially, each action preserves it, and it implies the property
TLC checks on the instance of section 3.

**Recursion.** `SumFunction`, `FlattenSeq` and the list of a set, of the
community modules, are recursive functions or folds; so are the walk of `Align`
and the integer square root of `Score`. The provers do not induct over data, so
the proofs show that the function each recursion describes exists and is the
only one, by the least size or length that refutes it (`LeastNatural` of
`FoldProofs`). It yields what the other proofs cite: a sum changes by what one
of its terms does and is at most as many times a bound as it has terms,
`FlattenSeq` of one more line appends the line, `SetToSeq` lists a finite set,
the walk over one more pair decides that pair last, and the root of a whole
number is a whole number. A ranking by places needs none of it: that each place
is taken by exactly one element is a count (`PlacesAreTaken`).

**The ledger** (`LedgerProofs`). `ReadersSeeLogGrow` states for a file of any
length and any damage what a write does to a reader: everything seen before
stays, in its place, except the last event when its line was torn; and only the
event being written is new, at the end. It takes no assumption, and four of the
modules below rest on it.

**The run** (`QuorumRunProofs`), for every set of providers, outputs, conflicts
and failures, any number of batches and runs, with crashes and failed writes
allowed:

| Theorem | Statement |
|---|---|
| `TypeCorrect` | `Spec => []TypeOK` |
| `AttemptsFollowTheChain` | `Spec => []AttemptsFollowChain` |
| `GivesUpWhenExhausted` | `Spec => []GivesUpOnlyWhenExhausted` |
| `ReroutesOnlyEnvironmental` | `Spec => RerouteOnlyOnEnvironmental` |
| `ExitZeroTrustworthy` | `Spec => []ExitZeroIsTrustworthy` |
| `ExitZeroEvidence` | `Spec => []ExitZeroLeavesEvidence` |
| `RunImplementsVerdict` | `Spec => ImplementsVerdict` |
| `LedgerInOrder` | `Spec => []LedgerTellsRunsInOrder` |
| `MirrorCopies` | `Spec => []MirrorIsACopy` |
| `LedgerImplementsLog` | `~MayCrash` implies `Spec => ImplementsAppendOnlyLog` |

Assumptions: the set of providers is finite, there is at least one batch and
one run, the sentinel values are not members of the sets they stand outside of
(`GeminiAssumption`, `BoundAssumptions`, `DataAssumptions`).

`TypeOK` alone is not inductive, because a step from `logging` writes `provider`
into the results: `Routed` adds that between routing and the exit there is a
primary and a current provider. The fallback properties are inductive with it;
the key step is `PicksNext`, that the first provider of the chain not yet tried
is the next in order, which makes `pickNextFallbackProvider`'s search a plain
walk. For the verdict and the evidence the strengthening is `Evidence`, one
conjunct per stage of the story: the ledger has no torn line while a run is under
way past its first append (`LogClean`: the first append of a run absorbs the tail
an earlier crash left, and it is the `task-routed` event, on which no verdict
depends), and what the run has done so far is on record (`DecisionOnRecord`,
`OutcomesOnRecord`, `ScoresOnRecord`, `MergeOnRecord`, `TraceOnRecord`). It is
preserved because an append after a whole line is recorded (`AppendRecords`), an
append never takes a terminated line away (`AppendKeepsRecords`), and what is
written is a function of the `Story` (`StoryDetermines`). The order of the ledger
needs more: everything readable of this run lies before what it writes next
(`StorySoFar`, with `ScoredInOrder` for the loop over batches), so that each
append extends an ordered log and a torn one only shortens it. The mirror is
proved with the insert in flight appended to it (`MirrorSoFar`). The refinement
of the verdict adds `Unsettled`, that batches the loop has not reached have no
result; every step settles one new batch, passes, fails, starts over or stutters.

**The campaign** (`CampaignProofs`), for any plan, failures and number of
crashes (`CampaignAssumptions`): `TypeCorrect`, `ResultsOnce`
(`[]OneResultPerCell`), `TwoCallsPerCrash` (`[]CrashCostsTwoCalls`). The first
needs that a cell under way has no completion a reader could find
(`CellInHand`), which a torn line of an earlier crash must not bring back. The
bound is an accounting invariant, `Budget`: every call made is paid for by a
readable completion, by being in flight, or by two per crash less what the
present torn line may still cost (`AtRisk`: two when it holds a completion,
whose cell was skipped and whose line the next completion runs into).

**The session** (`SessionProofs`), for any number of logins and polls:
`TypeCorrect`, `SessionWasTold` (`[]SessionIsWhatWasTold`). `RoomForOne` makes the
types inductive. `ToldTheTruth` is the property for every stage: with steady tiers
one of them is used and the other stays empty (`OneTier`), and what the next
command would find is what was told, except between the two deletions of a logout.

**The money** (`EnforcementProofs`), for any accounts and their money, any depth
of nested transfers, any sources, subjects, claims, amounts and registrations:

| Theorem | Statement |
|---|---|
| `TypeCorrect` | `Spec => []TypeOK` |
| `StakesAreAccountedFor` | `Spec => []StakesAccountedFor` |
| `StaysSolvent` | `Spec => []Solvent` |
| `ActiveMeansFunded` | `Spec => []ActiveIffFunded` |
| `GuardCovers` | `Spec => []GuardCoversOneWithdrawal` |
| `EnforcedInOrder` | `Spec => []FindingsEnforcedInOrder` |
| `SlashesHitTheWrongSide` | `Spec => []SlashHitsTheWrongSide` |
| `SlashedStandsAlone` | `Spec => []SlashedSideStandsAlone` |

Assumptions: `AccountAssumption` (there are finitely many accounts, without which
there is no sum of the stakes), `ClaimAssumption` and `EnforcementAssumption`: the
constants have their types and the sentinels are not members of the sets they
stand outside of.

The books alone are not inductive: a revert replaces the present state by one
kept on the stack. `ContractInv` therefore says of every frame that what it would
restore is `Sound` and that the guard in it is taken exactly if a transfer
further out took it (`FramesSound`), next to the same of the present state
(`GuardTaken`); `SolventInv` says of each frame that its balance is the sum of
its stakes. Each call preserves them (`StakePreserves`, `SlashPreserves`,
`UnstakePreserves`, `DebitKeepsSolvent`), and so do the two ways a transfer ends.
`EvaluatorInv` ties the loop to what is mined: everything decided before `next`
has been slashed, and every finding that names an address was looked up when the
provider was bound to it. `SlashedSideStandsAlone` is about a whole call: later
findings of the same call must not change the evidence an earlier one rested on
(`EvidenceKept`), and the side condemned is the only one flagged
(`CondemnedStandsAlone`).

**The shared ledger** (`DispatchProofs`), for any processes, tasks, profiles,
predictions, answers, quotas and bounds:

| Theorem | Statement |
|---|---|
| `ReadInOrder` | `Spec => []ReadersSeeAppendOrder` |
| `LossReported` | `Spec => []LossIsReported` |
| `OutcomesAuditable` | `Spec => []OutcomesFollowTheirPredictions` |
| `PlansCover` | `Spec => []PlansCoverTheTask` |
| `ForecastsPrecede` | `Spec => []ForecastsPrecedeScores` |
| `CurvesAreLearned` | `Spec => []LearnedFromMeasurements` |
| `ShortcutsEarned` | `Spec => []ShortcutNeedsAHit` |
| `QuotaBounded` | `Spec => []QuotaCommitmentBounded` |

Assumptions: `ProfileAssumption` and `SamplesAssumption`, the numbers of a
provider's profile and of the curves; `WindowAssumption`; `DispatchAssumptions`,
the types of the bounds, tasks, predictions and answers, that there are finitely
many processes, and that a provider has at most one quota; and `PastAssumption`,
that a ledger of before was written by the same code: no event twice,
well-formed numbers, no outcome without its prediction, no shortcut without a
hit.

There are three invariants, each preserved with the help of those before it.

`Sound` rests on one fact, that no event is ever written twice: whatever was
written about a task, in full or in part, lies behind what the process that has
it in hand has done (`FreshInv`), each write lies ahead of it, and no two
processes have the same task (`WorkInv`). So losing lines cannot confuse one
event with another. The count of `LossIsReported` is the inductive `LossInv`: the
lost events are at most the torn lines, and torn lines and tail are at most the
writes that were cut. An outcome is written only after its prediction was read
from the same file, and a later write takes away at most the last event, so the
order of the two survives.

`Informed` says what a decision may make of what it reads. What was written are
numbers of the kind the code writes (`WellFormed`) and no event is read twice,
so a count over the file counts events (`CurvesAreLearned`). Every route that
skipped the quota gate was earned by an outcome already written
(`ShortcutsWereEarned`), because a trust above 0.9 is an average in which some
accuracy is above 90. Work in hand follows its plan (`Underway`): the results
are those of the first batches, and the chunks of a plan laid end to end are the
items of the task, whichever of the four gates or the override cut it. Its
forecasts lie among the values it could have read before it scored anything
(`Foretold`): the means of a bucket lie between the least and the greatest of
its scores.

`Solvent` is the accounting behind `QuotaBounded`. For a provider with a quota,
the balance is what approved tasks used, less what they took beyond their
estimate and what the ledger does not show; a task approved by the quota gate
owes the expected tokens of the batches it has not run. No process owes more
than half a quota, and twice the balance and all that is owed stays within n + 1
quotas. A batch moves its estimate from what is owed to the balance; a line lost
only lowers the balance; midnight sets it to zero; and the gate approves only
what is less than half of what the ledger shows to be left, so that one process
more adds half a quota at most (`CommitsWithin`). The bound for one process says
that the gate alone keeps it within its quota. That a provider has at most one
quota is needed there: the gate reads one, and the statement is about each.

**The claims and the registry** (`RegistryProofs`), for any documents, bundles,
proposals, ages, clocks and restarts:

| Theorem | Statement |
|---|---|
| `DiffIsFaithful` | two parsed sentences without a failing delta are a claim and a `Faithful` restatement: base, value and serious caveats kept, units equal or in `AlikeUnits` |
| `GateAcceptsFaithful` | the gate accepts only what was matched unambiguously and is `Faithful`, for any alignment |
| `GateIgnoresOrder` | reversing claims and candidates does not change `gate` |
| `AcceptedAreFaithful` | `Spec => []AcceptedIsFaithful` |
| `OrderIsIgnored` | `Spec => []OrderIndependent` |
| `GateDoesNotGuess` | for any claims and candidates, what `align` matches is `Unguessed` |
| `NothingIsGuessed` | `Spec => []NothingGuessed` |
| `GateGivesReceipts` | for any claims and candidates, what `gate` reports is `Received` |
| `ReceiptsAreComplete` | `Spec => []ReceiptsComplete` |
| `AcceptedAreSound` | `Spec => []AcceptedProposalsAreSound` |
| `RegistryObeysGuard` | `Spec => GuardSpec` |
| `NoncesPassOnce` | `Spec => []PassesAgainOnlyAfterRestart` |
| `FloorsAreHighest` | `Spec => []FloorIsHighestAccepted` |
| `EquivocationsAreEvidenced` | `Spec => []EquivocationIsEvidenced` |

Assumptions: `DocumentAssumption`, a document is sequences of sentences whose
matches are words, finitely many names, hedges and numbers of the parser's tables,
and nouns that have a stem; `StemAssumption`, that no noun is the absent one;
`DiceAssumption`, that likenesses are percentages; `AlikeAssumption`, that alike units
are nouns and that the relation is symmetric, which is all the proofs know of it;
`LnAssumption` and `CorpusAssumption`, the logarithms grow and their table is
longer than the corpora; `ProposalAssumption`, a proposal carries at most what
the parser made;
`BundleAssumption`, `AgeAssumption`, `BoundsAssumption`, the types of the rest.

The chain of the claims runs along the pipeline. The parser makes cores whose
quantity lies in its own band (`IsCore`), from any matches and with any base a
paragraph offers; for such cores each of the four differs that finds no failure
leaves its clause of `Faithful` (`BaseKept`, `ValueKept`, `UnitKept`,
`CaveatsKept`; a unit is kept when it is the claim's or one alike), the band being needed where a missing overlap must mean a
material difference; the gate looks claim and candidate up by id and refuses
whatever fails (`FailsAreFound`); and `RegistryInv` carries this through the
steps, for proposals from `applyProposal` to the acceptances on record. This needs
nothing of the scores: acceptance is sound whatever the alignment does. The
order is ignored because ids number claims and candidates, and everything that
reads the arrays goes through the canonical order or through `findById`.

What the alignment itself does needs of the scores that they are whole numbers
up to 10000 (`ScoreIs`, `MatrixIs`), which takes the types of every channel, of
the square roots and of the sums of weights under them. The rest is `WalkInv`,
an invariant of the walk over sets of pairs that hold with each pair all that
precede it (`Downward`): the rows say the scores they were decided by
(`RowsAre`), a candidate has at most one row and a claim at most one match
(`OneRowEach`), a pair passed over was lost to a match at least as good
(`Decided`), and a match leads every other claim by the margin, unless that
claim is held by a candidate that suits it as well (`Leads`). From it each
candidate leaves `align` by one of three ways and each claim by one of two
(`LeavesOnce`, `MatchedOrDropped`), the reasons given for unaligned candidates
are true (`ReasonsAreTrue`), and nothing built on the way is refused by a
constructor of `contract.js` (`NoneThrows`).

`RegistryObeysGuard` takes the registry apart from its guard: `Decide` is either
of `Accept` and `Refuse`, so nothing about the gate is needed. The rest is an
invariant of `GuardSpec`, `GuardInv` (theorem `GuardInvariant`). What the
properties say of histories follows from what the guard holds now only through
`PassesRemembered`: what passed since the start is in `seenNonces`, and a check
saw no more acceptances than there are. Restarts are the case that needs the
types of the histories, since what is logged belongs to an earlier start than
any to come.

**Only model-checked**, and why:

* Liveness (`RunsEnd`, `CampaignCompletes`, `LoginEnds`): it needs fairness and
  `ENABLED`, which the prover does not handle.
* `CopyIsNeverCorrupt`: it depends on the scores themselves, that a sentence
  scores highest with itself and that of two nearly alike claims the one left
  over cannot be taken for the other. It holds on every document of the run; for
  documents at large it is not claimed.

Every other property that a passing run checks is stated by a theorem.

## 5. What is not modelled, and what is left

Not modelled, and why:

* Text: prompts, answers, errors, the tokenising of documents, the contents of
  the vocabularies, subjects read out of sentences (`normalizeClaim`), the
  keyword detectors of `classify.js`, reports and terminal output. What the code
  decides from a text is a field of a record or a constant.
* The last digit of floating-point numbers: scores are whole hundredths or exact
  fractions, so two that differ only by rounding are equal here.
* Cryptography: a signed trace verifies or it does not; a bundle is its signed
  bytes. The provider APIs, the web app behind the login and the chain under the
  contract are external, and modelled by what the code can see of them.
* Time as a quantity: the pacing of the campaign and the timeouts of calls. Days
  (`Dispatch`) and the age of bundles (`ReplayGuard`) are counters.
* The swarm demonstration, benchmarks, deployment scripts, the interactive
  set-up and the SQL migrations: linear scripts or declarations around the
  components above, in which no state outlives a run or no order matters.

In `Dispatch` a failed batch is not tried elsewhere (the fallback chain is
`QuorumRun`'s), and a settled task is never settled again, although
`recordOutcome` would allow it.

Left to do: which documents `CopyIsNeverCorrupt` holds for, beyond those of the
run; retries across providers in `Dispatch`; the keyword detectors of
`classify.js`, if a property should ever depend on the workload they name.
