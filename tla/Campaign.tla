------------------------------ MODULE Campaign ------------------------------
(***************************************************************************)
(* `quorum campaign' (bench/degradation/): a plan of cells, each one call   *)
(* to one provider, executed in order, with the ledger as the only          *)
(* checkpoint.  An invocation may be killed anywhere and another one started *)
(* on the ledger it left.                                                   *)
(*                                                                          *)
(* Abstracted: batch contents and sizes (a cell is a provider and a         *)
(* number), scores, and the pacing delay, which changes no state but the    *)
(* in-memory lastCallAt and is forgotten with it.                           *)
(***************************************************************************)
EXTENDS Executor, Ledger, FiniteSets

CONSTANTS ProviderOrder,     \* the providers with credentials, in plan order
          CellsPerProvider,  \* batch sizes times repetitions
          Unparsable,        \* outputs parseEnvelope rejects
          Failures,          \* the failures a call may meet, of Failure
          MaxCrashes         \* bound on the crashes of one behaviour

ASSUME CampaignAssumptions ==
  /\ ProviderOrder \in Seq(Provider)
  /\ CellsPerProvider \in Nat \ {0}
  /\ Unparsable \subseteq Output
  /\ Failures \subseteq Failure
  /\ MaxCrashes \in Nat

VARIABLES file,      \* campaign-ledger.jsonl
          stage,     \* where the invocation is
          pos,       \* the index of the current cell in the plan
          outcome,   \* {} or {the outcome of its call}
          halted,    \* haltedProviders of this invocation
          calls,     \* provider calls made for each cell, over all invocations
          crashes    \* crashes so far

vars == <<file, stage, pos, outcome, halted, calls, crashes>>

(* buildCampaignPlan: provider by provider; a cell is its taskId.           *)
NumCells == Len(ProviderOrder) * CellsPerProvider
Cells == 1..NumCells
ProviderOf(c) == ProviderOrder[((c - 1) \div CellsPerProvider) + 1]

LedgerEvent ==
  [cell : Cells, type : {"batch-quality-scored", "campaign-cell-completed"}, status : Status]

QualityScored(c) == [cell |-> c, type |-> "batch-quality-scored", status |-> "success"]
CellCompleted(c, o) == [cell |-> c, type |-> "campaign-cell-completed", status |-> o.status]

(* Faulty variants of isCellAlreadyCompleted: it looks for the score; it    *)
(* looks for any cell of the provider.                                      *)
isCellScored(f, c) ==
  \E e \in ToSet(readEvents(f)) : e.type = "batch-quality-scored" /\ e.cell = c
isProviderStarted(f, c) ==
  \E e \in ToSet(readEvents(f)) :
    e.type = "campaign-cell-completed" /\ ProviderOf(e.cell) = ProviderOf(c)

(* isCellAlreadyCompleted: what readEvents can still parse decides.         *)
isCellAlreadyCompleted(f, c) ==
  \E e \in ToSet(readEvents(f)) : e.type = "campaign-cell-completed" /\ e.cell = c

(* mergeRoute with a ledgerPath scores the batches it could parse.          *)
Scored(o) == Success(o) /\ o.output \notin Unparsable

Init ==
  /\ file = EmptyFile
  /\ stage = "idle"
  /\ pos = 1
  /\ outcome = {}
  /\ halted = {}
  /\ calls = [c \in Cells |-> 0]
  /\ crashes = 0

(* A fresh invocation: nothing but the ledger is carried over.              *)
Invoke ==
  /\ stage = "idle"
  /\ stage' = "next"
  /\ pos' = 1
  /\ halted' = {}
  /\ outcome' = {}
  /\ UNCHANGED <<file, calls, crashes>>

Skippable(c) == ProviderOf(c) \in halted \/ isCellAlreadyCompleted(file, c)

Skip ==
  /\ stage = "next"
  /\ pos <= NumCells
  /\ Skippable(pos)
  /\ pos' = pos + 1
  /\ UNCHANGED <<file, stage, outcome, halted, calls, crashes>>

(* executeBatch of runCampaignCell; mergeRoute follows in the same turn.    *)
Call(o) ==
  /\ stage = "next"
  /\ pos <= NumCells
  /\ ~Skippable(pos)
  /\ calls' = [calls EXCEPT ![pos] = @ + 1]
  /\ outcome' = {o}
  /\ stage' = IF Scored(o) THEN "scoring" ELSE "recording"
  /\ UNCHANGED <<file, pos, halted, crashes>>

(* The quality event, written by mergeRoute.                                *)
RecordQuality ==
  /\ stage = "scoring"
  /\ file' = appendEvent(file, QualityScored(pos))
  /\ stage' = "recording"
  /\ UNCHANGED <<pos, outcome, halted, calls, crashes>>

(* The cell's own event, whatever its outcome; a quota error also takes the *)
(* provider out of this invocation.                                         *)
RecordCell(o) ==
  /\ stage = "recording"
  /\ outcome = {o}
  /\ file' = appendEvent(file, CellCompleted(pos, o))
  /\ halted' = IF o.status = "quota_exceeded" THEN halted \cup {ProviderOf(pos)} ELSE halted
  /\ pos' = pos + 1
  /\ stage' = "next"
  /\ outcome' = {}
  /\ UNCHANGED <<calls, crashes>>

(* The loop is over.                                                        *)
Finish ==
  /\ stage = "next"
  /\ pos > NumCells
  /\ stage' = "idle"
  /\ UNCHANGED <<file, pos, outcome, halted, calls, crashes>>

(* The event the next append is writing.                                    *)
EventsBeingWritten ==
  CASE stage = "scoring"   -> {QualityScored(pos)}
    [] stage = "recording" -> {CellCompleted(pos, o) : o \in outcome}
    [] OTHER               -> {}

Crash ==
  /\ crashes < MaxCrashes
  /\ stage # "idle"
  /\ crashes' = crashes + 1
  /\ stage' = "idle"
  /\ outcome' = {}
  /\ \/ UNCHANGED file
     \/ \E e \in EventsBeingWritten : file' \in TornAppends(file, e)
  /\ UNCHANGED <<pos, halted, calls>>

Running ==
  \/ Skip
  \/ \E o \in (IF pos <= NumCells THEN executeBatch(ProviderOf(pos), Failures) ELSE {}) : Call(o)
  \/ RecordQuality
  \/ \E o \in outcome : RecordCell(o)
  \/ Finish

Next == Invoke \/ Running \/ Crash

Spec == Init /\ [][Next]_vars

(* The promise chain of runCampaign runs to its end; whoever runs the       *)
(* campaign starts it again until it has nothing left to do.                *)
FairSpec == Spec /\ WF_vars(Running) /\ WF_vars(Invoke)

-----------------------------------------------------------------------------
TypeOK ==
  /\ file \in [lines : Seq(Seq(LedgerEvent)), tail : SUBSET Seq(LedgerEvent)]
  /\ stage \in {"idle", "next", "scoring", "recording"}
  /\ pos \in 1..(NumCells + 1)
  /\ outcome \subseteq Outcome /\ Cardinality(outcome) <= 1
  /\ halted \subseteq Provider
  /\ calls \in [Cells -> Nat]
  /\ crashes \in 0..MaxCrashes

(* Where a reader of the ledger finds the events of a type about a cell.    *)
PlacesOf(c, type) ==
  LET events == readEvents(file)
  IN  {i \in DOMAIN events : events[i].cell = c /\ events[i].type = type}

CompletionsOf(c) == PlacesOf(c, "campaign-cell-completed")

(* runner.js:177-180: however often the campaign is killed and started      *)
(* again, analyze.js finds each cell's result at most once.                 *)
OneResultPerCell == \A c \in Cells : \A i, j \in CompletionsOf(c) : i = j

(* runner.js:70-75, "the ledger itself is the checkpoint": a crash makes at *)
(* most two provider calls be made again.  Two, because the completion it   *)
(* cut before its newline is read back, the cell is skipped, and the next   *)
(* completion runs into it: then both are unreadable.                       *)
CrashCostsTwoCalls == SumFunction(calls) <= NumCells + 2 * crashes

(* Restarted until it stops being killed, a campaign completes every cell   *)
(* of its plan.                                                             *)
CampaignCompletes == <>[](\A c \in Cells : CompletionsOf(c) # {})

(* runner.js:177-180: a cell interrupted and run again is not measured      *)
(* twice: each cell has at most one quality score in the ledger.            *)
OneMeasurementPerCell ==
  \A c \in Cells : \A i, j \in PlacesOf(c, "batch-quality-scored") : i = j
=============================================================================
