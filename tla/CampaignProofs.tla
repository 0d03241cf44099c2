--------------------------- MODULE CampaignProofs ---------------------------
(***************************************************************************)
(* Proofs about Campaign, for every plan, every set of failures and every   *)
(* number of crashes: a cell has one result in the ledger, and a crash      *)
(* costs two provider calls at most.                                        *)
(***************************************************************************)
EXTENDS Campaign, LedgerProofs

-----------------------------------------------------------------------------
(* What the operators return.                                               *)

(* An outcome of a call is one executeBatch may give.                       *)
LEMMA ExecuteBatchType ==
  ASSUME NEW p, NEW o \in executeBatch(p, Failures)
  PROVE  o \in Outcome
  <1>1. CASE \E text \in Output : o = Answered(text)
    BY <1>1 DEF Answered, Outcome, Status, ErrorClass
  <1>2. CASE \E f \in Failures : o = classify(p, f)
    <2>1. PICK f \in Failures : o = classify(p, f) BY <1>2
    <2>2. f \in Failure BY CampaignAssumptions
    <2> USE DEF Failed, Failure, Outcome, Status, ErrorClass, NoOutput
    <2>3. classifyError(f) \in Outcome BY <2>2 DEF classifyError, InstanceOf
    <2>4. classifyGeminiError(f) \in Outcome BY <2>2 DEF classifyGeminiError
    <2> QED BY <2>1, <2>3, <2>4 DEF classify
  <1> QED BY <1>1, <1>2 DEF executeBatch

(* Division: n blocks of k cells hold n * k cells.                          *)
LEMMA DivType ==
  ASSUME NEW a \in Nat, NEW k \in Nat \ {0}
  PROVE  a \div k \in Nat /\ k * (a \div k) <= a
  OBVIOUS

LEMMA BlockOf ==
  ASSUME NEW n \in Nat, NEW k \in Nat \ {0}, NEW c \in 1..(n * k)
  PROVE  ((c - 1) \div k) + 1 \in 1..n
  <1>1. PICK a \in Int : a = c - 1 OBVIOUS
  <1>2. a \in Nat /\ a < n * k BY <1>1
  <1>3. PICK q \in Nat : q = a \div k /\ k * q <= a BY DivType, <1>2
  <1>4. ~(q >= n)
    <2>1. SUFFICES ASSUME q >= n PROVE FALSE OBVIOUS
    <2>2. PICK d \in Nat : q = n + d BY <2>1, <1>3
    <2>3. k * q = n * k + k * d BY <2>2
    <2>4. k * d \in Nat /\ k * q \in Nat /\ n * k \in Nat OBVIOUS
    <2> QED BY <2>3, <2>4, <1>3, <1>2
  <1> QED BY <1>4, <1>3, <1>1

(* The plan: a finite number of cells, each of a provider.                  *)
LEMMA CellsType ==
  /\ NumCells \in Nat
  /\ IsFiniteSet(Cells) /\ Cardinality(Cells) = NumCells
  /\ \A c \in Cells : ProviderOf(c) \in Provider
  <1>1. Len(ProviderOrder) \in Nat /\ CellsPerProvider \in Nat \ {0} /\ NumCells \in Nat
    BY CampaignAssumptions DEF NumCells
  <1>2. IsFiniteSet(Cells) /\ Cardinality(Cells) = NumCells
    <2>1. PICK n \in Nat : n = NumCells BY <1>1
    <2>2. IsFiniteSet(1..n) /\ Cardinality(1..n) = n BY FS_Interval
    <2> QED BY <2>1, <2>2 DEF Cells
  <1>3. ASSUME NEW c \in Cells PROVE ProviderOf(c) \in Provider
    <2>1. ((c - 1) \div CellsPerProvider) + 1 \in 1..Len(ProviderOrder)
      BY <1>1, BlockOf DEF Cells, NumCells
    <2> QED BY <2>1, CampaignAssumptions DEF ProviderOf
  <1> QED BY <1>1, <1>2, <1>3

(* The two events of a cell.                                                *)
LEMMA EventsType ==
  ASSUME NEW c \in Cells
  PROVE  /\ QualityScored(c) \in LedgerEvent
         /\ \A o \in Outcome : CellCompleted(c, o) \in LedgerEvent
  BY DEF QualityScored, CellCompleted, LedgerEvent, Outcome, Status

-----------------------------------------------------------------------------
(* Completions.                                                             *)

IsCompletion(e) == e.type = "campaign-cell-completed"

(* The cells with a completion among the events s, and no cell with two.    *)
CellsDone(s) == {s[i].cell : i \in {j \in DOMAIN s : IsCompletion(s[j])}}
OnceEach(s) ==
  \A i, j \in DOMAIN s :
    IsCompletion(s[i]) /\ IsCompletion(s[j]) /\ s[i].cell = s[j].cell => i = j

(* isCellAlreadyCompleted looks for the cell among them.                    *)
LEMMA CompletedIs ==
  ASSUME NEW f, NEW c
  PROVE  isCellAlreadyCompleted(f, c) <=> c \in CellsDone(readEvents(f))
  BY DEF isCellAlreadyCompleted, CellsDone, IsCompletion, ToSet

(* One event more.                                                          *)
LEMMA DoneAppend ==
  ASSUME NEW s \in Seq(LedgerEvent), NEW e \in LedgerEvent
  PROVE  /\ CellsDone(Append(s, e)) = CellsDone(s) \cup (IF IsCompletion(e) THEN {e.cell} ELSE {})
         /\ OnceEach(s) /\ (IsCompletion(e) => e.cell \notin CellsDone(s))
              => OnceEach(Append(s, e))
  <1>1. PICK t : t = Append(s, e) OBVIOUS
  <1>2. PICK n \in Nat : n = Len(s) OBVIOUS
  <1>3. /\ DOMAIN s = 1..n /\ DOMAIN t = 1..(n + 1)
        /\ \A i \in 1..n : t[i] = s[i]
        /\ t[n + 1] = e
    BY <1>1, <1>2
  <1>4. /\ \A i \in 1..(n + 1) : i \in 1..n \/ i = n + 1
        /\ \A i \in 1..n : i \in 1..(n + 1) /\ i # n + 1
        /\ n + 1 \in 1..(n + 1)
    OBVIOUS
  <1>5. CellsDone(t) = CellsDone(s) \cup (IF IsCompletion(e) THEN {e.cell} ELSE {})
    BY <1>3, <1>4 DEF CellsDone
  <1>6. ASSUME OnceEach(s), IsCompletion(e) => e.cell \notin CellsDone(s)
        PROVE  OnceEach(t)
    <2>1. IsCompletion(e) => \A i \in 1..n : ~(IsCompletion(s[i]) /\ s[i].cell = e.cell)
      BY <1>3, <1>6 DEF CellsDone
    <2> QED BY <1>3, <1>4, <1>6, <2>1 DEF OnceEach
  <1> QED BY <1>1, <1>5, <1>6

(* One event less.                                                          *)
LEMMA DoneCut ==
  ASSUME NEW s \in Seq(LedgerEvent), s # <<>>
  PROVE  /\ CellsDone(WithoutLast(s)) \subseteq CellsDone(s)
         /\ OnceEach(s) => OnceEach(WithoutLast(s))
  BY ToSetWithoutLast DEF CellsDone, OnceEach

-----------------------------------------------------------------------------
(* One result per cell.                                                     *)

(* The shape of every variable.                                             *)
TypeInv ==
  /\ file \in FilesOf(LedgerEvent)
  /\ stage \in {"idle", "next", "scoring", "recording"}
  /\ pos \in 1..(NumCells + 1)
  /\ outcome = {} \/ \E o \in Outcome : outcome = {o}
  /\ halted \subseteq Provider
  /\ calls \in [Cells -> Nat]
  /\ crashes \in 0..MaxCrashes

(* Between its call and its completion a cell is in the plan, has one       *)
(* outcome, and no completion a reader could find.                          *)
CellInHand ==
  stage \in {"scoring", "recording"} =>
    /\ pos \in Cells
    /\ \E o \in Outcome : outcome = {o}
    /\ pos \notin CellsDone(readEvents(file))

IInv == TypeInv /\ CellInHand /\ OnceEach(readEvents(file))

(* The writes of an invocation: the events of the cell in hand.             *)
Writes(e, f) ==
  /\ stage \in {"scoring", "recording"}
  /\ e \in LedgerEvent /\ e.cell = pos
  /\ IsCompletion(e) <=> stage = "recording"
  /\ f \in {appendEvent(file, e)} \cup TornAppends(file, e)

LEMMA StepWrites ==
  ASSUME IInv, [Next]_vars
  PROVE  file' = file \/ \E e : Writes(e, file')
  <1> USE DEF IInv
  <1>1. CASE RecordQuality
    <2>1. pos \in Cells BY <1>1 DEF RecordQuality, CellInHand
    <2>2. QualityScored(pos) \in LedgerEvent BY <2>1, EventsType
    <2> QED BY <1>1, <2>2 DEF RecordQuality, Writes, QualityScored, IsCompletion
  <1>2. ASSUME NEW o \in outcome, RecordCell(o) PROVE \E e : Writes(e, file')
    <2>1. pos \in Cells /\ o \in Outcome BY <1>2 DEF RecordCell, CellInHand
    <2>2. CellCompleted(pos, o) \in LedgerEvent BY <2>1, EventsType
    <2> QED BY <1>2, <2>2 DEF RecordCell, Writes, CellCompleted, IsCompletion
  <1>3. CASE Crash
    <2>1. CASE \E e \in EventsBeingWritten : file' \in TornAppends(file, e)
      <3>1. PICK e \in EventsBeingWritten : file' \in TornAppends(file, e) BY <2>1
      <3>2. CASE stage = "scoring"
        <4>1. e = QualityScored(pos) /\ pos \in Cells
          BY <3>1, <3>2 DEF EventsBeingWritten, CellInHand
        <4> QED BY <3>1, <3>2, <4>1, EventsType DEF Writes, QualityScored, IsCompletion
      <3>3. CASE stage = "recording"
        <4>1. pos \in Cells /\ \E o \in Outcome : e = CellCompleted(pos, o)
          BY <3>1, <3>3 DEF EventsBeingWritten, CellInHand
        <4> QED BY <3>1, <3>3, <4>1, EventsType DEF Writes, CellCompleted, IsCompletion
      <3> QED BY <3>1, <3>2, <3>3 DEF EventsBeingWritten, TypeInv
    <2> QED BY <1>3, <2>1 DEF Crash
  <1> QED BY <1>1, <1>2, <1>3 DEF Next, Running, Invoke, Skip, Call, Finish, vars

(* What a write does to the completions a reader finds.                     *)
LEMMA WriteDone ==
  ASSUME IInv, NEW e, Writes(e, file')
  PROVE  /\ file' \in FilesOf(LedgerEvent)
         /\ OnceEach(readEvents(file'))
         /\ CellsDone(readEvents(file')) \subseteq
              CellsDone(readEvents(file)) \cup (IF IsCompletion(e) THEN {pos} ELSE {})
  <1>1. file \in FilesOf(LedgerEvent) /\ OnceEach(readEvents(file)) BY DEF IInv, TypeInv
  <1>2. e \in LedgerEvent /\ e.cell = pos /\ pos \notin CellsDone(readEvents(file))
    BY DEF IInv, CellInHand, Writes
  <1>3. PICK s \in Seq(LedgerEvent) : s = readEvents(file) BY <1>1, ReadEventsIs
  <1>4. /\ file' \in FilesOf(LedgerEvent)
        /\ \/ readEvents(file') = s
           \/ readEvents(file') = Append(s, e)
           \/ s # <<>> /\ readEvents(file') = WithoutLast(s)
    BY <1>1, <1>2, <1>3, ReadersSeeLogGrow DEF Writes
  <1>5. PICK t : t = readEvents(file') OBVIOUS
  <1>6. OnceEach(t) /\ CellsDone(t) \subseteq CellsDone(s) \cup (IF IsCompletion(e) THEN {pos} ELSE {})
    <2>1. CASE t = s BY <1>1, <1>3, <2>1
    <2>2. CASE t = Append(s, e) BY <1>1, <1>2, <1>3, <2>2, DoneAppend
    <2>3. CASE s # <<>> /\ t = WithoutLast(s) BY <1>1, <1>3, <2>3, DoneCut
    <2> QED BY <1>4, <1>5, <2>1, <2>2, <2>3
  <1> QED BY <1>3, <1>4, <1>5, <1>6

(* Every variable keeps its shape.                                          *)
LEMMA TypeNext == IInv /\ [Next]_vars => TypeInv'
  <1> SUFFICES ASSUME IInv, [Next]_vars PROVE TypeInv'
    OBVIOUS
  <1> USE CellsType DEF IInv, TypeInv
  <1>1. file' \in FilesOf(LedgerEvent) BY StepWrites, WriteDone
  <1>2. CASE Invoke BY <1>1, <1>2 DEF Invoke
  <1>3. CASE Skip BY <1>1, <1>3 DEF Skip
  <1>4. ASSUME NEW o, Call(o),
               o \in (IF pos <= NumCells THEN executeBatch(ProviderOf(pos), Failures) ELSE {})
        PROVE  TypeInv'
    <2>1. pos \in Cells /\ o \in Outcome BY <1>4, ExecuteBatchType DEF Call, Cells
    <2> QED BY <1>1, <1>4, <2>1 DEF Call
  <1>5. CASE RecordQuality BY <1>1, <1>5 DEF RecordQuality
  <1>6. ASSUME NEW o \in outcome, RecordCell(o) PROVE TypeInv'
    <2>1. pos \in Cells BY <1>6 DEF RecordCell, CellInHand
    <2>2. pos + 1 \in 1..(NumCells + 1) BY <2>1 DEF Cells
    <2> QED BY <1>1, <1>6, <2>1, <2>2 DEF RecordCell
  <1>7. CASE Finish BY <1>1, <1>7 DEF Finish
  <1>8. CASE Crash
    <2>1. crashes' \in 0..MaxCrashes BY <1>8, CampaignAssumptions DEF Crash
    <2> QED BY <1>1, <1>8, <2>1 DEF Crash
  <1>9. CASE UNCHANGED vars BY <1>9 DEF vars
  <1> QED BY <1>2, <1>3, <1>4, <1>5, <1>6, <1>7, <1>8, <1>9 DEF Next, Running

(* The cell in hand stays without a completion until the write of its own.  *)
LEMMA CellInHandNext == IInv /\ [Next]_vars => CellInHand'
  <1> SUFFICES ASSUME IInv, [Next]_vars PROVE CellInHand'
    OBVIOUS
  <1> USE DEF IInv, TypeInv
  <1>1. ASSUME stage' \in {"scoring", "recording"}, UNCHANGED <<file, pos, outcome>>,
               stage \in {"scoring", "recording"}
        PROVE  CellInHand'
    BY <1>1 DEF CellInHand
  <1>2. ASSUME NEW o, Call(o),
               o \in (IF pos <= NumCells THEN executeBatch(ProviderOf(pos), Failures) ELSE {})
        PROVE  CellInHand'
    <2>1. pos \in Cells /\ o \in Outcome BY <1>2, CellsType, ExecuteBatchType DEF Call, Cells
    <2>2. pos \notin CellsDone(readEvents(file)) BY <1>2, CompletedIs DEF Call, Skippable
    <2>3. file' = file /\ pos' = pos /\ outcome' = {o} BY <1>2 DEF Call
    <2> QED BY <2>1, <2>2, <2>3 DEF CellInHand
  <1>3. CASE RecordQuality
    <2>1. PICK e : e = QualityScored(pos) OBVIOUS
    <2>2. Writes(e, file') /\ ~IsCompletion(e)
      <3>1. e \in LedgerEvent BY <1>3, <2>1, EventsType DEF RecordQuality, CellInHand
      <3> QED BY <1>3, <2>1, <3>1 DEF RecordQuality, Writes, QualityScored, IsCompletion
    <2>3. CellsDone(readEvents(file')) \subseteq CellsDone(readEvents(file)) BY <2>2, WriteDone
    <2>4. pos' = pos /\ outcome' = outcome /\ stage = "scoring" BY <1>3 DEF RecordQuality
    <2> QED BY <2>3, <2>4 DEF CellInHand
  <1>4. ASSUME NEW o \in outcome, RecordCell(o) PROVE CellInHand'
    BY <1>4 DEF RecordCell, CellInHand
  <1>5. CASE Invoke BY <1>5 DEF Invoke, CellInHand
  <1>6. CASE Skip BY <1>6 DEF Skip, CellInHand
  <1>7. CASE Finish BY <1>7 DEF Finish, CellInHand
  <1>8. CASE Crash BY <1>8 DEF Crash, CellInHand
  <1>9. CASE UNCHANGED vars BY <1>1, <1>9 DEF vars, CellInHand
  <1> QED BY <1>2, <1>3, <1>4, <1>5, <1>6, <1>7, <1>8, <1>9 DEF Next, Running

LEMMA InvInit == Init => IInv
  <1> SUFFICES ASSUME Init PROVE IInv OBVIOUS
  <1> USE DEF Init
  <1>1. TypeInv BY EmptyFileReads, CellsType, CampaignAssumptions DEF TypeInv
  <1>2. CellInHand BY DEF CellInHand
  <1>3. readEvents(file) = <<>> BY EmptyFileReads
  <1>4. OnceEach(readEvents(file)) BY <1>3 DEF OnceEach
  <1> QED BY <1>1, <1>2, <1>4 DEF IInv

LEMMA InvNext == IInv /\ [Next]_vars => IInv'
  <1> SUFFICES ASSUME IInv, [Next]_vars PROVE IInv'
    OBVIOUS
  <1>1. OnceEach(readEvents(file'))
    <2>1. CASE file' = file BY <2>1 DEF IInv
    <2> QED BY <2>1, StepWrites, WriteDone
  <1> QED BY <1>1, TypeNext, CellInHandNext DEF IInv

LEMMA Invariant == Spec => []IInv
  <1>1. Init => IInv BY InvInit
  <1>2. IInv /\ [Next]_vars => IInv' BY InvNext
  <1> QED BY <1>1, <1>2, PTL DEF Spec

(* Every variable keeps its type: in particular every line of the ledger    *)
(* reads as at most one of its events.                                      *)
THEOREM TypeCorrect == Spec => []TypeOK
  <1>1. IInv => TypeOK
    <2> SUFFICES ASSUME IInv PROVE TypeOK OBVIOUS
    <2>1. file \in [lines : Seq(Seq(LedgerEvent)), tail : SUBSET Seq(LedgerEvent)]
      <3>1. /\ file \in FilesOf(LedgerEvent) /\ LinesOf(LedgerEvent) \subseteq Seq(LedgerEvent)
            /\ Seq(LinesOf(LedgerEvent)) \subseteq Seq(Seq(LedgerEvent))
        BY LinesAreSequences DEF IInv, TypeInv
      <3> QED BY <3>1 DEF FilesOf
    <2>2. outcome \subseteq Outcome /\ Cardinality(outcome) <= 1
      <3>1. Cardinality(outcome) \in {0, 1} BY FS_EmptySet, FS_Singleton DEF IInv, TypeInv
      <3> QED BY <3>1 DEF IInv, TypeInv
    <2> QED BY <2>1, <2>2 DEF IInv, TypeInv, TypeOK
  <1> QED BY <1>1, Invariant, PTL

(* runner.js:177-180: in a ledger of any length, after any number of        *)
(* crashes and restarts, a reader finds at most one result of each cell.    *)
THEOREM ResultsOnce == Spec => []OneResultPerCell
  <1>1. IInv => OneResultPerCell
    BY DEF IInv, OnceEach, IsCompletion, OneResultPerCell, CompletionsOf, PlacesOf
  <1> QED BY <1>1, Invariant, PTL

-----------------------------------------------------------------------------
(* What a crash costs.                                                      *)

Completed(f) == CellsDone(readEvents(f))

CallsMade(f) == SumFunction(f)

(* What the file's torn line may still cost: the call of the cell whose     *)
(* completion the next write runs into it, and the one of the completion it *)
(* holds.                                                                   *)
AtRisk(f) ==
  IF f.tail = {} THEN 0
  ELSE IF \E e \in LedgerEvent : IsCompletion(e) /\ f.tail = {LineOf(e)} THEN 2 ELSE 1

InFlight == IF stage \in {"scoring", "recording"} THEN 1 ELSE 0

(* Each call made is paid for by a completion, by being under way, or by    *)
(* one of the crashes, two calls each, that the torn line has not used yet. *)
Budget ==
  CallsMade(calls) + AtRisk(file) <= Cardinality(Completed(file)) + InFlight + 2 * crashes

(* Only cells of the plan are completed.                                    *)
LEMMA DoneType ==
  ASSUME NEW s \in Seq(LedgerEvent)
  PROVE  /\ CellsDone(s) \subseteq Cells /\ IsFiniteSet(CellsDone(s))
         /\ Cardinality(CellsDone(s)) \in Nat /\ Cardinality(CellsDone(s)) <= NumCells
  <1>1. CellsDone(s) \subseteq Cells
    <2>1. \A i \in DOMAIN s : s[i] \in LedgerEvent OBVIOUS
    <2>2. \A e \in LedgerEvent : e.cell \in Cells BY DEF LedgerEvent
    <2> QED BY <2>1, <2>2 DEF CellsDone
  <1>2. IsFiniteSet(CellsDone(s)) /\ Cardinality(CellsDone(s)) <= NumCells
    BY <1>1, CellsType, FS_Subset
  <1>3. Cardinality(CellsDone(s)) \in Nat BY <1>2, FS_CardinalityType
  <1> QED BY <1>1, <1>2, <1>3

(* A completion more is a cell more, unless the cell had one.               *)
LEMMA OneMoreDone ==
  ASSUME NEW s \in Seq(LedgerEvent), NEW e \in LedgerEvent
  PROVE  /\ Cardinality(CellsDone(Append(s, e))) <=
              Cardinality(CellsDone(s)) + (IF IsCompletion(e) THEN 1 ELSE 0)
         /\ e.cell \notin CellsDone(s) =>
              Cardinality(CellsDone(Append(s, e))) =
                Cardinality(CellsDone(s)) + (IF IsCompletion(e) THEN 1 ELSE 0)
  <1>1. PICK D : D = CellsDone(s) OBVIOUS
  <1>2. IsFiniteSet(D) /\ Cardinality(D) \in Nat BY <1>1, DoneType
  <1>3. CASE IsCompletion(e)
    <2>1. CellsDone(Append(s, e)) = D \cup {e.cell} BY <1>1, <1>3, DoneAppend
    <2>2. Cardinality(D \cup {e.cell}) =
            IF e.cell \in D THEN Cardinality(D) ELSE Cardinality(D) + 1
      BY <1>2, FS_AddElement
    <2> QED BY <1>1, <1>2, <1>3, <2>1, <2>2
  <1>4. CASE ~IsCompletion(e)
    <2>1. CellsDone(Append(s, e)) = D
      <3>1. CellsDone(Append(s, e)) = D \cup {} BY <1>1, <1>4, DoneAppend
      <3> QED BY <3>1
    <2> QED BY <1>1, <1>2, <1>4, <2>1
  <1> QED BY <1>3, <1>4

(* A line that the next write runs into puts at risk what it held, and one. *)
LEMMA CutCosts ==
  ASSUME NEW f \in FilesOf(LedgerEvent), f.tail # {}
  PROVE  /\ AtRisk(f) \in {1, 2}
         /\ Cardinality(Completed(f)) + 1 <= Cardinality(CellsDone(FlattenSeq(f.lines))) + AtRisk(f)
  <1>1. PICK k \in Seq(LedgerEvent) : k = FlattenSeq(f.lines) BY ReadEventsIs
  <1>2. PICK l \in LinesOf(LedgerEvent) : f.tail = {l} BY DEF FilesOf
  <1>3. readEvents(f) = k \o l BY <1>1, <1>2, ReadEventsIs
  <1>4. Cardinality(CellsDone(k)) \in Nat BY DoneType
  <1>5. AtRisk(f) \in {1, 2} BY DEF AtRisk
  <1>6. CASE l = Malformed
    <2>1. k \o <<>> = k OBVIOUS
    <2>2. readEvents(f) = k BY <1>3, <1>6, <2>1 DEF Malformed
    <2> QED BY <1>1, <1>4, <1>5, <2>2 DEF Completed
  <1>7. ASSUME NEW e \in LedgerEvent, l = LineOf(e)
        PROVE  Cardinality(Completed(f)) + 1 <= Cardinality(CellsDone(k)) + AtRisk(f)
    <2>1. k \o <<e>> = Append(k, e) OBVIOUS
    <2>2. Completed(f) = CellsDone(Append(k, e)) BY <1>3, <1>7, <2>1 DEF LineOf, Completed
    <2>3. IsCompletion(e) => AtRisk(f) = 2 BY <1>2, <1>7 DEF AtRisk
    <2>4. Append(k, e) \in Seq(LedgerEvent) OBVIOUS
    <2>5. Cardinality(CellsDone(Append(k, e))) \in Nat BY <2>4, DoneType
    <2> QED BY <1>4, <1>5, <2>2, <2>3, <2>5, OneMoreDone
  <1> QED BY <1>1, <1>2, <1>5, <1>6, <1>7 DEF LinesOf

(* A whole write pays with what was at risk.                                *)
LEMMA AppendCosts ==
  ASSUME NEW f \in FilesOf(LedgerEvent), NEW e \in LedgerEvent, e.cell \notin Completed(f)
  PROVE  /\ AtRisk(appendEvent(f, e)) = 0
         /\ Cardinality(Completed(f)) + (IF IsCompletion(e) THEN 1 ELSE 0) <=
              Cardinality(Completed(appendEvent(f, e))) + AtRisk(f)
  <1>1. PICK g : g = appendEvent(f, e) OBVIOUS
  <1>2. AtRisk(g) = 0 BY <1>1 DEF AtRisk, appendEvent
  <1>3. PICK s \in Seq(LedgerEvent) : s = readEvents(f) BY ReadEventsIs
  <1>4. Cardinality(CellsDone(s)) \in Nat BY DoneType
  <1>5. CASE f.tail = {}
    <2>1. readEvents(g) = Append(s, e) BY <1>1, <1>3, <1>5, AppendReads
    <2>2. AtRisk(f) = 0 BY <1>5 DEF AtRisk
    <2>3. Cardinality(CellsDone(Append(s, e))) =
            Cardinality(CellsDone(s)) + (IF IsCompletion(e) THEN 1 ELSE 0)
      BY <1>3, OneMoreDone DEF Completed
    <2> QED BY <1>1, <1>2, <1>3, <1>4, <2>1, <2>2, <2>3 DEF Completed
  <1>6. CASE f.tail # {}
    <2>1. PICK k \in Seq(LedgerEvent) : k = FlattenSeq(f.lines) BY ReadEventsIs
    <2>2. readEvents(g) = k BY <1>1, <1>6, <2>1, AppendReads
    <2>3. AtRisk(f) \in {1, 2} /\ Cardinality(CellsDone(s)) + 1 <= Cardinality(CellsDone(k)) + AtRisk(f)
      BY <1>3, <1>6, <2>1, CutCosts DEF Completed
    <2>4. Cardinality(CellsDone(k)) \in Nat BY DoneType
    <2> QED BY <1>1, <1>2, <1>3, <1>4, <2>2, <2>3, <2>4 DEF Completed
  <1> QED BY <1>5, <1>6

(* A write cut short puts one call more at risk.                            *)
LEMMA TornCosts ==
  ASSUME NEW f \in FilesOf(LedgerEvent), NEW e \in LedgerEvent, e.cell \notin Completed(f),
         NEW g \in TornAppends(f, e)
  PROVE  /\ AtRisk(g) \in {0, 1, 2}
         /\ Cardinality(Completed(f)) + AtRisk(g) <= Cardinality(Completed(g)) + AtRisk(f) + 1
  <1>1. AtRisk(g) \in {0, 1, 2} /\ AtRisk(f) \in {0, 1, 2} BY DEF AtRisk
  <1>2. PICK s \in Seq(LedgerEvent) : s = readEvents(f) BY ReadEventsIs
  <1>3. PICK k \in Seq(LedgerEvent) : k = FlattenSeq(f.lines) BY ReadEventsIs
  <1>4. Cardinality(CellsDone(s)) \in Nat /\ Cardinality(CellsDone(k)) \in Nat BY DoneType
  <1>5. CASE g = f BY <1>1, <1>2, <1>4, <1>5 DEF Completed
  <1>6. CASE g = [f EXCEPT !.tail = {Malformed}]
    <2>1. AtRisk(g) = 1 /\ readEvents(g) = k
      <3>1. g \in FilesOf(LedgerEvent) /\ g.lines = f.lines BY TornReads
      <3>2. g.tail = {Malformed} BY <1>6 DEF FilesOf
      <3>3. k \o <<>> = k OBVIOUS
      <3>4. readEvents(g) = k BY <1>3, <3>1, <3>2, <3>3, ReadEventsIs DEF Malformed
      <3>5. ASSUME NEW x PROVE Malformed # LineOf(x)
        <4>1. Len(<<x>>) = 1 /\ Len(<<>>) = 0 OBVIOUS
        <4> QED BY <4>1 DEF Malformed, LineOf
      <3> QED BY <3>2, <3>4, <3>5 DEF AtRisk
    <2>2. CASE f.tail = {}
      <3>1. s = k /\ AtRisk(f) = 0 BY <1>2, <1>3, <2>2, ReadEventsIs DEF AtRisk
      <3> QED BY <1>2, <1>4, <2>1, <3>1 DEF Completed
    <2>3. CASE f.tail # {}
      <3>1. Cardinality(CellsDone(s)) + 1 <= Cardinality(CellsDone(k)) + AtRisk(f)
        BY <1>2, <1>3, <2>3, CutCosts DEF Completed
      <3> QED BY <1>1, <1>2, <1>4, <2>1, <3>1 DEF Completed
    <2> QED BY <2>2, <2>3
  <1>7. CASE g = [f EXCEPT !.tail = {LineOf(e)}] /\ f.tail = {}
    <2>1. g \in FilesOf(LedgerEvent) /\ g.lines = f.lines BY TornReads
    <2>2. g.tail = {LineOf(e)} BY <1>7 DEF FilesOf
    <2>3. s = k /\ AtRisk(f) = 0 BY <1>2, <1>3, <1>7, ReadEventsIs DEF AtRisk
    <2>4. s \o <<e>> = Append(s, e) OBVIOUS
    <2>5. readEvents(g) = Append(s, e) BY <1>3, <2>1, <2>2, <2>3, <2>4, ReadEventsIs DEF LineOf
    <2>6. ~IsCompletion(e) => AtRisk(g) = 1
      <3>1. ASSUME NEW x, {LineOf(x)} = {LineOf(e)} PROVE x = e
        <4>1. <<x>> = <<e>> BY <3>1 DEF LineOf
        <4>2. <<x>>[1] = x /\ <<e>>[1] = e OBVIOUS
        <4> QED BY <4>1, <4>2
      <3> QED BY <2>2, <3>1 DEF AtRisk
    <2>7. Cardinality(CellsDone(Append(s, e))) =
            Cardinality(CellsDone(s)) + (IF IsCompletion(e) THEN 1 ELSE 0)
      BY <1>2, OneMoreDone DEF Completed
    <2> QED BY <1>1, <1>2, <1>4, <2>3, <2>5, <2>6, <2>7 DEF Completed
  <1> QED BY <1>5, <1>6, <1>7 DEF TornAppends, Joined

(* The calls made, before, between and after them.                          *)
LEMMA CallsMadeIs ==
  ASSUME NEW f \in [Cells -> Nat]
  PROVE  /\ CallsMade(f) \in Nat
         /\ \A c \in Cells : CallsMade([f EXCEPT ![c] = @ + 1]) = CallsMade(f) + 1
         /\ CallsMade([c \in Cells |-> 0]) = 0
  <1>1. CallsMade([c \in Cells |-> 0]) = 0 BY CellsType, SumOfNone DEF CallsMade
  <1>2. CallsMade(f) \in Nat BY CellsType, SumType DEF CallsMade
  <1>3. ASSUME NEW c \in Cells
        PROVE  CallsMade([f EXCEPT ![c] = @ + 1]) = CallsMade(f) + 1
    <2>1. PICK g : g = [f EXCEPT ![c] = @ + 1] OBVIOUS
    <2>2. g \in [Cells -> Nat] /\ g[c] = f[c] + 1 /\ \A x \in Cells \ {c} : g[x] = f[x] BY <2>1
    <2>3. CallsMade(g) \in Nat /\ CallsMade(g) + f[c] = CallsMade(f) + g[c]
      BY <2>2, CellsType, SumChange DEF CallsMade
    <2>4. f[c] \in Nat OBVIOUS
    <2> QED BY <1>2, <2>1, <2>2, <2>3, <2>4
  <1> QED BY <1>1, <1>2, <1>3

LEMMA BudgetInit == Init => Budget
  <1> SUFFICES ASSUME Init PROVE Budget OBVIOUS
  <1> USE DEF Init
  <1>1. calls \in [Cells -> Nat] OBVIOUS
  <1>2. CallsMade(calls) = 0 BY <1>1, CallsMadeIs
  <1>3. AtRisk(file) = 0 BY DEF AtRisk, EmptyFile
  <1>4. Cardinality(Completed(file)) \in Nat
    BY EmptyFileReads, ReadEventsIs, DoneType DEF Completed
  <1> QED BY <1>2, <1>3, <1>4 DEF Budget, InFlight

(* Every step stays within the budget.                                      *)
LEMMA BudgetNext == IInv /\ Budget /\ [Next]_vars => Budget'
  <1> SUFFICES ASSUME IInv, Budget, [Next]_vars PROVE Budget'
    OBVIOUS
  <1> USE DEF IInv, TypeInv
  <1> DEFINE Paid(n, r, d, i, k) == n + r <= d + i + 2 * k
  <1>1. /\ CallsMade(calls) \in Nat /\ AtRisk(file) \in {0, 1, 2} /\ InFlight \in {0, 1}
        /\ Cardinality(Completed(file)) \in Nat /\ crashes \in Nat
    <2>1. readEvents(file) \in Seq(LedgerEvent) BY ReadEventsIs
    <2>2. crashes \in Nat BY CampaignAssumptions
    <2> QED BY <2>1, <2>2, CallsMadeIs, DoneType DEF AtRisk, InFlight, Completed
  <1>2. Paid(CallsMade(calls), AtRisk(file), Cardinality(Completed(file)), InFlight, crashes)
    BY DEF Budget
  <1>3. SUFFICES Paid(CallsMade(calls'), AtRisk(file'), Cardinality(Completed(file')), InFlight',
                      crashes')
    BY DEF Budget
  <1>4. ASSUME UNCHANGED <<file, calls, crashes>>, InFlight' = InFlight
        PROVE  Paid(CallsMade(calls'), AtRisk(file'), Cardinality(Completed(file')), InFlight',
                    crashes')
    BY <1>2, <1>4
  <1> HIDE DEF Paid
  <1>5. CASE Invoke BY <1>4, <1>5 DEF Invoke, InFlight
  <1>6. CASE Skip BY <1>4, <1>6 DEF Skip, InFlight
  <1>7. CASE Finish BY <1>4, <1>7 DEF Finish, InFlight
  <1>8. CASE UNCHANGED vars BY <1>4, <1>8 DEF vars, InFlight
  <1>9. ASSUME NEW o, Call(o)
        PROVE  Paid(CallsMade(calls'), AtRisk(file'), Cardinality(Completed(file')), InFlight',
                    crashes')
    <2>1. pos \in Cells BY <1>9 DEF Call, Cells
    <2>2. CallsMade(calls') = CallsMade(calls) + 1 BY <1>9, <2>1, CallsMadeIs DEF Call
    <2>3. InFlight' = 1 /\ InFlight = 0 /\ file' = file /\ crashes' = crashes
      BY <1>9 DEF Call, InFlight
    <2> QED BY <1>1, <1>2, <2>2, <2>3 DEF Paid
  <1>10. ASSUME NEW e \in LedgerEvent, e.cell = pos, stage \in {"scoring", "recording"},
                IsCompletion(e) <=> stage = "recording",
                file' = appendEvent(file, e), UNCHANGED <<calls, crashes>>,
                stage' = IF stage = "recording" THEN "next" ELSE "recording"
        PROVE  Paid(CallsMade(calls'), AtRisk(file'), Cardinality(Completed(file')), InFlight',
                    crashes')
    <2>1. e.cell \notin Completed(file) BY <1>10 DEF CellInHand, Completed
    <2>2. PICK g : g = file' OBVIOUS
    <2>3. /\ AtRisk(g) = 0
          /\ Cardinality(Completed(file)) + (IF IsCompletion(e) THEN 1 ELSE 0) <=
               Cardinality(Completed(g)) + AtRisk(file)
      BY <1>10, <2>1, <2>2, AppendCosts
    <2>4. Cardinality(Completed(g)) \in Nat
      <3>1. g \in FilesOf(LedgerEvent) BY <1>10, <2>2, AppendReads
      <3>2. readEvents(g) \in Seq(LedgerEvent) BY <3>1, ReadEventsIs
      <3> QED BY <3>2, DoneType DEF Completed
    <2>5. /\ InFlight = 1
          /\ InFlight' = IF IsCompletion(e) THEN 0 ELSE 1
      BY <1>10 DEF InFlight
    <2>6. calls' = calls /\ crashes' = crashes BY <1>10
    <2> QED BY <1>1, <1>2, <2>2, <2>3, <2>4, <2>5, <2>6 DEF Paid
  <1>11. CASE RecordQuality
    <2>1. pos \in Cells BY <1>11 DEF RecordQuality, CellInHand
    <2>2. PICK e : e = QualityScored(pos) OBVIOUS
    <2>3. e \in LedgerEvent /\ e.cell = pos /\ ~IsCompletion(e)
      BY <2>1, <2>2, EventsType DEF QualityScored, IsCompletion
    <2> QED BY <1>10, <1>11, <2>2, <2>3 DEF RecordQuality
  <1>12. ASSUME NEW o \in outcome, RecordCell(o)
        PROVE  Paid(CallsMade(calls'), AtRisk(file'), Cardinality(Completed(file')), InFlight',
                    crashes')
    <2>1. pos \in Cells /\ o \in Outcome BY <1>12 DEF RecordCell, CellInHand
    <2>2. PICK e : e = CellCompleted(pos, o) OBVIOUS
    <2>3. e \in LedgerEvent /\ e.cell = pos /\ IsCompletion(e)
      BY <2>1, <2>2, EventsType DEF CellCompleted, IsCompletion
    <2> QED BY <1>10, <1>12, <2>2, <2>3 DEF RecordCell
  <1>13. CASE Crash
    <2>1. CASE UNCHANGED file
      <3>1. InFlight' = 0 /\ crashes' = crashes + 1 /\ calls' = calls BY <1>13 DEF Crash, InFlight
      <3> QED BY <1>1, <1>2, <2>1, <3>1 DEF Paid
    <2>2. CASE \E e \in EventsBeingWritten : file' \in TornAppends(file, e)
      <3>1. PICK e \in EventsBeingWritten : file' \in TornAppends(file, e) BY <2>2
      <3>2. stage \in {"scoring", "recording"} /\ e \in LedgerEvent /\ e.cell = pos
        <4>1. stage \in {"scoring", "recording"} BY <3>1 DEF EventsBeingWritten
        <4>2. pos \in Cells BY <4>1 DEF CellInHand
        <4>3. CASE stage = "scoring"
          <5>1. e = QualityScored(pos) BY <3>1, <4>3 DEF EventsBeingWritten
          <5> QED BY <4>1, <4>2, <5>1, EventsType DEF QualityScored
        <4>4. CASE stage = "recording"
          <5>1. \E o \in Outcome : e = CellCompleted(pos, o)
            BY <3>1, <4>4 DEF EventsBeingWritten, CellInHand
          <5> QED BY <4>1, <4>2, <5>1, EventsType DEF CellCompleted
        <4> QED BY <4>1, <4>3, <4>4
      <3>3. e.cell \notin Completed(file) BY <3>2 DEF CellInHand, Completed
      <3>4. PICK g : g = file' OBVIOUS
      <3>5. /\ AtRisk(g) \in {0, 1, 2}
            /\ Cardinality(Completed(file)) + AtRisk(g) <=
                 Cardinality(Completed(g)) + AtRisk(file) + 1
        BY <3>1, <3>2, <3>3, <3>4, TornCosts
      <3>6. Cardinality(Completed(g)) \in Nat
        <4>1. g \in FilesOf(LedgerEvent) BY <3>1, <3>2, <3>4, TornReads
        <4>2. readEvents(g) \in Seq(LedgerEvent) BY <4>1, ReadEventsIs
        <4> QED BY <4>2, DoneType DEF Completed
      <3>7. InFlight = 1 /\ InFlight' = 0 /\ crashes' = crashes + 1 /\ calls' = calls
        BY <1>13, <3>2 DEF Crash, InFlight
      <3> QED BY <1>1, <1>2, <3>4, <3>5, <3>6, <3>7 DEF Paid
    <2> QED BY <1>13, <2>1, <2>2 DEF Crash
  <1> QED BY <1>5, <1>6, <1>7, <1>8, <1>9, <1>11, <1>12, <1>13 DEF Next, Running

(* runner.js:70-75: whatever the plan, and wherever and however often the   *)
(* campaign is killed, a crash makes at most two provider calls be made     *)
(* again.                                                                   *)
THEOREM TwoCallsPerCrash == Spec => []CrashCostsTwoCalls
  <1>1. Init => IInv /\ Budget BY InvInit, BudgetInit
  <1>2. IInv /\ Budget /\ [Next]_vars => IInv' /\ Budget' BY InvNext, BudgetNext
  <1>3. IInv /\ Budget => CrashCostsTwoCalls
    <2> SUFFICES ASSUME IInv, Budget PROVE CrashCostsTwoCalls OBVIOUS
    <2>1. CallsMade(calls) \in Nat BY CallsMadeIs DEF IInv, TypeInv
    <2>2. AtRisk(file) \in {0, 1, 2} BY DEF AtRisk
    <2>3. /\ Cardinality(Completed(file)) \in Nat
          /\ Cardinality(Completed(file)) + InFlight <= NumCells
      <3>1. PICK s \in Seq(LedgerEvent) : s = readEvents(file) BY ReadEventsIs DEF IInv, TypeInv
      <3>2. CellsDone(s) \subseteq Cells /\ IsFiniteSet(CellsDone(s))
            /\ Cardinality(CellsDone(s)) \in Nat /\ Cardinality(CellsDone(s)) <= NumCells
        BY DoneType
      <3>3. CASE InFlight = 0 BY <3>1, <3>2, <3>3, CellsType DEF Completed
      <3>4. CASE InFlight = 1
        <4>1. pos \in Cells /\ pos \notin CellsDone(s) BY <3>1, <3>4 DEF InFlight, IInv, CellInHand
        <4>2. Cardinality(CellsDone(s) \cup {pos}) = Cardinality(CellsDone(s)) + 1
          BY <3>2, <4>1, FS_AddElement
        <4>3. Cardinality(CellsDone(s) \cup {pos}) <= Cardinality(Cells)
          BY <3>2, <4>1, CellsType, FS_Subset
        <4> QED BY <3>1, <3>2, <3>4, <4>2, <4>3, CellsType DEF Completed
      <3> QED BY <3>3, <3>4 DEF InFlight
    <2>4. CallsMade(calls) <= NumCells + 2 * crashes
      <3>1. crashes \in Nat /\ NumCells \in Nat /\ InFlight \in {0, 1}
        BY CellsType, CampaignAssumptions DEF IInv, TypeInv, InFlight
      <3> QED BY <2>1, <2>2, <2>3, <3>1 DEF Budget
    <2> QED BY <2>4 DEF CrashCostsTwoCalls, CallsMade
  <1> QED BY <1>1, <1>2, <1>3, PTL DEF Spec
=============================================================================
