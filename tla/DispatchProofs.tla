--------------------------- MODULE DispatchProofs ---------------------------
(***************************************************************************)
(* Proofs about Dispatch, for any processes, tasks, predictions, answers,   *)
(* quotas and bounds: what a reader of the shared ledger can rely on.  That *)
(* acknowledged events are read in order, that lost events are reported,    *)
(* and that outcomes follow their predictions all rest on one fact: no      *)
(* event is ever written twice, because each lies ahead of what its process *)
(* has done and no two processes have the same task in hand (Sound).        *)
(*                                                                          *)
(* What a decision makes of the ledger rests on a second invariant          *)
(* (Informed): what was written are numbers of the kind the code writes, no *)
(* event is read twice, and the work in hand follows its plan, its forecast *)
(* what was known before it.  That no quota is committed beyond its bound   *)
(* rests on a third (Solvent): for each provider, what is spent and owed    *)
(* against what the ledger shows.                                           *)
(***************************************************************************)
EXTENDS Dispatch, LedgerProofs

-----------------------------------------------------------------------------
(* The invariant: what is in hand.                                          *)

Submission == UNION {ToSet(all) : all \in Prediction}

IsPredicting(w) ==
  /\ w = [stage |-> "predicting", id |-> w.id, task |-> w.task, predictions |-> w.predictions]
  /\ w.id \in Nat /\ w.predictions \in Seq(Submission)

IsExecuting(w) ==
  /\ w = [stage |-> "executing", id |-> w.id, task |-> w.task,
          predictions |-> w.predictions, route |-> w.route, results |-> w.results,
          forecast |-> w.forecast, scored |-> w.scored, settled |-> w.settled,
          traced |-> w.traced]
  /\ w.id \in Nat /\ w.predictions \in Seq(Submission)
  /\ \E S : w.results \in Seq(S)
  /\ w.scored \in Nat /\ w.settled \in Nat

IsWork(w) == IsPredicting(w) \/ IsExecuting(w)

(* Work in which one field was set.                                         *)
LEMMA WithResults ==
  ASSUME NEW w, IsExecuting(w), NEW v
  PROVE  [w EXCEPT !.results = v] =
           [stage |-> "executing", id |-> w.id, task |-> w.task,
            predictions |-> w.predictions, route |-> w.route, results |-> v,
            forecast |-> w.forecast, scored |-> w.scored, settled |-> w.settled,
            traced |-> w.traced]
  <1>1. PICK id, task, predictions, route, results, forecast, scored, settled, traced :
          w = [stage |-> "executing", id |-> id, task |-> task,
               predictions |-> predictions, route |-> route, results |-> results,
               forecast |-> forecast, scored |-> scored, settled |-> settled,
               traced |-> traced]
    BY Zenon DEF IsExecuting
  <1> QED BY <1>1

LEMMA WithSettled ==
  ASSUME NEW w, IsExecuting(w), NEW v
  PROVE  [w EXCEPT !.settled = v] =
           [stage |-> "executing", id |-> w.id, task |-> w.task,
            predictions |-> w.predictions, route |-> w.route, results |-> w.results,
            forecast |-> w.forecast, scored |-> w.scored, settled |-> v,
            traced |-> w.traced]
  <1>1. PICK id, task, predictions, route, results, forecast, scored, settled, traced :
          w = [stage |-> "executing", id |-> id, task |-> task,
               predictions |-> predictions, route |-> route, results |-> results,
               forecast |-> forecast, scored |-> scored, settled |-> settled,
               traced |-> traced]
    BY Zenon DEF IsExecuting
  <1> QED BY <1>1

(* Event e of the task of w is one of those w has already written.          *)
Behind(e, w) ==
  \/ /\ e.type = "prediction-recorded"
     /\ e.predictionId \in 1..Len(w.predictions)
     /\ e.agent = w.predictions[e.predictionId].agent
  \/ /\ w.stage = "executing"
     /\ \/ e.type = "task-routed"
        \/ IsUsage(e) /\ e.batchIndex \in 0..(Len(w.results) - 1)
        \/ e.type = "batch-quality-scored" /\ e.batchIndex \in 0..(w.scored - 1)
        \/ e.type = "execution-trace-recorded" /\ w.traced
        \/ e.type = "reputation-updated" /\ e.predictionId \in 1..w.settled

WorkInv ==
  /\ work = [d \in Process |-> work[d]]
  /\ taken \in Nat
  /\ \A d \in Process : \/ work[d] = Idle
                        \/ IsWork(work[d]) /\ work[d].id \in 1..taken
  /\ \A c, d \in Process : c # d /\ work[c] # Idle /\ work[d] # Idle => work[c].id # work[d].id

(* Whatever was written, in full or in part, lies behind who has its task.  *)
FreshInv ==
  \A e \in Written :
    /\ e.task \in 0..taken
    /\ \A d \in Process : work[d] # Idle /\ work[d].id = e.task => Behind(e, work[d])

(* The invariant: the ledger.                                               *)
TornLines(f) == {i \in DOMAIN f.lines : f.lines[i] = Malformed}

(* A torn line is a write that was cut short, and stays one until the next  *)
(* write runs into it.                                                      *)
LedgerInv ==
  /\ acked \in Seq(Written) /\ IsFiniteSet(cut)
  /\ ToSet(acked) \cap cut = {}
  /\ file \in FilesOf(Written)
  /\ \A e : file.tail = {LineOf(e)} => e \in cut

LossInv ==
  /\ Cardinality(Lost) <= Cardinality(TornLines(file))
  /\ Cardinality(TornLines(file)) + Cardinality(file.tail) <= Cardinality(cut)

-----------------------------------------------------------------------------
(* What one write does to the ledger.                                       *)

LEMMA FilesGrow ==
  ASSUME NEW S, NEW T, S \subseteq T
  PROVE  FilesOf(S) \subseteq FilesOf(T)
  <1>1. LinesOf(S) \subseteq LinesOf(T) BY DEF LinesOf
  <1>2. Seq(LinesOf(S)) \subseteq Seq(LinesOf(T)) BY <1>1
  <1> QED BY <1>1, <1>2 DEF FilesOf

(* A reader sees the terminated lines, and the tail when it parses.         *)
LEMMA TailReads ==
  ASSUME NEW S, NEW f \in FilesOf(S)
  PROVE  /\ FlattenSeq(f.lines) \in Seq(S)
         /\ f.tail \in {{}, {Malformed}} => readEvents(f) = FlattenSeq(f.lines)
         /\ \A x \in S : f.tail = {LineOf(x)} =>
              readEvents(f) = Append(FlattenSeq(f.lines), x)
  <1> DEFINE s == FlattenSeq(f.lines)
  <1>1. s \in Seq(S) /\ (f.tail = {} => readEvents(f) = s)
        /\ \A l : f.tail = {l} => readEvents(f) = s \o l
    BY ReadEventsIs
  <1> HIDE DEF s
  <1>2. f.tail = {Malformed} => readEvents(f) = s
    <2>1. s \o <<>> = s BY <1>1
    <2> QED BY <1>1, <2>1 DEF Malformed
  <1>3. ASSUME NEW x \in S, f.tail = {LineOf(x)} PROVE readEvents(f) = Append(s, x)
    <2>1. s \o <<x>> = Append(s, x) BY <1>1
    <2> QED BY <1>1, <1>3, <2>1 DEF LineOf
  <1>4. f.tail \in {{}, {Malformed}} => readEvents(f) = s BY <1>1, <1>2
  <1> QED BY <1>1, <1>3, <1>4 DEF s

(* Whatever a write does, a reader sees one event more, or what he saw, or  *)
(* all of it but the event on a torn line.                                  *)
LEMMA WriteReads ==
  ASSUME NEW S, NEW f \in FilesOf(S), NEW e \in S,
         NEW g \in {appendEvent(f, e)} \cup TornAppends(f, e)
  PROVE  /\ g \in FilesOf(S) /\ readEvents(f) \in Seq(S) /\ readEvents(g) \in Seq(S)
         /\ \/ readEvents(g) = readEvents(f)
            \/ readEvents(g) = Append(readEvents(f), e)
            \/ \E x \in S : /\ f.tail = {LineOf(x)}
                            /\ readEvents(f) = Append(readEvents(g), x)
         /\ g = appendEvent(f, e) /\ f.tail = {} => readEvents(g) = Append(readEvents(f), e)
  <1>1. g \in FilesOf(S) BY ReadersSeeLogGrow
  <1>2. readEvents(f) \in Seq(S) /\ readEvents(g) \in Seq(S) BY <1>1, ReadEventsIs
  <1>3. \/ readEvents(g) = readEvents(f)
        \/ readEvents(g) = Append(readEvents(f), e)
        \/ readEvents(g) = FlattenSeq(f.lines)
    BY AppendReads, TornReads
  <1>4. ASSUME readEvents(g) = FlattenSeq(f.lines)
        PROVE  \/ readEvents(g) = readEvents(f)
               \/ \E x \in S : f.tail = {LineOf(x)} /\ readEvents(f) = Append(readEvents(g), x)
    <2>1. f.tail \in {{}, {Malformed}} \/ \E x \in S : f.tail = {LineOf(x)}
      BY DEF FilesOf, LinesOf
    <2> QED BY <1>4, <2>1, TailReads
  <1>5. g = appendEvent(f, e) /\ f.tail = {} => readEvents(g) = Append(readEvents(f), e)
    BY AppendReads
  <1> QED BY <1>1, <1>2, <1>3, <1>4, <1>5

(* The lines that do not parse: those torn, and a tail that is.             *)
LEMMA TornLinesAre ==
  ASSUME NEW S, NEW f \in FilesOf(S)
  PROVE  /\ IsFiniteSet(TornLines(f)) /\ Cardinality(TornLines(f)) \in Nat
         /\ Cardinality(f.tail) \in {0, 1}
         /\ f.tail = {} <=> Cardinality(f.tail) = 0
         /\ Cardinality(malformedLines(f)) =
              Cardinality(TornLines(f)) + IF f.tail = {Malformed} THEN 1 ELSE 0
  <1>1. f.lines \in Seq(LinesOf(S)) /\ f.tail \in {{}} \cup {{l} : l \in LinesOf(S)}
    BY DEF FilesOf
  <1> DEFINE n == Len(f.lines)
  <1>2. n \in Nat /\ DOMAIN f.lines = 1..n BY <1>1
  <1>3. IsFiniteSet(TornLines(f)) /\ Cardinality(TornLines(f)) \in Nat
    <2>1. TornLines(f) \subseteq 1..n BY <1>2 DEF TornLines
    <2>2. IsFiniteSet(1..n) BY <1>2, FS_Interval
    <2>3. IsFiniteSet(TornLines(f)) BY <2>1, <2>2, FS_Subset
    <2> QED BY <2>3, FS_CardinalityType
  <1>4. Cardinality({}) = 0 BY FS_EmptySet
  <1>5. \A l : Cardinality({l}) = 1 BY FS_Singleton
  <1>6. Cardinality(f.tail) \in {0, 1} /\ (f.tail = {} <=> Cardinality(f.tail) = 0)
    <2>1. CASE f.tail = {} BY <1>4, <2>1
    <2>2. CASE f.tail # {}
      <3>1. PICK l : f.tail = {l} BY <1>1, <2>2
      <3> QED BY <1>5, <2>2, <3>1
    <2> QED BY <2>1, <2>2
  <1>7. CASE f.tail = {}
    <2>1. AllLines(f) = f.lines
      <3>1. AllLines(f) = f.lines \o <<>> BY <1>7, NoLine DEF AllLines
      <3> QED BY <1>1, <3>1
    <2>2. malformedLines(f) = TornLines(f) BY <2>1 DEF malformedLines, TornLines
    <2> QED BY <1>3, <1>6, <1>7, <2>2
  <1>8. CASE f.tail # {}
    <2>1. PICK l \in LinesOf(S) : f.tail = {l} BY <1>1, <1>8
    <2>2. AllLines(f) = Append(f.lines, l)
      <3>1. AllLines(f) = f.lines \o <<l>> BY <2>1, OneLine DEF AllLines
      <3> QED BY <1>1, <3>1
    <2>3. DOMAIN AllLines(f) = 1..(n + 1) /\ AllLines(f)[n + 1] = l
          /\ \A i \in 1..n : AllLines(f)[i] = f.lines[i]
      BY <1>1, <2>2
    <2>4. malformedLines(f) = {i \in 1..(n + 1) : AllLines(f)[i] = Malformed}
      BY <2>3 DEF malformedLines
    <2>5. TornLines(f) = {i \in 1..n : f.lines[i] = Malformed} BY <1>2 DEF TornLines
    <2> HIDE DEF n
    <2>6. 1..(n + 1) = 1..n \cup {n + 1} /\ n + 1 \notin 1..n BY <1>2
    <2>7. CASE l = Malformed
      <3>1. malformedLines(f) = TornLines(f) \cup {n + 1} /\ n + 1 \notin TornLines(f)
        BY <2>3, <2>4, <2>5, <2>6, <2>7
      <3>2. Cardinality(malformedLines(f)) = Cardinality(TornLines(f)) + 1
        BY <1>3, <3>1, FS_AddElement
      <3> QED BY <1>3, <1>6, <2>1, <2>7, <3>2
    <2>8. CASE l # Malformed
      <3>1. malformedLines(f) = TornLines(f) BY <2>3, <2>4, <2>5, <2>6, <2>8
      <3>2. f.tail # {Malformed} BY <2>1, <2>8
      <3> QED BY <1>3, <1>6, <3>1, <3>2
    <2> QED BY <2>7, <2>8
  <1> QED BY <1>3, <1>6, <1>7, <1>8

(* A write that finishes turns a torn tail into one more torn line; one     *)
(* that is cut short leaves the lines alone.                                *)
LEMMA WriteTears ==
  ASSUME NEW S, NEW f \in FilesOf(S), NEW e
  PROVE  /\ appendEvent(f, e).tail = {}
         /\ Cardinality(TornLines(appendEvent(f, e))) =
              Cardinality(TornLines(f)) + Cardinality(f.tail)
         /\ \A g \in TornAppends(f, e) :
              /\ TornLines(g) = TornLines(f)
              /\ \A x : g.tail = {LineOf(x)} => x = e \/ f.tail = {LineOf(x)}
  <1> DEFINE n == Len(f.lines)
             g == appendEvent(f, e)
  <1>1. n \in Nat /\ DOMAIN f.lines = 1..n /\ f.lines \in Seq(LinesOf(S)) BY DEF FilesOf
  <1>2. g.tail = {} /\ g.lines = Append(f.lines, Joined(f, e)) BY DEF appendEvent
  <1>3. /\ DOMAIN g.lines = 1..(n + 1) /\ g.lines[n + 1] = Joined(f, e)
        /\ \A i \in 1..n : g.lines[i] = f.lines[i]
    BY <1>1, <1>2
  <1> HIDE DEF g
  <1>4. TornLines(g) = {i \in 1..(n + 1) : g.lines[i] = Malformed} BY <1>3 DEF TornLines
  <1>5. TornLines(f) = {i \in 1..n : f.lines[i] = Malformed} BY <1>1 DEF TornLines
  <1> HIDE DEF n
  <1>6. 1..(n + 1) = 1..n \cup {n + 1} /\ n + 1 \notin 1..n BY <1>1
  <1>7. Cardinality(TornLines(g)) = Cardinality(TornLines(f)) + Cardinality(f.tail)
    <2>1. /\ IsFiniteSet(TornLines(f)) /\ Cardinality(TornLines(f)) \in Nat
          /\ Cardinality(f.tail) \in {0, 1} /\ (f.tail = {} <=> Cardinality(f.tail) = 0)
      BY TornLinesAre
    <2>2. CASE f.tail = {}
      <3>1. Joined(f, e) # Malformed BY <2>2 DEF Joined, LineOf, Malformed
      <3>2. TornLines(g) = TornLines(f) BY <1>3, <1>4, <1>5, <1>6, <3>1
      <3> QED BY <2>1, <2>2, <3>2
    <2>3. CASE f.tail # {}
      <3>1. Joined(f, e) = Malformed BY <2>3 DEF Joined
      <3>2. TornLines(g) = TornLines(f) \cup {n + 1} /\ n + 1 \notin TornLines(f)
        BY <1>3, <1>4, <1>5, <1>6, <3>1
      <3>3. Cardinality(TornLines(g)) = Cardinality(TornLines(f)) + 1
        BY <2>1, <3>2, FS_AddElement
      <3> QED BY <2>1, <2>3, <3>3
    <2> QED BY <2>2, <2>3
  <1>8. ASSUME NEW h \in TornAppends(f, e)
        PROVE  /\ TornLines(h) = TornLines(f)
               /\ \A x : h.tail = {LineOf(x)} => x = e \/ f.tail = {LineOf(x)}
    <2>1. h.lines = f.lines /\ (h = f \/ h.tail = {Malformed} \/ h.tail = {Joined(f, e)})
      BY DEF TornAppends, FilesOf
    <2>2. TornLines(h) = TornLines(f) BY <2>1 DEF TornLines
    <2>3. ASSUME NEW x, h.tail = {LineOf(x)} PROVE x = e \/ f.tail = {LineOf(x)}
      <3>1. LineOf(x) # Malformed BY DEF LineOf, Malformed
      <3>2. CASE h.tail = {Joined(f, e)}
        <4>1. LineOf(x) = Joined(f, e) BY <2>3, <3>2
        <4>2. LineOf(x) = LineOf(e) BY <3>1, <4>1 DEF Joined
        <4> QED BY <4>2 DEF LineOf
      <3> QED BY <2>1, <2>3, <3>1, <3>2
    <2> QED BY <2>2, <2>3
  <1> QED BY <1>2, <1>7, <1>8 DEF g

-----------------------------------------------------------------------------
(* A write of an event that was never written keeps the ledger in order.    *)

Writes(e) ==
  \/ file' = appendEvent(file, e) /\ acked' = Append(acked, e) /\ cut' = cut
  \/ file' \in TornAppends(file, e) /\ acked' = acked /\ cut' = cut \cup {e}

LEMMA WrittenGrows ==
  ASSUME LedgerInv, NEW e, Writes(e)
  PROVE  /\ Written' = Written \cup {e}
         /\ ToSet(acked') \subseteq ToSet(acked) \cup {e}
         /\ file \in FilesOf(Written') /\ e \in Written'
         /\ file' \in {appendEvent(file, e)} \cup TornAppends(file, e)
  <1>1. ToSet(Append(acked, e)) = ToSet(acked) \cup {e} BY ToSetAppend DEF LedgerInv
  <1>2. Written' = Written \cup {e} /\ ToSet(acked') \subseteq ToSet(acked) \cup {e}
    BY <1>1 DEF Writes, Written
  <1>3. file \in FilesOf(Written') BY <1>2, FilesGrow DEF LedgerInv
  <1> QED BY <1>2, <1>3 DEF Writes

LEMMA LedgerKept ==
  ASSUME LedgerInv, NEW e, e \notin Written, Writes(e)
  PROVE  LedgerInv'
  <1>1. /\ Written' = Written \cup {e} /\ file \in FilesOf(Written') /\ e \in Written'
        /\ file' \in {appendEvent(file, e)} \cup TornAppends(file, e)
    BY WrittenGrows
  <1>2. file' \in FilesOf(Written') BY <1>1, WriteReads
  <1>3. CASE file' = appendEvent(file, e) /\ acked' = Append(acked, e) /\ cut' = cut
    <2>1. acked \in Seq(Written') BY <1>1 DEF LedgerInv
    <2>2. acked' \in Seq(Written') BY <1>1, <1>3, <2>1
    <2>3. ToSet(acked') \cap cut' = {}
      <3>1. ToSet(acked') = ToSet(acked) \cup {e} BY <1>3, ToSetAppend DEF LedgerInv
      <3>2. e \notin cut BY DEF Written
      <3> QED BY <1>3, <3>1, <3>2 DEF LedgerInv
    <2>4. file'.tail = {} BY <1>3 DEF appendEvent
    <2> QED BY <1>2, <1>3, <2>2, <2>3, <2>4 DEF LedgerInv
  <1>4. CASE file' \in TornAppends(file, e) /\ acked' = acked /\ cut' = cut \cup {e}
    <2>1. acked' \in Seq(Written') BY <1>1, <1>4 DEF LedgerInv
    <2>2. IsFiniteSet(cut') BY <1>4, FS_AddElement DEF LedgerInv
    <2>3. ToSet(acked') \cap cut' = {} BY <1>4 DEF LedgerInv, Written
    <2>4. ASSUME NEW x, file'.tail = {LineOf(x)} PROVE x \in cut'
      BY <1>1, <1>4, <2>4, WriteTears DEF LedgerInv
    <2> QED BY <1>2, <2>1, <2>2, <2>3, <2>4 DEF LedgerInv
  <1> QED BY <1>3, <1>4 DEF Writes

(* What was acknowledged and cannot be read any more, after a write.        *)
LEMMA LossOfAWrite ==
  ASSUME LedgerInv, NEW e, e \notin Written, Writes(e)
  PROVE  /\ file' \in TornAppends(file, e) \/ file.tail = {} => Lost' \subseteq Lost
         /\ Lost' \subseteq Lost \cup {e}
  <1>1. /\ Written' = Written \cup {e} /\ file \in FilesOf(Written') /\ e \in Written'
        /\ file' \in {appendEvent(file, e)} \cup TornAppends(file, e)
        /\ ToSet(acked') \subseteq ToSet(acked) \cup {e}
    BY WrittenGrows
  <1>2. /\ readEvents(file) \in Seq(Written') /\ readEvents(file') \in Seq(Written')
        /\ \/ readEvents(file') = readEvents(file)
           \/ readEvents(file') = Append(readEvents(file), e)
           \/ \E x \in Written' : /\ file.tail = {LineOf(x)}
                                  /\ readEvents(file) = Append(readEvents(file'), x)
        /\ file' = appendEvent(file, e) /\ file.tail = {} =>
             readEvents(file') = Append(readEvents(file), e)
    BY <1>1, WriteReads
  <1>3. Lost = ToSet(acked) \ ToSet(readEvents(file))
        /\ Lost' = ToSet(acked') \ ToSet(readEvents(file'))
    BY DEF Lost, Readable, events
  <1>4. Lost' \subseteq Lost \cup {e}
    <2>1. CASE readEvents(file') = readEvents(file) BY <1>1, <1>3, <2>1
    <2>2. CASE readEvents(file') = Append(readEvents(file), e)
      <3>1. ToSet(readEvents(file')) = ToSet(readEvents(file)) \cup {e}
        BY <1>2, <2>2, ToSetAppend
      <3> QED BY <1>1, <1>3, <3>1
    <2>3. CASE \E x \in Written' : /\ file.tail = {LineOf(x)}
                                   /\ readEvents(file) = Append(readEvents(file'), x)
      <3>1. PICK x : file.tail = {LineOf(x)} /\ readEvents(file) = Append(readEvents(file'), x)
        BY <2>3
      <3>2. ToSet(readEvents(file)) = ToSet(readEvents(file')) \cup {x}
        BY <1>2, <3>1, ToSetAppend
      <3>3. x \notin ToSet(acked) BY <3>1 DEF LedgerInv
      <3> QED BY <1>1, <1>3, <3>2, <3>3
    <2> QED BY <1>2, <2>1, <2>2, <2>3
  <1>5. file' \in TornAppends(file, e) \/ file.tail = {} => e \notin Lost'
    <2>1. CASE acked' = acked BY <1>3, <2>1 DEF Written
    <2>2. CASE file' = appendEvent(file, e) /\ file.tail = {}
      <3>1. ToSet(readEvents(file')) = ToSet(readEvents(file)) \cup {e}
        BY <1>2, <2>2, ToSetAppend
      <3> QED BY <1>3, <3>1
    <2>3. CASE file' = appendEvent(file, e) /\ file' \in TornAppends(file, e) /\ file.tail # {}
      <3>1. Cardinality(TornLines(file')) = Cardinality(TornLines(file)) + Cardinality(file.tail)
            /\ TornLines(file') = TornLines(file)
        BY <1>1, <2>3, WriteTears
      <3>2. Cardinality(TornLines(file)) \in Nat /\ Cardinality(file.tail) \in {0, 1}
            /\ (file.tail = {} <=> Cardinality(file.tail) = 0)
        BY <1>1, TornLinesAre
      <3> QED BY <2>3, <3>1, <3>2
    <2> QED BY <2>1, <2>2, <2>3 DEF Writes
  <1> QED BY <1>4, <1>5

(* What is lost was acknowledged, and no more than finitely many events are. *)
LEMMA LostIsFinite ==
  ASSUME LedgerInv
  PROVE  IsFiniteSet(Lost) /\ Cardinality(Lost) \in Nat
  <1>1. acked \in Seq(Written) BY DEF LedgerInv
  <1>2. Len(acked) \in Nat /\ DOMAIN acked = 1..Len(acked) BY <1>1
  <1>3. IsFiniteSet(DOMAIN acked) BY <1>2, FS_Interval
  <1> HIDE DEF Written
  <1>4. acked \in Surjection(DOMAIN acked, ToSet(acked))
    BY <1>1, <1>2 DEF ToSet, Surjection
  <1>5. IsFiniteSet(ToSet(acked)) BY <1>3, <1>4, FS_Surjection
  <1>6. IsFiniteSet(Lost) BY <1>5, FS_Subset DEF Lost
  <1> QED BY <1>6, FS_CardinalityType

(* Each torn line accounts for one lost event, and each cut write for one   *)
(* torn line at most.                                                       *)
LEMMA LossKept ==
  ASSUME LedgerInv, LossInv, NEW e, e \notin Written, Writes(e)
  PROVE  LossInv'
  <1>1. file \in FilesOf(Written) BY DEF LedgerInv
  <1>2. file' \in FilesOf(Written') /\ IsFiniteSet(cut') BY LedgerKept DEF LedgerInv
  <1>3. /\ Cardinality(TornLines(file)) \in Nat /\ Cardinality(file.tail) \in {0, 1}
        /\ file.tail = {} <=> Cardinality(file.tail) = 0
    BY <1>1, TornLinesAre
  <1>4. Cardinality(TornLines(file')) \in Nat /\ Cardinality(file'.tail) \in {0, 1}
    BY <1>2, TornLinesAre
  <1>5. IsFiniteSet(Lost) /\ Cardinality(Lost) \in Nat BY LostIsFinite
  <1>6. IsFiniteSet(cut) /\ Cardinality(cut) \in Nat /\ Cardinality(cut') \in Nat
    BY <1>2, FS_CardinalityType DEF LedgerInv
  <1>7. Cardinality(Lost') <= Cardinality(Lost) + 1
        /\ (Lost' \subseteq Lost => Cardinality(Lost') <= Cardinality(Lost))
        /\ Cardinality(Lost') \in Nat
    <2>1. Lost' \subseteq Lost \cup {e} BY LossOfAWrite
    <2>2. IsFiniteSet(Lost \cup {e}) /\ Cardinality(Lost \cup {e}) <= Cardinality(Lost) + 1
      BY <1>5, FS_AddElement
    <2>3. /\ IsFiniteSet(Lost') /\ Cardinality(Lost') \in Nat
          /\ Cardinality(Lost') <= Cardinality(Lost \cup {e})
          /\ Cardinality(Lost \cup {e}) \in Nat
      BY <2>1, <2>2, FS_Subset, FS_CardinalityType
    <2>4. Lost' \subseteq Lost => Cardinality(Lost') <= Cardinality(Lost) BY <1>5, FS_Subset
    <2> QED BY <1>5, <2>2, <2>3, <2>4
  <1>8. CASE file' = appendEvent(file, e) /\ acked' = Append(acked, e) /\ cut' = cut
    <2>1. file'.tail = {} BY <1>8 DEF appendEvent
    <2>2. Cardinality(file'.tail) = 0 BY <1>2, <2>1, TornLinesAre
    <2>3. Cardinality(TornLines(file')) = Cardinality(TornLines(file)) + Cardinality(file.tail)
      BY <1>1, <1>8, WriteTears
    <2>4. file.tail = {} => Cardinality(Lost') <= Cardinality(Lost) BY <1>7, LossOfAWrite
    <2> QED BY <1>3, <1>5, <1>6, <1>7, <1>8, <2>2, <2>3, <2>4 DEF LossInv
  <1>9. CASE file' \in TornAppends(file, e) /\ acked' = acked /\ cut' = cut \cup {e}
    <2>1. Cardinality(Lost') <= Cardinality(Lost) BY <1>7, <1>9, LossOfAWrite
    <2>2. Cardinality(TornLines(file')) = Cardinality(TornLines(file))
      BY <1>1, <1>9, WriteTears
    <2>3. Cardinality(cut') = Cardinality(cut) + 1
      <3>1. e \notin cut BY DEF Written
      <3> QED BY <1>6, <1>9, <3>1, FS_AddElement
    <2> QED BY <1>3, <1>4, <1>5, <1>6, <1>7, <2>1, <2>2, <2>3 DEF LossInv
  <1> QED BY <1>8, <1>9 DEF Writes

(* What two sequences have in common comes in the same order in both.       *)
SameOrder(s, t) ==
  \A i \in DOMAIN s, k \in DOMAIN t : s[i] = t[k] =>
    \A j \in DOMAIN s, l \in DOMAIN t : s[j] = t[l] => (i < j <=> k < l)

LEMMA AppendToOne ==
  ASSUME NEW S, NEW s \in Seq(S), NEW t \in Seq(S), NEW x \in S, x \notin ToSet(s)
  PROVE  /\ SameOrder(s, t) => SameOrder(s, Append(t, x))
         /\ SameOrder(t, s) => SameOrder(Append(t, x), s)
         /\ SameOrder(s, Append(t, x)) => SameOrder(s, t)
  <1> DEFINE n == Len(t)
             u == Append(t, x)
  <1>1. /\ n \in Nat /\ DOMAIN t = 1..n /\ DOMAIN u = 1..(n + 1) /\ u[n + 1] = x
        /\ \A k \in 1..n : u[k] = t[k]
    OBVIOUS
  <1>2. \A i \in DOMAIN s : s[i] # x BY DEF ToSet
  <1> HIDE DEF n, u
  <1>3. ASSUME NEW i \in DOMAIN s, NEW k \in DOMAIN u, s[i] = u[k] \/ u[k] = s[i]
        PROVE  k \in DOMAIN t /\ u[k] = t[k]
    <2>1. k # n + 1 BY <1>1, <1>2, <1>3
    <2> QED BY <1>1, <2>1
  <1>4. \A k \in DOMAIN t : k \in DOMAIN u /\ u[k] = t[k] BY <1>1
  <1> QED BY <1>3, <1>4 DEF SameOrder, u

LEMMA AppendToBoth ==
  ASSUME NEW S, NEW s \in Seq(S), NEW t \in Seq(S), NEW x \in S,
         x \notin ToSet(s), x \notin ToSet(t), SameOrder(s, t)
  PROVE  SameOrder(Append(s, x), Append(t, x))
  <1> DEFINE m == Len(s)
             n == Len(t)
             v == Append(s, x)
             u == Append(t, x)
  <1>1. /\ n \in Nat /\ DOMAIN t = 1..n /\ DOMAIN u = 1..(n + 1) /\ u[n + 1] = x
        /\ \A k \in 1..n : u[k] = t[k]
    OBVIOUS
  <1>2. /\ m \in Nat /\ DOMAIN s = 1..m /\ DOMAIN v = 1..(m + 1) /\ v[m + 1] = x
        /\ \A i \in 1..m : v[i] = s[i]
    OBVIOUS
  <1>3. (\A i \in DOMAIN s : s[i] # x) /\ (\A k \in DOMAIN t : t[k] # x) BY DEF ToSet
  <1> HIDE DEF m, n, u, v
  <1>4. ASSUME NEW i \in DOMAIN v, NEW k \in DOMAIN u, v[i] = u[k]
        PROVE  \/ i = m + 1 /\ k = n + 1
               \/ i \in DOMAIN s /\ k \in DOMAIN t /\ s[i] = t[k] /\ i \in 1..m /\ k \in 1..n
    <2>1. i \in 1..m \/ i = m + 1 BY <1>2
    <2>2. k \in 1..n \/ k = n + 1 BY <1>1
    <2> QED BY <1>1, <1>2, <1>3, <1>4, <2>1, <2>2
  <1>5. ASSUME NEW i \in DOMAIN v, NEW k \in DOMAIN u, v[i] = u[k],
               NEW j \in DOMAIN v, NEW l \in DOMAIN u, v[j] = u[l]
        PROVE  i < j <=> k < l
    <2>1. CASE i = m + 1 /\ k = n + 1 BY <1>1, <1>2, <1>4, <1>5, <2>1
    <2>2. CASE j = m + 1 /\ l = n + 1 BY <1>1, <1>2, <1>4, <1>5, <2>2
    <2>3. CASE /\ i \in DOMAIN s /\ k \in DOMAIN t /\ s[i] = t[k]
               /\ j \in DOMAIN s /\ l \in DOMAIN t /\ s[j] = t[l]
      BY <2>3 DEF SameOrder
    <2> QED BY <1>4, <1>5, <2>1, <2>2, <2>3
  <1>6. SameOrder(v, u) BY <1>5 DEF SameOrder
  <1> QED BY <1>6 DEF u, v

LEMMA OrderKept ==
  ASSUME LedgerInv, ReadersSeeAppendOrder, NEW e, e \notin Written, Writes(e)
  PROVE  ReadersSeeAppendOrder'
  <1>1. /\ Written' = Written \cup {e} /\ file \in FilesOf(Written') /\ e \in Written'
        /\ file' \in {appendEvent(file, e)} \cup TornAppends(file, e)
    BY WrittenGrows
  <1> DEFINE S == Written'
             known == readEvents(file)
             new == readEvents(file')
  <1>2. /\ known \in Seq(S) /\ new \in Seq(S)
        /\ \/ new = known
           \/ new = Append(known, e)
           \/ \E x \in S : known = Append(new, x) /\ file.tail = {LineOf(x)}
    BY <1>1, WriteReads
  <1>3. known \in Seq(Written) BY ReadEventsIs DEF LedgerInv
  <1>4. acked \in Seq(S) /\ e \in S /\ e \notin ToSet(acked) BY <1>1 DEF LedgerInv, Written
  <1>5. e \notin ToSet(known) BY <1>3 DEF ToSet
  <1>6. SameOrder(acked, known) BY DEF ReadersSeeAppendOrder, SameOrder, events
  <1>7. ReadersSeeAppendOrder' <=> SameOrder(acked', new)
    BY DEF ReadersSeeAppendOrder, SameOrder, events
  <1> HIDE DEF S, known, new
  <1>8. SameOrder(acked, new) /\ SameOrder(Append(acked, e), new)
    <2>1. CASE new = known
      BY <1>2, <1>4, <1>5, <1>6, <2>1, AppendToOne
    <2>2. CASE new = Append(known, e)
      BY <1>2, <1>4, <1>5, <1>6, <2>2, AppendToOne, AppendToBoth
    <2>3. CASE \E x \in S : known = Append(new, x) /\ file.tail = {LineOf(x)}
      <3>1. PICK x \in S : known = Append(new, x) /\ file.tail = {LineOf(x)} BY <2>3
      <3>2. x \notin ToSet(acked) BY <3>1 DEF LedgerInv
      <3>3. SameOrder(acked, new) BY <1>2, <1>4, <1>6, <3>1, <3>2, AppendToOne
      <3>4. e \notin ToSet(new)
        <4>1. ToSet(known) = ToSet(new) \cup {x} BY <1>2, <3>1, ToSetAppend
        <4> QED BY <1>5, <4>1
      <3>5. SameOrder(Append(acked, e), new) BY <1>2, <1>4, <3>3, <3>4, AppendToOne
      <3> QED BY <3>3, <3>5
    <2> QED BY <1>2, <2>1, <2>2, <2>3
  <1>9. acked' \in {acked, Append(acked, e)} BY DEF Writes
  <1> QED BY <1>7, <1>8, <1>9

(* e comes after what it was measured against, if it is an outcome.         *)
Audited(known, e) ==
  e.type = "reputation-updated" =>
    \E j \in DOMAIN known : /\ known[j].type = "prediction-recorded"
                            /\ known[j].task = e.task
                            /\ known[j].predictionId = e.predictionId
                            /\ known[j].agent = e.agent
                            /\ known[j].predictedTokens = e.predictedTokens

LEMMA AuditKept ==
  ASSUME LedgerInv, OutcomesFollowTheirPredictions, NEW e, Audited(events, e), Writes(e)
  PROVE  OutcomesFollowTheirPredictions'
  <1>1. /\ file \in FilesOf(Written') /\ e \in Written'
        /\ file' \in {appendEvent(file, e)} \cup TornAppends(file, e)
    BY WrittenGrows
  <1> DEFINE S == Written'
             known == readEvents(file)
             new == readEvents(file')
  <1>2. /\ known \in Seq(S) /\ new \in Seq(S)
        /\ \/ new = known
           \/ new = Append(known, e)
           \/ \E x \in S : known = Append(new, x)
    BY <1>1, WriteReads
  <1>3. OutcomesFollow(known) /\ Audited(known, e)
    BY DEF OutcomesFollowTheirPredictions, events
  <1>4. OutcomesFollowTheirPredictions' <=> OutcomesFollow(new)
    BY DEF OutcomesFollowTheirPredictions, OutcomesFollow, events
  <1> HIDE DEF S, known, new
  <1>5. CASE new = Append(known, e)
    <2> DEFINE n == Len(known)
    <2>1. /\ n \in Nat /\ DOMAIN known = 1..n /\ DOMAIN new = 1..(n + 1) /\ new[n + 1] = e
          /\ \A k \in 1..n : new[k] = known[k]
      BY <1>2, <1>5
    <2> HIDE DEF n
    <2>2. ASSUME NEW i \in DOMAIN new, new[i].type = "reputation-updated"
          PROVE  \E j \in 1..(i - 1) : /\ new[j].type = "prediction-recorded"
                                       /\ new[j].task = new[i].task
                                       /\ new[j].predictionId = new[i].predictionId
                                       /\ new[j].agent = new[i].agent
                                       /\ new[j].predictedTokens = new[i].predictedTokens
      <3>1. CASE i = n + 1
        <4>1. PICK j \in DOMAIN known : /\ known[j].type = "prediction-recorded"
                                        /\ known[j].task = e.task
                                        /\ known[j].predictionId = e.predictionId
                                        /\ known[j].agent = e.agent
                                        /\ known[j].predictedTokens = e.predictedTokens
          BY <1>3, <2>1, <2>2, <3>1 DEF Audited
        <4>2. j \in 1..(i - 1) /\ new[j] = known[j] /\ new[i] = e BY <2>1, <3>1
        <4> QED BY <4>1, <4>2
      <3>2. CASE i \in 1..n
        <4>1. PICK j \in 1..(i - 1) : /\ known[j].type = "prediction-recorded"
                                      /\ known[j].task = known[i].task
                                      /\ known[j].predictionId = known[i].predictionId
                                      /\ known[j].agent = known[i].agent
                                      /\ known[j].predictedTokens = known[i].predictedTokens
          BY <1>3, <2>1, <2>2, <3>2 DEF OutcomesFollow
        <4>2. new[j] = known[j] /\ new[i] = known[i] BY <2>1, <3>2
        <4> QED BY <4>1, <4>2
      <3> QED BY <2>1, <3>1, <3>2
    <2> QED BY <1>4, <2>2 DEF OutcomesFollow
  <1>6. CASE \E x \in S : known = Append(new, x)
    <2>1. PICK x \in S : known = Append(new, x) BY <1>6
    <2> DEFINE n == Len(new)
    <2>2. /\ n \in Nat /\ DOMAIN new = 1..n /\ DOMAIN known = 1..(n + 1)
          /\ \A k \in 1..n : new[k] = known[k]
      BY <1>2, <2>1
    <2> HIDE DEF n
    <2>3. \A i \in DOMAIN new : i \in DOMAIN known /\ new[i] = known[i]
          /\ \A j \in 1..(i - 1) : new[j] = known[j]
      BY <2>2
    <2> QED BY <1>3, <1>4, <2>3 DEF OutcomesFollow
  <1> QED BY <1>2, <1>3, <1>4, <1>5, <1>6

-----------------------------------------------------------------------------
(* A process writes what lies ahead of it.                                  *)

LEMMA StageOf ==
  ASSUME NEW w
  PROVE  /\ Idle.stage = "idle"
         /\ IsPredicting(w) => w.stage = "predicting"
         /\ IsExecuting(w) => w.stage = "executing"
         /\ IsWork(w) => w # Idle /\ w.id \in Nat /\ w.predictions \in Seq(Submission)
  <1>1. Idle.stage = "idle" BY DEF Idle
  <1>2. IsPredicting(w) => w.stage = "predicting" BY DEF IsPredicting
  <1>3. IsExecuting(w) => w.stage = "executing" BY DEF IsExecuting
  <1> QED BY <1>1, <1>2, <1>3 DEF IsWork, IsPredicting, IsExecuting

(* What a process has in hand is its work, or a task nobody has yet.        *)
LEMMA InHandIs ==
  ASSUME WorkInv, NEW d \in Process, NEW w \in InHand(d)
  PROVE  /\ IsWork(w)
         /\ \/ w = work[d] /\ work[d] # Idle /\ w.id \in 1..taken
            \/ work[d] = Idle /\ w.id = taken + 1
  <1>1. taken \in Nat /\ (work[d] = Idle \/ (IsWork(work[d]) /\ work[d].id \in 1..taken))
    BY DEF WorkInv
  <1>2. CASE work[d].stage = "idle"
    <2>1. work[d] = Idle
      BY <1>1, <1>2, StageOf DEF IsWork
    <2>2. PICK task : w = [stage |-> "predicting", id |-> taken + 1, task |-> task,
                           predictions |-> <<>>]
      BY <1>2 DEF InHand
    <2>3. IsPredicting(w) /\ w.id = taken + 1 BY <1>1, <2>2 DEF IsPredicting
    <2> QED BY <2>1, <2>3 DEF IsWork
  <1>3. CASE work[d].stage # "idle"
    <2>1. w = work[d] BY <1>3 DEF InHand
    <2>2. work[d] # Idle BY <1>3, StageOf
    <2> QED BY <1>1, <2>1, <2>2
  <1> QED BY <1>2, <1>3

(* Event e is the next thing work w writes, and leads to `next'.            *)
Advances(w, e, next) ==
  /\ e.task = w.id /\ ~Behind(e, w)
  /\ \/ next = Idle
     \/ /\ IsWork(next) /\ next.id = w.id
        /\ Behind(e, next)
        /\ \A x : Behind(x, w) => Behind(x, next)

LEMMA NeverWritten ==
  ASSUME WorkInv, FreshInv, NEW d \in Process, NEW w \in InHand(d),
         NEW e, NEW next, Advances(w, e, next)
  PROVE  e \notin Written
  <1>1. taken \in Nat BY DEF WorkInv
  <1>2. e.task = w.id /\ ~Behind(e, w) BY DEF Advances
  <1>3. SUFFICES ASSUME e \in Written PROVE FALSE OBVIOUS
  <1>4. e.task \in 0..taken /\ (work[d] # Idle /\ work[d].id = e.task => Behind(e, work[d]))
    BY <1>3 DEF FreshInv
  <1> HIDE DEF Behind, Idle
  <1> QED BY <1>1, <1>2, <1>4, InHandIs

LEMMA WorkKept ==
  ASSUME WorkInv, FreshInv, LedgerInv, NEW d \in Process, NEW w \in InHand(d),
         NEW e, NEW next, Advances(w, e, next), Writes(e),
         work' \in {[work EXCEPT ![d] = next], [work EXCEPT ![d] = Idle]},
         taken' = Larger(taken, w.id)
  PROVE  WorkInv' /\ FreshInv'
  <1> USE DEF WorkInv
  <1>1. PICK x : /\ work' = [work EXCEPT ![d] = x]
                 /\ x = Idle \/ x = next
    OBVIOUS
  <1>2. /\ IsWork(w)
        /\ \/ w = work[d] /\ work[d] # Idle /\ w.id \in 1..taken
           \/ work[d] = Idle /\ w.id = taken + 1
    BY InHandIs
  <1>3. /\ e.task = w.id
        /\ \/ x = Idle
           \/ /\ IsWork(x) /\ x.id = w.id /\ Behind(e, x)
              /\ \A y : Behind(y, w) => Behind(y, x)
    BY <1>1 DEF Advances
  <1>4. taken' \in Nat /\ taken <= taken' /\ w.id \in 1..taken' BY <1>2 DEF Larger
  <1>5. /\ work' = [c \in Process |-> work'[c]]
        /\ work'[d] = x /\ \A c \in Process : c # d => work'[c] = work[c]
    BY <1>1
  <1>6. \A c \in Process : c # d /\ work[c] # Idle => work[c].id # w.id /\ work[c].id \in 1..taken
    BY <1>2
  <1> HIDE DEF Idle
  <1>7. WorkInv'
    <2>1. \A c \in Process : \/ work'[c] = Idle
                             \/ IsWork(work'[c]) /\ work'[c].id \in 1..taken'
      <3>1. ASSUME NEW c \in Process, c # d
            PROVE  work[c] = Idle \/ (IsWork(work[c]) /\ work[c].id \in 1..taken')
        BY <1>4, <1>6, <3>1
      <3> QED BY <1>3, <1>4, <1>5, <3>1
    <2>2. \A b, c \in Process : b # c /\ work'[b] # Idle /\ work'[c] # Idle =>
                                  work'[b].id # work'[c].id
      BY <1>3, <1>5, <1>6
    <2> QED BY <1>4, <1>5, <2>1, <2>2
  <1>8. FreshInv'
    <2>1. Written' = Written \cup {e} BY WrittenGrows
    <2>2. ASSUME NEW y \in Written', NEW c \in Process, work'[c] # Idle, work'[c].id = y.task
          PROVE  Behind(y, work'[c])
      <3>1. CASE y = e
        BY <1>3, <1>5, <1>6, <2>2, <3>1
      <3>2. CASE y \in Written /\ c # d
        BY <1>5, <2>2, <3>2 DEF FreshInv
      <3>3. CASE y \in Written /\ c = d
        <4>1. IsWork(x) /\ y.task = w.id BY <1>3, <1>5, <2>2, <3>3
        <4>2. y.task \in 0..taken BY <3>3 DEF FreshInv
        <4>3. w = work[d] /\ work[d] # Idle BY <1>2, <4>1, <4>2
        <4>4. Behind(y, w) BY <3>3, <4>1, <4>3 DEF FreshInv
        <4> QED BY <1>3, <1>5, <2>2, <3>3, <4>4
      <3> QED BY <2>1, <3>1, <3>2, <3>3
    <2>3. ASSUME NEW y \in Written' PROVE y.task \in 0..taken'
      <3>1. CASE y = e BY <1>3, <1>4, <3>1
      <3>2. CASE y \in Written
        <4>1. y.task \in 0..taken BY <3>2 DEF FreshInv
        <4> QED BY <1>4, <4>1
      <3> QED BY <2>1, <3>1, <3>2
    <2> QED BY <2>2, <2>3 DEF FreshInv
  <1> QED BY <1>7, <1>8

(* The properties and the invariant they need.                              *)
Sound ==
  /\ WorkInv /\ FreshInv /\ LedgerInv /\ LossInv
  /\ ReadersSeeAppendOrder /\ OutcomesFollowTheirPredictions

(* A step that appends.                                                     *)
LEMMA AppendStep ==
  ASSUME Sound, NEW d \in Process, NEW w \in InHand(d), NEW e, NEW next,
         Appends(d, e, next), taken' = Larger(taken, w.id),
         Advances(w, e, next), Audited(events, e)
  PROVE  Sound'
  <1>1. WorkInv /\ FreshInv /\ LedgerInv /\ LossInv
        /\ ReadersSeeAppendOrder /\ OutcomesFollowTheirPredictions
    BY DEF Sound
  <1>2. Writes(e) /\ work' \in {[work EXCEPT ![d] = next], [work EXCEPT ![d] = Idle]}
    BY DEF Appends, Records, DiesRecording, Writes
  <1>3. e \notin Written BY <1>1, NeverWritten
  <1>4. WorkInv' /\ FreshInv' BY <1>1, <1>2, WorkKept
  <1>5. LedgerInv' BY <1>1, <1>2, <1>3, LedgerKept
  <1>6. LossInv' BY <1>1, <1>2, <1>3, LossKept
  <1>7. ReadersSeeAppendOrder' BY <1>1, <1>2, <1>3, OrderKept
  <1>8. OutcomesFollowTheirPredictions' BY <1>1, <1>2, AuditKept
  <1> QED BY <1>4, <1>5, <1>6, <1>7, <1>8 DEF Sound

(* A step that leaves the ledger and the tasks alone, and at most one       *)
(* process drops its work or goes on without a write.                       *)
LEMMA SilentStep ==
  ASSUME Sound, UNCHANGED <<file, acked, cut, taken>>,
         \/ work' = work
         \/ \E d \in Process : \E next :
              /\ work' = [work EXCEPT ![d] = next]
              /\ \/ next = Idle
                 \/ /\ IsWork(next) /\ work[d] # Idle /\ next.id = work[d].id
                    /\ \A x : Behind(x, work[d]) => Behind(x, next)
  PROVE  Sound'
  <1>1. /\ LedgerInv' /\ LossInv' /\ Written' = Written
        /\ ReadersSeeAppendOrder' /\ OutcomesFollowTheirPredictions'
    BY DEF Sound, LedgerInv, LossInv, ReadersSeeAppendOrder, OutcomesFollowTheirPredictions,
           Lost, Readable, Written, events
  <1>2. WorkInv /\ FreshInv BY DEF Sound
  <1>3. CASE work' = work BY <1>1, <1>2, <1>3 DEF Sound, WorkInv, FreshInv
  <1>4. CASE work' # work
    <2> DEFINE GoesOn(d, next) ==
              /\ work' = [work EXCEPT ![d] = next]
              /\ \/ next = Idle
                 \/ /\ IsWork(next) /\ work[d] # Idle /\ next.id = work[d].id
                    /\ \A x : Behind(x, work[d]) => Behind(x, next)
    <2>a. PICK d \in Process : \E next : GoesOn(d, next) BY <1>4
    <2>1. PICK next : GoesOn(d, next) BY <2>a
    <2>2. /\ work' = [c \in Process |-> work'[c]]
          /\ work'[d] = next /\ \A c \in Process : c # d => work'[c] = work[c]
      BY <1>2, <2>1 DEF WorkInv
    <2> HIDE DEF Idle
    <2>3. WorkInv' BY <1>2, <2>1, <2>2 DEF WorkInv
    <2>4. FreshInv'
      <3>1. ASSUME NEW y \in Written', NEW c \in Process, work'[c] # Idle, work'[c].id = y.task
            PROVE  Behind(y, work'[c])
        BY <1>1, <1>2, <2>1, <2>2, <3>1 DEF FreshInv
      <3>2. \A y \in Written' : y.task \in 0..taken' BY <1>1, <1>2 DEF FreshInv
      <3> QED BY <3>1, <3>2 DEF FreshInv
    <2> QED BY <1>1, <2>3, <2>4 DEF Sound
  <1> QED BY <1>3, <1>4

-----------------------------------------------------------------------------
(* Every operation advances the work it is about.                           *)

(* A task that got one step further is still executed, or is finished.      *)
LEMMA Further ==
  ASSUME NEW w, IsExecuting(w), NEW e, e.task = w.id, ~Behind(e, w),
         NEW x, IsExecuting(x), x.id = w.id, x.predictions = w.predictions,
         Len(w.results) <= Len(x.results), w.scored <= x.scored, w.settled <= x.settled,
         w.traced => x.traced, Behind(e, x)
  PROVE  Advances(w, e, OnceFinished(x))
  <1>1. /\ w.stage = "executing" /\ x.stage = "executing"
        /\ w.scored \in Nat /\ x.scored \in Nat /\ w.settled \in Nat /\ x.settled \in Nat
        /\ Len(w.results) \in Nat /\ Len(x.results) \in Nat
    BY StageOf DEF IsExecuting
  <1>2. ASSUME NEW y, Behind(y, w) PROVE Behind(y, x)
    <2>1. CASE /\ y.type = "prediction-recorded"
               /\ y.predictionId \in 1..Len(w.predictions)
               /\ y.agent = w.predictions[y.predictionId].agent
      BY <2>1 DEF Behind
    <2>2. CASE \/ y.type = "task-routed"
               \/ IsUsage(y) /\ y.batchIndex \in 0..(Len(w.results) - 1)
               \/ y.type = "batch-quality-scored" /\ y.batchIndex \in 0..(w.scored - 1)
               \/ y.type = "execution-trace-recorded" /\ w.traced
               \/ y.type = "reputation-updated" /\ y.predictionId \in 1..w.settled
      <3>1. /\ 0..(Len(w.results) - 1) \subseteq 0..(Len(x.results) - 1)
            /\ 0..(w.scored - 1) \subseteq 0..(x.scored - 1)
            /\ 1..w.settled \subseteq 1..x.settled
        BY <1>1
      <3>2. \/ y.type = "task-routed"
            \/ IsUsage(y) /\ y.batchIndex \in 0..(Len(x.results) - 1)
            \/ y.type = "batch-quality-scored" /\ y.batchIndex \in 0..(x.scored - 1)
            \/ y.type = "execution-trace-recorded" /\ x.traced
            \/ y.type = "reputation-updated" /\ y.predictionId \in 1..x.settled
        BY <2>2, <3>1, Zenon
      <3> QED BY <1>1, <3>2, Zenon DEF Behind
    <2> QED BY <1>2, <2>1, <2>2, Zenon DEF Behind
  <1>3. OnceFinished(x) \in {Idle, x} BY DEF OnceFinished
  <1> QED BY <1>2, <1>3 DEF Advances, IsWork

(* The work of a process that executes is what it has in hand.              *)
LEMMA ExecutesInHand ==
  ASSUME WorkInv, NEW d \in Process, work[d].stage = "executing"
  PROVE  /\ work[d] \in InHand(d) /\ IsExecuting(work[d]) /\ work[d] # Idle
         /\ Larger(taken, work[d].id) = taken
  <1>1. taken \in Nat /\ (work[d] = Idle \/ (IsWork(work[d]) /\ work[d].id \in 1..taken))
    BY DEF WorkInv
  <1>2. work[d] # Idle BY StageOf
  <1>3. IsExecuting(work[d]) BY <1>1, <1>2, StageOf DEF IsWork
  <1>4. work[d] \in InHand(d) BY DEF InHand
  <1> QED BY <1>1, <1>2, <1>3, <1>4 DEF Larger

LEMMA RecordPredictionStep ==
  ASSUME Sound, NEW d \in Process, RecordPrediction(d)
  PROVE  Sound'
  <1>1. PICK w \in InHand(d), all \in Prediction :
          /\ w.stage = "predicting" /\ IsStrictPrefix(w.predictions, all)
          /\ Appends(d, [type |-> "prediction-recorded", task |-> w.id,
                         predictionId |-> Len(w.predictions) + 1,
                         agent |-> all[Len(w.predictions) + 1].agent,
                         predictedTokens |-> all[Len(w.predictions) + 1].predictedTokens],
                     [w EXCEPT !.predictions = Append(@, all[Len(w.predictions) + 1])])
          /\ taken' = Larger(taken, w.id)
    BY DEF RecordPrediction
  <1> DEFINE n == Len(w.predictions) + 1
             e == [type |-> "prediction-recorded", task |-> w.id, predictionId |-> n,
                   agent |-> all[n].agent, predictedTokens |-> all[n].predictedTokens]
             next == [w EXCEPT !.predictions = Append(@, all[n])]
  <1>2. IsPredicting(w) BY <1>1, InHandIs, StageOf DEF IsWork, Sound
  <1>3. w.predictions \in Seq(Submission) /\ w.id \in Nat BY <1>2 DEF IsPredicting
  <1>4. all[n] \in Submission
    <2>1. all \in Seq(ToSet(all)) BY DispatchAssumptions
    <2>2. Len(all) # Len(w.predictions)
      <3>1. SubSeq(w.predictions, 1, Len(w.predictions)) = w.predictions BY <1>3
      <3>2. SubSeq(all, 1, Len(all)) = all BY <2>1
      <3> QED BY <1>1, <3>1, <3>2 DEF IsStrictPrefix, IsPrefix
    <2>3. Len(w.predictions) <= Len(all) BY <1>1 DEF IsStrictPrefix, IsPrefix
    <2>4. n \in DOMAIN all BY <1>3, <2>1, <2>2, <2>3
    <2>5. all[n] \in ToSet(all) BY <2>4 DEF ToSet
    <2> QED BY <2>5 DEF Submission
  <1>5. IsPredicting(next) /\ next.id = w.id /\ next.predictions = Append(w.predictions, all[n])
    BY <1>2, <1>3, <1>4 DEF IsPredicting
  <1>6. /\ n \in 1..Len(next.predictions) /\ next.predictions[n] = all[n]
        /\ Len(w.predictions) = n - 1 /\ n \in Nat
        /\ \A i \in 1..(n - 1) : i \in 1..Len(next.predictions)
                                 /\ next.predictions[i] = w.predictions[i]
    BY <1>3, <1>4, <1>5
  <1>7. e.type = "prediction-recorded" /\ e.task = w.id /\ e.predictionId = n
        /\ e.agent = all[n].agent
    OBVIOUS
  <1>8. Appends(d, e, next) BY <1>1
  <1> HIDE DEF n, e, next
  <1>9. ~Behind(e, w)
    <2>1. ~(n \in 1..Len(w.predictions)) BY <1>6
    <2> QED BY <1>1, <1>7, <2>1 DEF Behind
  <1>10. Behind(e, next) BY <1>6, <1>7 DEF Behind
  <1>11. ASSUME NEW x, Behind(x, w) PROVE Behind(x, next)
    BY <1>1, <1>6, <1>11 DEF Behind
  <1>12. Advances(w, e, next) BY <1>5, <1>7, <1>9, <1>10, <1>11 DEF Advances, IsWork
  <1>13. Audited(events, e) BY <1>7 DEF Audited
  <1> QED BY <1>1, <1>8, <1>12, <1>13, AppendStep

LEMMA RouteStep ==
  ASSUME Sound, NEW d \in Process, Route(d)
  PROVE  Sound'
  <1> DEFINE Routes(w, route) ==
          /\ w.stage = "predicting"
          /\ Appends(d, [type |-> "task-routed", task |-> w.id, provider |-> route.provider,
                         gate |-> route.gate, agent |-> route.agent],
                     IF route.approved
                     THEN [stage |-> "executing", id |-> w.id, task |-> w.task,
                           predictions |-> w.predictions, route |-> route,
                           results |-> <<>>, forecast |-> <<>>, scored |-> 0,
                           settled |-> 0, traced |-> FALSE]
                     ELSE Idle)
          /\ taken' = Larger(taken, w.id)
  <1>a. PICK w \in InHand(d) : \E route : Routes(w, route) BY DEF Route
  <1>1. PICK route : Routes(w, route) BY <1>a
  <1> DEFINE e == [type |-> "task-routed", task |-> w.id, provider |-> route.provider,
                   gate |-> route.gate, agent |-> route.agent]
             x == [stage |-> "executing", id |-> w.id, task |-> w.task,
                   predictions |-> w.predictions, route |-> route,
                   results |-> <<>>, forecast |-> <<>>, scored |-> 0,
                   settled |-> 0, traced |-> FALSE]
             next == IF route.approved THEN x ELSE Idle
  <1>2. Appends(d, e, next) BY <1>1
  <1>3. IsPredicting(w) BY <1>1, InHandIs, StageOf DEF IsWork, Sound
  <1>4. IsExecuting(x) /\ x.id = w.id /\ x.predictions = w.predictions /\ x.stage = "executing"
    <2>1. w.id \in Nat /\ w.predictions \in Seq(Submission) BY <1>3 DEF IsPredicting
    <2>2. <<>> \in Seq({}) OBVIOUS
    <2>3. \E S : x.results \in Seq(S) BY <2>2
    <2> QED BY <2>1, <2>3 DEF IsExecuting
  <1>5. e.type = "task-routed" /\ e.task = w.id OBVIOUS
  <1>6. next \in {Idle, x} OBVIOUS
  <1> HIDE DEF e, x, next
  <1>7. ~Behind(e, w) BY <1>1, <1>5 DEF Behind
  <1>8. Behind(e, x) BY <1>4, <1>5 DEF Behind
  <1>9. ASSUME NEW y, Behind(y, w) PROVE Behind(y, x)
    BY <1>1, <1>4, <1>9 DEF Behind
  <1>10. Advances(w, e, next) BY <1>4, <1>5, <1>6, <1>7, <1>8, <1>9 DEF Advances, IsWork
  <1>11. Audited(events, e) BY <1>5 DEF Audited
  <1> QED BY <1>1, <1>2, <1>10, <1>11, AppendStep

LEMMA ExecuteBatchStep ==
  ASSUME Sound, NEW d \in Process, ExecuteBatch(d)
  PROVE  Sound'
  <1> DEFINE w == work[d]
  <1>1. work[d].stage = "executing" /\ taken' = taken BY DEF ExecuteBatch
  <1>2. /\ w \in InHand(d) /\ IsExecuting(w) /\ Larger(taken, w.id) = taken
    BY <1>1, ExecutesInHand DEF Sound
  <1> DEFINE Ends(type, result, tokens) ==
          Appends(d, [type |-> type, task |-> w.id, provider |-> ProviderOf(w),
                      batchIndex |-> Len(w.results), actualTokens |-> tokens, day |-> day],
                  OnceFinished([w EXCEPT !.results = Append(@, result)]))
  <1>a. PICK type \in {"task-completed", "task-failed"} :
          \E result, tokens : Ends(type, result, tokens)
    BY DEF ExecuteBatch
  <1>3. PICK result, tokens : Ends(type, result, tokens) BY <1>a
  <1> DEFINE e == [type |-> type, task |-> w.id, provider |-> ProviderOf(w),
                   batchIndex |-> Len(w.results), actualTokens |-> tokens, day |-> day]
             x == [w EXCEPT !.results = Append(w.results, result)]
  <1>4. Appends(d, e, OnceFinished(x)) BY <1>3
  <1>5. PICK S : w.results \in Seq(S) BY <1>2 DEF IsExecuting
  <1>6. PICK results : results = Append(w.results, result) OBVIOUS
  <1>7. /\ results \in Seq(S \cup {result})
        /\ Len(results) = Len(w.results) + 1 /\ Len(w.results) \in Nat
    BY <1>5, <1>6
  <1>8. /\ IsExecuting(x) /\ x.id = w.id /\ x.predictions = w.predictions
        /\ x.results = results /\ x.stage = "executing"
        /\ x.scored = w.scored /\ x.settled = w.settled /\ x.traced = w.traced
    <2>1. x = [w EXCEPT !.results = results] BY <1>6
    <2>2. \E T : results \in Seq(T) BY <1>7
    <2>3. IsExecuting(w) BY <1>2
    <2> HIDE DEF x, w
    <2>4. x = [stage |-> "executing", id |-> w.id, task |-> w.task,
               predictions |-> w.predictions, route |-> w.route, results |-> results,
               forecast |-> w.forecast, scored |-> w.scored, settled |-> w.settled,
               traced |-> w.traced]
      BY <2>1, <2>3, WithResults
    <2>5. /\ w.id \in Nat /\ w.predictions \in Seq(Submission)
          /\ w.scored \in Nat /\ w.settled \in Nat
      BY <2>3, Zenon DEF IsExecuting
    <2> QED BY <2>2, <2>4, <2>5 DEF IsExecuting
  <1>9. e.task = w.id /\ IsUsage(e) /\ e.batchIndex = Len(w.results)
    BY <1>3 DEF IsUsage
  <1>10. e.type \in {"task-completed", "task-failed"} BY <1>3
  <1>11. w.scored \in Nat /\ w.settled \in Nat BY <1>2 DEF IsExecuting
  <1> HIDE DEF e, x, w
  <1>12. ~Behind(e, w) BY <1>7, <1>9, <1>10 DEF Behind
  <1>13. Behind(e, x) BY <1>7, <1>8, <1>9 DEF Behind
  <1>14. Advances(w, e, OnceFinished(x))
    BY <1>2, <1>7, <1>8, <1>9, <1>11, <1>12, <1>13, Further
  <1>15. Audited(events, e) BY <1>10 DEF Audited
  <1> QED BY <1>1, <1>2, <1>4, <1>14, <1>15, AppendStep

LEMMA PredictQualityStep ==
  ASSUME Sound, NEW d \in Process, PredictQuality(d)
  PROVE  Sound'
  <1>1. work[d].stage = "executing" /\ UNCHANGED <<file, acked, cut, taken>>
    BY DEF PredictQuality
  <1>2. PICK forecast : work' = [work EXCEPT ![d].forecast = forecast]
    BY DEF PredictQuality
  <1> DEFINE w == work[d]
             x == [w EXCEPT !.forecast = forecast]
  <1>3. IsExecuting(w) /\ w # Idle BY <1>1, ExecutesInHand DEF Sound
  <1>4. work' = [work EXCEPT ![d] = x] BY <1>2
  <1>5. /\ IsExecuting(x) /\ x.id = w.id /\ x.predictions = w.predictions /\ x.stage = w.stage
        /\ x.results = w.results /\ x.scored = w.scored /\ x.settled = w.settled
        /\ x.traced = w.traced
    BY <1>3 DEF IsExecuting
  <1> HIDE DEF x
  <1>6. \A y : Behind(y, w) => Behind(y, x) BY <1>5 DEF Behind
  <1> QED BY <1>1, <1>3, <1>4, <1>5, <1>6, SilentStep DEF IsWork

LEMMA ScoreBatchStep ==
  ASSUME Sound, NEW d \in Process, ScoreBatch(d)
  PROVE  Sound'
  <1> DEFINE w == work[d]
             i == CHOOSE j \in Unscored(w) : \A k \in Unscored(w) : j <= k
             e == [type |-> "batch-quality-scored", task |-> w.id, batchIndex |-> i - 1,
                   provider |-> ProviderOf(w), workload |-> w.task.workload,
                   score |-> combinedScore(w, i),
                   ratio |-> ContextRatio(ProviderOf(w), Size(w, i))]
             x == [w EXCEPT !.scored = i]
  <1>1. /\ work[d].stage = "executing" /\ Unscored(w) # {} /\ taken' = taken
        /\ Appends(d, e, OnceFinished(x))
    BY DEF ScoreBatch
  <1>2. /\ w \in InHand(d) /\ IsExecuting(w) /\ Larger(taken, w.id) = taken
    BY <1>1, ExecutesInHand DEF Sound
  <1>3. i \in Unscored(w)
    <2>1. PICK S : w.results \in Seq(S) BY <1>2 DEF IsExecuting
    <2>2. DOMAIN w.results \subseteq Nat BY <2>1
    <2>3. Unscored(w) \in SUBSET Nat BY <2>2 DEF Unscored
    <2> QED BY <1>1, <2>3, LeastNatural
  <1>4. i \in Nat /\ i > w.scored /\ w.scored \in Nat /\ w.settled \in Nat
        /\ Len(w.results) \in Nat
    <2>1. PICK S : w.results \in Seq(S) BY <1>2 DEF IsExecuting
    <2>2. DOMAIN w.results \subseteq Nat /\ Len(w.results) \in Nat BY <2>1
    <2>3. w.scored \in Nat /\ w.settled \in Nat BY <1>2 DEF IsExecuting
    <2> HIDE DEF i
    <2> QED BY <1>3, <2>2, <2>3 DEF Unscored
  <1>5. e.type = "batch-quality-scored" /\ e.task = w.id /\ e.batchIndex = i - 1 OBVIOUS
  <1> HIDE DEF i, e, w
  <1>6. /\ IsExecuting(x) /\ x.id = w.id /\ x.predictions = w.predictions
        /\ x.results = w.results /\ x.stage = "executing"
        /\ x.scored = i /\ x.settled = w.settled /\ x.traced = w.traced
    BY <1>2, <1>4 DEF IsExecuting
  <1> HIDE DEF x
  <1>7. i - 1 \in 0..(i - 1) /\ i - 1 \notin 0..(w.scored - 1) BY <1>4
  <1>8. ~Behind(e, w) BY <1>5, <1>7 DEF Behind, IsUsage
  <1>9. Behind(e, x) BY <1>5, <1>6, <1>7 DEF Behind
  <1>10. Advances(w, e, OnceFinished(x)) BY <1>2, <1>4, <1>5, <1>6, <1>8, <1>9, Further
  <1>11. Audited(events, e) BY <1>5 DEF Audited
  <1> QED BY <1>1, <1>2, <1>10, <1>11, AppendStep

LEMMA RecordTraceStep ==
  ASSUME Sound, NEW d \in Process, RecordTrace(d)
  PROVE  Sound'
  <1> DEFINE w == work[d]
             x == [w EXCEPT !.traced = TRUE]
  <1>1. work[d].stage = "executing" /\ ~w.traced /\ taken' = taken BY DEF RecordTrace
  <1>2. PICK accuracy :
          Appends(d, [type |-> "execution-trace-recorded", task |-> w.id,
                      accuracy |-> accuracy], OnceFinished(x))
    BY DEF RecordTrace
  <1> DEFINE e == [type |-> "execution-trace-recorded", task |-> w.id, accuracy |-> accuracy]
  <1>3. Appends(d, e, OnceFinished(x)) BY <1>2
  <1>4. /\ w \in InHand(d) /\ IsExecuting(w) /\ Larger(taken, w.id) = taken
    BY <1>1, ExecutesInHand DEF Sound
  <1>5. e.type = "execution-trace-recorded" /\ e.task = w.id OBVIOUS
  <1> HIDE DEF e, w
  <1>6. /\ IsExecuting(x) /\ x.id = w.id /\ x.predictions = w.predictions
        /\ x.results = w.results /\ x.stage = "executing"
        /\ x.scored = w.scored /\ x.settled = w.settled /\ x.traced = TRUE
    <2>1. PICK yes : yes = TRUE OBVIOUS
    <2>2. x = [w EXCEPT !.traced = yes] BY <2>1
    <2> HIDE DEF x
    <2>3. x = [stage |-> "executing", id |-> w.id, task |-> w.task,
               predictions |-> w.predictions, route |-> w.route, results |-> w.results,
               forecast |-> w.forecast, scored |-> w.scored, settled |-> w.settled,
               traced |-> yes]
      BY <1>4, <2>2 DEF IsExecuting
    <2>4. /\ w.id \in Nat /\ w.predictions \in Seq(Submission)
          /\ w.scored \in Nat /\ w.settled \in Nat /\ \E S : w.results \in Seq(S)
      BY <1>4 DEF IsExecuting
    <2> QED BY <2>1, <2>3, <2>4 DEF IsExecuting
  <1>7. Len(w.results) \in Nat /\ w.scored \in Nat /\ w.settled \in Nat
    <2>1. PICK S : w.results \in Seq(S) BY <1>4 DEF IsExecuting
    <2>2. Len(w.results) \in Nat BY <2>1
    <2> QED BY <1>4, <2>2 DEF IsExecuting
  <1> HIDE DEF x
  <1>8. ~Behind(e, w) BY <1>1, <1>5 DEF Behind, IsUsage, w
  <1>9. Behind(e, x) BY <1>5, <1>6 DEF Behind
  <1>10. Advances(w, e, OnceFinished(x)) BY <1>4, <1>5, <1>6, <1>7, <1>8, <1>9, Further
  <1>11. Audited(events, e) BY <1>5 DEF Audited
  <1> QED BY <1>1, <1>3, <1>4, <1>10, <1>11, AppendStep DEF w

(* The prediction recordOutcome finds is one a reader sees.                 *)
LEMMA RecordedIs ==
  ASSUME NEW S, events \in Seq(S), NEW w, NEW n, NEW p \in recorded(w, n)
  PROVE  \E j \in DOMAIN events : /\ p = events[j]
                                  /\ p.type = "prediction-recorded"
                                  /\ p.task = w.id /\ p.predictionId = n
  <1> DEFINE Match == {i \in 1..Len(events) : /\ events[i].type = "prediction-recorded"
                                              /\ events[i].task = w.id
                                              /\ events[i].predictionId = n}
             first == IF Match # {} THEN Min(Match) ELSE 0
  <1>1. recorded(w, n) = IF first = 0 THEN {} ELSE {events[first]}
    BY DEF recorded, SelectInSeq
  <1>2. Match \in SUBSET Nat /\ 0 \notin Match OBVIOUS
  <1>3. \A i \in Match : /\ i \in DOMAIN events
                         /\ events[i].type = "prediction-recorded"
                         /\ events[i].task = w.id /\ events[i].predictionId = n
    OBVIOUS
  <1> HIDE DEF Match
  <1>4. first # 0 /\ p = events[first] BY <1>1
  <1>5. Match # {} BY <1>4
  <1>6. first \in Match
    <2>1. \E k \in Match : \A m \in Match : k <= m BY <1>2, <1>5, LeastNatural
    <2> QED BY <1>5, <2>1 DEF Min
  <1> HIDE DEF first
  <1> QED BY <1>3, <1>4, <1>6

LEMMA RecordOutcomeStep ==
  ASSUME Sound, NEW d \in Process, RecordOutcome(d)
  PROVE  Sound'
  <1> DEFINE w == work[d]
             n == w.settled + 1
             x == [w EXCEPT !.settled = n]
  <1>1. work[d].stage = "executing" /\ w.settled < Len(w.predictions) /\ taken' = taken
    BY DEF RecordOutcome
  <1>2. /\ w \in InHand(d) /\ IsExecuting(w) /\ Larger(taken, w.id) = taken /\ w # Idle
    BY <1>1, ExecutesInHand DEF Sound
  <1>3. CASE work' = [work EXCEPT ![d] = Idle] /\ UNCHANGED <<file, acked, cut>>
    BY <1>1, <1>3, SilentStep
  <1>4. CASE ~(work' = [work EXCEPT ![d] = Idle] /\ UNCHANGED <<file, acked, cut>>)
    <2> DEFINE Settles(prediction, actual, accuracy) ==
            Appends(d, [type |-> "reputation-updated", task |-> w.id, predictionId |-> n,
                        agent |-> w.predictions[n].agent,
                        predictedTokens |-> prediction.predictedTokens,
                        actualTokens |-> actual, day |-> day, accuracy |-> accuracy],
                    OnceFinished(x))
    <2>a. PICK prediction \in recorded(w, n) :
            \E actual, accuracy : Settles(prediction, actual, accuracy)
      BY <1>4 DEF RecordOutcome
    <2>1. PICK actual, accuracy : Settles(prediction, actual, accuracy) BY <2>a
    <2> DEFINE e == [type |-> "reputation-updated", task |-> w.id, predictionId |-> n,
                     agent |-> w.predictions[n].agent,
                     predictedTokens |-> prediction.predictedTokens,
                     actualTokens |-> actual, day |-> day, accuracy |-> accuracy]
    <2>2. Appends(d, e, OnceFinished(x)) BY <2>1
    <2>3. /\ e.type = "reputation-updated" /\ e.task = w.id /\ e.predictionId = n
          /\ e.agent = w.predictions[n].agent
          /\ e.predictedTokens = prediction.predictedTokens
      OBVIOUS
    <2> HIDE DEF e
    <2>4. Audited(events, e)
      <3>1. events \in Seq(Written) BY ReadEventsIs DEF Sound, LedgerInv, events
      <3>2. PICK j \in DOMAIN events : /\ prediction = events[j]
                                       /\ prediction.type = "prediction-recorded"
                                       /\ prediction.task = w.id
                                       /\ prediction.predictionId = n
        BY <3>1, RecordedIs
      <3>3. prediction \in Written BY <3>1, <3>2
      <3>4. Behind(prediction, w) BY <1>2, <3>2, <3>3 DEF Sound, FreshInv
      <3>5. prediction.agent = w.predictions[n].agent
        BY <3>2, <3>4 DEF Behind, IsUsage
      <3> QED BY <2>3, <3>2, <3>5 DEF Audited
    <2> HIDE DEF w
    <2>5. w.settled \in Nat /\ w.scored \in Nat /\ Len(w.results) \in Nat
      <3>1. PICK S : w.results \in Seq(S) BY <1>2 DEF IsExecuting
      <3>2. Len(w.results) \in Nat BY <3>1
      <3> QED BY <1>2, <3>2 DEF IsExecuting
    <2>6. n \in Nat /\ n \in 1..n /\ n \notin 1..w.settled /\ w.settled <= n BY <2>5
    <2> HIDE DEF n
    <2>7. /\ IsExecuting(x) /\ x.id = w.id /\ x.predictions = w.predictions
          /\ x.results = w.results /\ x.stage = "executing"
          /\ x.scored = w.scored /\ x.settled = n /\ x.traced = w.traced
      <3>1. x = [stage |-> "executing", id |-> w.id, task |-> w.task,
                 predictions |-> w.predictions, route |-> w.route, results |-> w.results,
                 forecast |-> w.forecast, scored |-> w.scored, settled |-> n,
                 traced |-> w.traced]
        BY <1>2, WithSettled
      <3>2. /\ w.id \in Nat /\ w.predictions \in Seq(Submission) /\ w.scored \in Nat
            /\ \E S : w.results \in Seq(S)
        BY <1>2, Zenon DEF IsExecuting
      <3> QED BY <2>6, <3>1, <3>2 DEF IsExecuting
    <2> HIDE DEF x
    <2>8. ~Behind(e, w) BY <2>3, <2>6 DEF Behind, IsUsage
    <2>9. Behind(e, x) BY <2>3, <2>6, <2>7 DEF Behind
    <2>10. Advances(w, e, OnceFinished(x)) BY <1>2, <2>3, <2>5, <2>6, <2>7, <2>8, <2>9, Further
    <2> QED BY <1>1, <1>2, <2>2, <2>4, <2>10, AppendStep DEF w
  <1> QED BY <1>3, <1>4

-----------------------------------------------------------------------------
(* The ledgers of before.                                                   *)

(* A file of whole lines reads as the events on them.                       *)
LEMMA WholeFileReads ==
  ASSUME NEW S, NEW s \in Seq(S), NEW f,
         f = [lines |-> [i \in DOMAIN s |-> LineOf(s[i])], tail |-> {}]
  PROVE  f \in FilesOf(S) /\ readEvents(f) = s /\ TornLines(f) = {}
  <1> DEFINE n == Len(s)
             lines == [i \in DOMAIN s |-> LineOf(s[i])]
  <1>1. n \in Nat /\ DOMAIN s = 1..n /\ \A i \in 1..n : s[i] \in S OBVIOUS
  <1>2. \A i \in 1..n : lines[i] = <<s[i]>> /\ lines[i] \in LinesOf(S)
    BY <1>1 DEF LineOf, LinesOf
  <1>3. lines = [i \in 1..n |-> lines[i]] BY <1>1
  <1>4. f.lines = lines /\ f.tail = {} /\ f = [lines |-> lines, tail |-> {}] OBVIOUS
  <1> HIDE DEF lines
  <1>5. lines \in Seq(LinesOf(S)) /\ Len(lines) = n BY <1>1, <1>2, <1>3
  <1>6. f \in FilesOf(S) BY <1>4, <1>5 DEF FilesOf
  <1>7. TornLines(f) = {}
    <2>1. ASSUME NEW i \in DOMAIN lines PROVE lines[i] # <<>>
      <3>1. lines[i] = <<s[i]>> BY <1>2, <1>3
      <3>2. <<s[i]>> # <<>> OBVIOUS
      <3> QED BY <3>1, <3>2
    <2> QED BY <1>4, <2>1 DEF TornLines, Malformed
  <1>8. readEvents(f) = FlattenSeq(lines) BY <1>4, <1>6, ReadEventsIs
  <1>9. FlattenSeq(lines) = s
    <2>1. CASE n = 0
      <3>1. lines = <<>> /\ s = <<>> BY <1>1, <1>5, <2>1
      <3> QED BY <3>1, FlattenEmpty
    <2>2. CASE n # 0
      <3> DEFINE g == [i \in 1..n |-> SubSeq(s, 1, i)]
      <3>1. g \in [1..n -> Seq(S)]
        <4>1. ASSUME NEW i \in 1..n PROVE SubSeq(s, 1, i) \in Seq(S) BY <1>1
        <4> QED BY <4>1
      <3>2. ASSUME NEW i \in 1..n
            PROVE  g[i] = IF i = 1 THEN lines[i] ELSE g[i - 1] \o lines[i]
        <4>1. CASE i = 1
          <5>1. SubSeq(s, 1, 1) = <<s[1]>>
            <6>1. /\ SubSeq(s, 1, 1) \in Seq(S) /\ Len(SubSeq(s, 1, 1)) = 1
                  /\ SubSeq(s, 1, 1)[1] = s[1]
              BY <1>1, <4>1
            <6>2. PICK t \in Seq(S) : t = SubSeq(s, 1, 1) /\ Len(t) = 1 /\ t[1] = s[1]
              BY <6>1
            <6>3. t = [j \in 1..1 |-> t[j]] BY <6>2
            <6>4. PICK u : u = <<t[1]>> OBVIOUS
            <6>5. u = [j \in 1..1 |-> u[j]] /\ u[1] = t[1] BY <6>4
            <6>6. t = u BY <6>3, <6>5
            <6> QED BY <6>2, <6>4, <6>6
          <5> QED BY <1>2, <4>1, <5>1
        <4>2. CASE i # 1
          <5>1. i - 1 \in 1..n BY <1>1, <4>2
          <5>2. SubSeq(s, 1, i) = SubSeq(s, 1, i - 1) \o <<s[i]>> BY <1>1, <5>1
          <5> QED BY <1>2, <4>2, <5>1, <5>2
        <4> QED BY <4>1, <4>2
      <3>3. g[n] = s
        <4>1. SubSeq(s, 1, n) = s BY <1>1
        <4> QED BY <1>1, <2>2, <4>1
      <3> HIDE DEF g
      <3>4. Flattens(g, lines, Len(lines)) BY <1>5, <3>2 DEF Flattens
      <3>5. lines # <<>> BY <1>1, <1>5, <2>2
      <3>6. lines \in Seq(Seq(S)) BY <1>5, LinesAreSequences
      <3> QED BY <1>5, <3>1, <3>3, <3>4, <3>5, <3>6, FlattenIs
    <2> QED BY <2>1, <2>2
  <1> QED BY <1>6, <1>7, <1>8, <1>9

LEMMA InitiallySound ==
  ASSUME Init
  PROVE  Sound
  <1>1. /\ acked \in Past /\ cut = {} /\ work = [d \in Process |-> Idle] /\ taken = 0
        /\ file = [EmptyFile EXCEPT !.lines = [i \in DOMAIN acked |-> LineOf(acked[i])]]
    BY DEF Init
  <1>2. /\ acked \in Seq(ToSet(acked)) /\ IsInjective(acked)
        /\ \A i \in DOMAIN acked : acked[i].task = 0
        /\ OutcomesFollow(acked)
    BY <1>1, PastAssumption
  <1>3. Written = ToSet(acked) BY <1>1 DEF Written
  <1>4. file = [lines |-> [i \in DOMAIN acked |-> LineOf(acked[i])], tail |-> {}]
    BY <1>1 DEF EmptyFile
  <1>5. file \in FilesOf(Written) /\ readEvents(file) = acked /\ TornLines(file) = {}
    BY <1>2, <1>3, <1>4, WholeFileReads
  <1>6. file.tail = {} BY <1>4
  <1>7. WorkInv BY <1>1 DEF WorkInv
  <1>8. FreshInv
    <2>1. \A e \in Written : e.task = 0 BY <1>2, <1>3 DEF ToSet
    <2> QED BY <1>1, <2>1 DEF FreshInv
  <1>9. LedgerInv
    <2>1. IsFiniteSet(cut) BY <1>1, FS_EmptySet
    <2> QED BY <1>1, <1>2, <1>3, <1>5, <1>6, <2>1 DEF LedgerInv
  <1>10. LossInv
    <2>1. Lost = {} BY <1>5 DEF Lost, Readable, events
    <2> QED BY <1>1, <1>5, <1>6, <2>1, FS_EmptySet DEF LossInv
  <1>11. ReadersSeeAppendOrder
    BY <1>2, <1>5 DEF ReadersSeeAppendOrder, events, IsInjective
  <1>12. OutcomesFollowTheirPredictions
    BY <1>2, <1>5 DEF OutcomesFollowTheirPredictions, events
  <1> QED BY <1>7, <1>8, <1>9, <1>10, <1>11, <1>12 DEF Sound

LEMMA StepSound ==
  ASSUME Sound, [Next]_vars
  PROVE  Sound'
  <1>1. CASE UNCHANGED vars BY <1>1, SilentStep DEF vars
  <1>2. ASSUME NEW d \in Process, RecordPrediction(d) PROVE Sound'
    BY <1>2, RecordPredictionStep
  <1>3. ASSUME NEW d \in Process, Route(d) PROVE Sound' BY <1>3, RouteStep
  <1>4. ASSUME NEW d \in Process, ExecuteBatch(d) PROVE Sound' BY <1>4, ExecuteBatchStep
  <1>5. ASSUME NEW d \in Process, PredictQuality(d) PROVE Sound' BY <1>5, PredictQualityStep
  <1>6. ASSUME NEW d \in Process, ScoreBatch(d) PROVE Sound' BY <1>6, ScoreBatchStep
  <1>7. ASSUME NEW d \in Process, RecordTrace(d) PROVE Sound' BY <1>7, RecordTraceStep
  <1>8. ASSUME NEW d \in Process, RecordOutcome(d) PROVE Sound' BY <1>8, RecordOutcomeStep
  <1>9. CASE NewDay BY <1>9, SilentStep DEF NewDay
  <1> QED BY <1>1, <1>2, <1>3, <1>4, <1>5, <1>6, <1>7, <1>8, <1>9 DEF Next

LEMMA AlwaysSound == Spec => []Sound
  <1>1. Init => Sound BY InitiallySound
  <1>2. Sound /\ [Next]_vars => Sound' BY StepSound
  <1> QED BY <1>1, <1>2, PTL DEF Spec

-----------------------------------------------------------------------------
(* Fractions.                                                               *)

(* Products keep and reflect the order of what they multiply.               *)
LEMMA Scaling ==
  ASSUME NEW x \in Int, NEW y \in Int, NEW d \in Nat \ {0}
  PROVE  x * d <= y * d <=> x <= y
  <1>1. x <= y => x * d <= y * d
    <2>1. SUFFICES ASSUME x <= y PROVE x * d <= y * d OBVIOUS
    <2>2. (y - x) * d >= 0 BY <2>1
    <2>3. (y - x) * d = y * d - x * d OBVIOUS
    <2>4. x * d \in Int /\ y * d \in Int OBVIOUS
    <2> QED BY <2>2, <2>3, <2>4
  <1>2. y < x => y * d < x * d
    <2>1. SUFFICES ASSUME y < x PROVE y * d < x * d OBVIOUS
    <2>2. (x - y) * d > 0 BY <2>1
    <2>3. (x - y) * d = x * d - y * d OBVIOUS
    <2>4. x * d \in Int /\ y * d \in Int OBVIOUS
    <2> QED BY <2>2, <2>3, <2>4
  <1>3. x * d \in Int /\ y * d \in Int OBVIOUS
  <1> QED BY <1>1, <1>2, <1>3

(* What does not exceed a middle that does not exceed a third, does not     *)
(* exceed the third.                                                        *)
LEMMA NotExceeding ==
  ASSUME NEW a \in Fractions, NEW b \in Fractions, NEW c \in Fractions,
         ~Exceeds(a, b), ~Exceeds(b, c)
  PROVE  ~Exceeds(a, c)
  <1> DEFINE an == a.num
             ad == a.den
             bn == b.num
             bd == b.den
             cn == c.num
             cd == c.den
  <1>1. /\ an \in Int /\ bn \in Int /\ cn \in Int
        /\ ad \in Nat \ {0} /\ bd \in Nat \ {0} /\ cd \in Nat \ {0}
    BY DEF Fractions
  <1>2. an * bd <= bn * ad /\ bn * cd <= cn * bd
    <2>1. ~(an * bd > bn * ad) /\ ~(bn * cd > cn * bd) BY DEF Exceeds
    <2>2. an * bd \in Int /\ bn * ad \in Int /\ bn * cd \in Int /\ cn * bd \in Int BY <1>1
    <2> HIDE DEF an, ad, bn, bd, cn, cd
    <2> QED BY <2>1, <2>2
  <1>3. SUFFICES an * cd <= cn * ad
    <2>1. an * cd \in Int /\ cn * ad \in Int BY <1>1
    <2>2. ASSUME an * cd <= cn * ad PROVE ~(an * cd > cn * ad)
      <3> HIDE DEF an, ad, bn, bd, cn, cd
      <3> QED BY <2>1, <2>2
    <2> QED BY <2>2 DEF Exceeds
  <1> HIDE DEF an, ad, bn, bd, cn, cd
  <1>4. (an * bd) * cd <= (bn * ad) * cd
    <2>1. an * bd \in Int /\ bn * ad \in Int BY <1>1
    <2> QED BY <1>1, <1>2, <2>1, Scaling
  <1>5. (bn * cd) * ad <= (cn * bd) * ad
    <2>1. bn * cd \in Int /\ cn * bd \in Int BY <1>1
    <2> QED BY <1>1, <1>2, <2>1, Scaling
  <1>6. /\ (an * bd) * cd = (an * cd) * bd /\ (bn * ad) * cd = (bn * cd) * ad
        /\ (cn * bd) * ad = (cn * ad) * bd
    BY <1>1
  <1>7. (an * cd) * bd <= (cn * ad) * bd
    <2>1. (an * cd) * bd \in Int /\ (bn * cd) * ad \in Int /\ (cn * ad) * bd \in Int BY <1>1
    <2> QED BY <1>4, <1>5, <1>6, <2>1
  <1>8. an * cd \in Int /\ cn * ad \in Int BY <1>1
  <1> QED BY <1>1, <1>7, <1>8, Scaling

LEMMA NotBoth ==
  ASSUME NEW a \in Fractions, NEW b \in Fractions
  PROVE  ~(Exceeds(a, b) /\ Exceeds(b, a))
  <1>1. a.num * b.den \in Int /\ b.num * a.den \in Int BY DEF Fractions
  <1>2. ASSUME NEW x \in Int, NEW y \in Int PROVE ~(x > y /\ y > x) OBVIOUS
  <1> QED BY <1>1, <1>2 DEF Exceeds

-----------------------------------------------------------------------------
(* Rankings.                                                                *)

(* By quality, and among equals by cost.                                    *)
Preferred(q, c, j, i) ==
  Exceeds(q[j], q[i]) \/ (~Exceeds(q[i], q[j]) /\ c[j] < c[i])

LEMMA PreferenceByKeys ==
  ASSUME NEW D, NEW q \in [D -> Fractions], NEW c \in [D -> Int]
  PROVE  IsPreference({x \in D \X D : Preferred(q, c, x[1], x[2])}, D)
  <1> DEFINE B == {x \in D \X D : Preferred(q, c, x[1], x[2])}
  <1>1. ASSUME NEW i \in D, NEW j \in D PROVE <<i, j>> \in B <=> Preferred(q, c, i, j)
    OBVIOUS
  <1> HIDE DEF B
  <1>2. \A i, j \in D : ~(Exceeds(q[i], q[j]) /\ Exceeds(q[j], q[i]))
    BY NotBoth
  <1>3. \A i, j, k \in D : ~Exceeds(q[i], q[j]) /\ ~Exceeds(q[j], q[k]) => ~Exceeds(q[i], q[k])
    BY NotExceeding
  <1>4. ASSUME NEW i \in D, NEW j \in D, Preferred(q, c, i, j) PROVE ~Preferred(q, c, j, i)
    <2>1. c[i] \in Int /\ c[j] \in Int OBVIOUS
    <2> QED BY <1>2, <1>4, <2>1 DEF Preferred
  <1>5. ASSUME NEW i \in D, NEW j \in D, NEW k \in D, Preferred(q, c, i, k)
        PROVE  Preferred(q, c, i, j) \/ Preferred(q, c, j, k)
    <2>1. c[i] \in Int /\ c[j] \in Int /\ c[k] \in Int OBVIOUS
    <2>2. CASE Exceeds(q[i], q[k])
      <3>1. Exceeds(q[i], q[j]) \/ Exceeds(q[j], q[k]) BY <1>3, <2>2
      <3> QED BY <3>1 DEF Preferred
    <2>3. CASE ~Exceeds(q[k], q[i]) /\ c[i] < c[k]
      <3>1. SUFFICES ASSUME ~Exceeds(q[i], q[j]), ~Exceeds(q[j], q[k])
            PROVE  Preferred(q, c, i, j) \/ Preferred(q, c, j, k)
        BY DEF Preferred
      <3>2. ~Exceeds(q[k], q[j]) /\ ~Exceeds(q[j], q[i])
        BY <1>3, <2>3, <3>1
      <3>3. c[i] < c[j] \/ c[j] < c[k] BY <2>1, <2>3
      <3> QED BY <3>2, <3>3 DEF Preferred
    <2> QED BY <1>5, <2>2, <2>3 DEF Preferred
  <1> QED BY <1>1, <1>4, <1>5 DEF IsPreference, B

(* So many of the members of D precede i in the ranking by q and c.         *)
Ahead(q, c, D, i) ==
  {j \in D : Preferred(q, c, j, i) \/ (~Preferred(q, c, i, j) /\ j < i)}

LEMMA PlacesByKeys ==
  ASSUME NEW D \in SUBSET Int, NEW q \in [D -> Fractions], NEW c \in [D -> Int], IsFiniteSet(D)
  PROVE  \A k \in 1..Cardinality(D) : \E i \in D : Cardinality(Ahead(q, c, D, i)) + 1 = k
  <1> DEFINE B == {x \in D \X D : Preferred(q, c, x[1], x[2])}
  <1>1. \A i, j \in D : <<i, j>> \in B <=> Preferred(q, c, i, j) OBVIOUS
  <1>2. IsPreference(B, D) BY PreferenceByKeys
  <1> HIDE DEF B
  <1>3. ASSUME NEW i \in D PROVE InFront(B, D, i) = Ahead(q, c, D, i)
    BY <1>1 DEF InFront, Ahead
  <1>4. \A k \in 1..Cardinality(D) : \E i \in D : Cardinality(InFront(B, D, i)) + 1 = k
    BY <1>2, PlacesAreTaken
  <1> QED BY <1>3, <1>4

-----------------------------------------------------------------------------
(* Whom a ranking puts first.                                               *)

(* r lists what s has at places a of D, and starts with one of them.        *)
ListsAt(r, s, a, D) ==
  /\ r = [k \in 1..Cardinality(D) |-> s[a[k]]]
  /\ \A k \in 1..Cardinality(D) : a[k] \in D

StartsIn(r, s, D) == r # <<>> /\ \E i \in D : Head(r) = s[i]

LEMMA ListedByPlace ==
  ASSUME NEW D, NEW s, NEW a, NEW r, IsFiniteSet(D), ListsAt(r, s, a, D)
  PROVE  IF D = {} THEN r = <<>> ELSE StartsIn(r, s, D)
  <1> DEFINE n == Cardinality(D)
             S == {s[i] : i \in D}
  <1>1. n \in Nat BY FS_CardinalityType
  <1>2. D = {} => n = 0 BY FS_EmptySet
  <1>3. D # {} => n # 0 BY FS_EmptySet
  <1>4. \A k \in 1..n : r[k] = s[a[k]] /\ a[k] \in D /\ r[k] \in S BY DEF ListsAt
  <1>5. r = [k \in 1..n |-> r[k]] BY DEF ListsAt
  <1>6. n # 0 => r[1] = s[a[1]] /\ a[1] \in D BY <1>1, <1>4
  <1> HIDE DEF n, S
  <1>7. r \in Seq(S) /\ Len(r) = n BY <1>1, <1>4, <1>5
  <1>8. n = 0 => r = <<>> BY <1>7
  <1>9. n # 0 => r # <<>> /\ Head(r) = r[1] BY <1>1, <1>7
  <1> QED BY <1>2, <1>3, <1>6, <1>8, <1>9 DEF StartsIn

(* The profiles.                                                            *)
LEMMA ProfileIs ==
  ASSUME NEW p \in Provider
  PROVE  /\ Profile[p].tokensPerItem \in Nat \ {0} /\ Profile[p].maxBatchSize \in Nat \ {0}
         /\ \A bucket \in Bucket : Profile[p].quality[bucket] \in Fractions
         /\ \A ratio : bucketForContextRatio(ratio) \in Bucket
  BY ProfileAssumption DEF Bucket, bucketForContextRatio

LEMMA ListIs ==
  /\ ProviderList # <<>> /\ Len(ProviderList) \in Nat \ {0}
  /\ DOMAIN ProviderList = 1..Len(ProviderList) /\ IsFiniteSet(DOMAIN ProviderList)
  /\ DOMAIN ProviderList \subseteq Int /\ DOMAIN ProviderList # {}
  /\ \A i \in DOMAIN ProviderList : ProviderList[i] \in Provider
  <1>1. ProviderList # <<>> /\ ProviderList \in Seq(Provider) BY ProfileAssumption
  <1>2. Len(ProviderList) \in Nat \ {0} /\ DOMAIN ProviderList = 1..Len(ProviderList)
    BY <1>1
  <1>3. IsFiniteSet(DOMAIN ProviderList) BY <1>2, FS_Interval
  <1>4. 1 \in DOMAIN ProviderList BY <1>2
  <1> QED BY <1>1, <1>2, <1>3, <1>4

LEMMA TaskIs ==
  ASSUME NEW task \in Tasks
  PROVE  /\ task.items \in Seq(ToSet(task.items)) /\ Len(task.items) \in Nat
         /\ ItemCount(task) \in Nat \ {0} /\ Len(task.items) <= ItemCount(task)
  <1>1. task.items \in Seq(ToSet(task.items)) BY DispatchAssumptions
  <1>2. Len(task.items) \in Nat BY <1>1
  <1> QED BY <1>1, <1>2 DEF ItemCount, Larger

LEMMA SafeBatchIs ==
  ASSUME NEW p \in Provider
  PROVE  safeBatch(p) \in 1..Profile[p].maxBatchSize
  <1> DEFINE fitting == (Profile[p].contextWindow * Profile[p].safeContextPct)
                          \div (100 * Profile[p].tokensPerItem)
             max == Profile[p].maxBatchSize
  <1>1. /\ Profile[p].tokensPerItem \in Nat \ {0} /\ Profile[p].contextWindow \in Nat \ {0}
        /\ Profile[p].safeContextPct \in Nat /\ max \in Nat \ {0}
    BY ProfileAssumption
  <1>2. fitting \in Int
    <2>1. 100 * Profile[p].tokensPerItem \in Nat \ {0} BY <1>1
    <2>2. Profile[p].contextWindow * Profile[p].safeContextPct \in Nat BY <1>1
    <2> QED BY <2>1, <2>2
  <1>3. safeBatch(p) = Larger(1, Smaller(max, fitting)) BY DEF safeBatch
  <1> HIDE DEF fitting, max
  <1>4. Smaller(max, fitting) \in Int /\ Smaller(max, fitting) <= max
    BY <1>1, <1>2 DEF Smaller
  <1>5. Larger(1, Smaller(max, fitting)) \in 1..max BY <1>1, <1>4 DEF Larger
  <1> QED BY <1>3, <1>5 DEF max

LEMMA FitIs ==
  ASSUME NEW task \in Tasks, NEW p \in Provider
  PROVE  LET fit == estimateProviderFit(task, p)
         IN  /\ fit.provider = p /\ fit.batchSize \in 1..Profile[p].maxBatchSize
             /\ fit.estimatedTokens = Profile[p].tokensPerItem * ItemCount(task)
             /\ fit.estimatedTokens \in Nat /\ fit.quality \in Fractions
  <1>1. safeBatch(p) \in 1..Profile[p].maxBatchSize BY SafeBatchIs
  <1>2. ItemCount(task) \in Nat \ {0} BY TaskIs
  <1>3. Profile[p].tokensPerItem \in Nat \ {0} /\ Profile[p].maxBatchSize \in Nat \ {0}
    BY ProfileIs
  <1>4. Smaller(safeBatch(p), ItemCount(task)) \in 1..Profile[p].maxBatchSize
    BY <1>1, <1>2, <1>3 DEF Smaller
  <1>5. Profile[p].tokensPerItem * ItemCount(task) \in Nat BY <1>2, <1>3
  <1>6. Profile[p].quality[bucketForContextRatio(
          ContextRatio(p, Smaller(safeBatch(p), ItemCount(task))))] \in Fractions
    BY ProfileIs
  <1> QED BY <1>4, <1>5, <1>6 DEF estimateProviderFit

(* planBatches puts a provider of the list first.                           *)
LEMMA PlanBatchesIs ==
  ASSUME NEW task \in Tasks
  PROVE  \E p \in Provider : Head(planBatches(task)) = estimateProviderFit(task, p)
  <1> DEFINE D == DOMAIN ProviderList
             s == [i \in D |-> estimateProviderFit(task, ProviderList[i])]
             q == [i \in D |-> s[i].quality]
             c == [i \in D |-> s[i].estimatedTokens]
             InOrder(i, j) ==
               \/ \/ Exceeds(s[i].quality, s[j].quality)
                  \/ /\ ~Exceeds(s[j].quality, s[i].quality)
                     /\ s[i].estimatedTokens < s[j].estimatedTokens
               \/ /\ ~(\/ Exceeds(s[j].quality, s[i].quality)
                       \/ /\ ~Exceeds(s[i].quality, s[j].quality)
                          /\ s[j].estimatedTokens < s[i].estimatedTokens)
                  /\ i < j
             Place(i) == Cardinality({j \in DOMAIN s : InOrder(j, i)}) + 1
             a == [k \in 1..Cardinality(D) |-> CHOOSE i \in DOMAIN s : Place(i) = k]
             r == [k \in 1..Cardinality(DOMAIN s) |-> s[CHOOSE i \in DOMAIN s : Place(i) = k]]
  <1>1. planBatches(task) = r BY DEF planBatches, Ranked
  <1>2. /\ IsFiniteSet(D) /\ D \in SUBSET Int /\ D # {}
        /\ \A i \in D : ProviderList[i] \in Provider
    BY ListIs
  <1>3. ASSUME NEW i \in D
        PROVE  s[i].quality \in Fractions /\ s[i].estimatedTokens \in Int
    BY <1>2, FitIs
  <1>4. q \in [D -> Fractions] /\ c \in [D -> Int] BY <1>3
  <1>5. \A i \in D : q[i] = s[i].quality /\ c[i] = s[i].estimatedTokens OBVIOUS
  <1>6. DOMAIN s = D OBVIOUS
  <1>7. \A i \in D : s[i] = estimateProviderFit(task, ProviderList[i]) OBVIOUS
  <1> HIDE DEF s
  <1>8. r = [k \in 1..Cardinality(D) |-> s[a[k]]]
    <2> HIDE DEF Place
    <2> QED BY <1>6
  <1> HIDE DEF q, c, D, r
  <1>9. \A k \in 1..Cardinality(D) : \E i \in D : Cardinality(Ahead(q, c, D, i)) + 1 = k
    BY <1>2, <1>4, PlacesByKeys
  <1>10. ASSUME NEW i \in D PROVE Ahead(q, c, D, i) = {j \in D : InOrder(j, i)}
    BY <1>5 DEF Ahead, Preferred
  <1>11. ASSUME NEW k \in 1..Cardinality(D) PROVE a[k] \in D
    <2>1. PICK i \in D : Cardinality(Ahead(q, c, D, i)) + 1 = k BY <1>9
    <2>2. Place(i) = k BY <1>6, <1>10, <2>1
    <2> HIDE DEF Place
    <2> QED BY <1>6, <2>2
  <1> HIDE DEF a
  <1>12. ListsAt(r, s, a, D) BY <1>8, <1>11 DEF ListsAt
  <1>13. StartsIn(r, s, D) BY <1>2, <1>12, ListedByPlace
  <1> QED BY <1>1, <1>2, <1>7, <1>13 DEF StartsIn

(* An evaluated prediction.                                                 *)
IsEvaluated(p) ==
  /\ p.trust = {} \/ \E t \in Fractions : p.trust = {t}
  /\ p.provider \subseteq Provider /\ p.predictedTokens \in Nat
  /\ p.recommendedBatchSize \subseteq Nat \ {0}

(* Step 1 puts one of the trusted first.                                    *)
LEMMA TrustedIs ==
  ASSUME NEW n \in Nat, NEW evaluated, DOMAIN evaluated = 1..n,
         \A i \in 1..n : IsEvaluated(evaluated[i]),
         highReputationCandidates(evaluated) # <<>>
  PROVE  \E i \in 1..n : /\ Head(highReputationCandidates(evaluated)) = evaluated[i]
                         /\ \E trust \in evaluated[i].trust : Exceeds(trust, Over(90, 1))
                         /\ evaluated[i].provider # {}
  <1> DEFINE D == {i \in DOMAIN evaluated :
                     /\ \E trust \in evaluated[i].trust : Exceeds(trust, Over(90, 1))
                     /\ evaluated[i].provider # {}}
             s == [i \in D |-> evaluated[i]]
             q == [i \in D |-> CHOOSE t \in s[i].trust : TRUE]
             c == [i \in D |-> 0]
             InOrder(i, j) ==
               \/ \E x \in s[i].trust, y \in s[j].trust : Exceeds(x, y)
               \/ /\ ~\E x \in s[j].trust, y \in s[i].trust : Exceeds(x, y)
                  /\ i < j
             Place(i) == Cardinality({j \in DOMAIN s : InOrder(j, i)}) + 1
             a == [k \in 1..Cardinality(D) |-> CHOOSE i \in DOMAIN s : Place(i) = k]
             r == [k \in 1..Cardinality(DOMAIN s) |-> s[CHOOSE i \in DOMAIN s : Place(i) = k]]
  <1>1. highReputationCandidates(evaluated) = r
    BY DEF highReputationCandidates, Ranked, RestrictValues, Restrict
  <1>2. D \subseteq 1..n OBVIOUS
  <1>3. IsFiniteSet(D) /\ D \in SUBSET Int
    <2>1. IsFiniteSet(1..n) /\ 1..n \in SUBSET Int BY FS_Interval
    <2> HIDE DEF D
    <2> QED BY <1>2, <2>1, FS_Subset
  <1>4. \A i \in D : /\ \E trust \in evaluated[i].trust : Exceeds(trust, Over(90, 1))
                     /\ evaluated[i].provider # {}
    OBVIOUS
  <1> HIDE DEF D
  <1>5. DOMAIN s = D /\ \A i \in D : s[i] = evaluated[i] OBVIOUS
  <1> HIDE DEF s
  <1>6. ASSUME NEW i \in D PROVE q[i] \in Fractions /\ s[i].trust = {q[i]}
    <2>1. PICK t \in Fractions : s[i].trust = {t} BY <1>2, <1>4, <1>5 DEF IsEvaluated
    <2> QED BY <2>1
  <1>7. c \in [D -> Int] /\ \A i \in D : c[i] = 0 OBVIOUS
  <1>8. q = [i \in D |-> q[i]] OBVIOUS
  <1>9. r = [k \in 1..Cardinality(D) |-> s[a[k]]]
    <2> HIDE DEF Place
    <2> QED BY <1>5
  <1> HIDE DEF q, c, r
  <1>10. q \in [D -> Fractions] BY <1>6, <1>8
  <1>11. \A k \in 1..Cardinality(D) : \E i \in D : Cardinality(Ahead(q, c, D, i)) + 1 = k
    BY <1>3, <1>7, <1>10, PlacesByKeys
  <1>12. ASSUME NEW i \in D PROVE Ahead(q, c, D, i) = {j \in D : InOrder(j, i)}
    <2>1. \A j \in D : c[j] = 0 /\ c[i] = 0 /\ ~(0 < 0) BY <1>7
    <2>2. \A j \in D : s[j].trust = {q[j]} BY <1>6
    <2>3. ASSUME NEW j \in D
          PROVE  Preferred(q, c, j, i) \/ (~Preferred(q, c, i, j) /\ j < i) <=> InOrder(j, i)
      <3>1. s[j].trust = {q[j]} /\ s[i].trust = {q[i]} BY <2>2
      <3>2. /\ Preferred(q, c, j, i) <=> Exceeds(q[j], q[i])
            /\ Preferred(q, c, i, j) <=> Exceeds(q[i], q[j])
        BY <2>1 DEF Preferred
      <3>3. InOrder(j, i) <=> Exceeds(q[j], q[i]) \/ (~Exceeds(q[i], q[j]) /\ j < i)
        BY <3>1
      <3> HIDE DEF InOrder
      <3> QED BY <3>2, <3>3
    <2> QED BY <2>3 DEF Ahead
  <1>13. ASSUME NEW k \in 1..Cardinality(D) PROVE a[k] \in D
    <2>1. PICK i \in D : Cardinality(Ahead(q, c, D, i)) + 1 = k BY <1>11
    <2>2. Place(i) = k BY <1>5, <1>12, <2>1
    <2> HIDE DEF Place
    <2> QED BY <1>5, <2>2
  <1> HIDE DEF a
  <1>14. ListsAt(r, s, a, D) BY <1>9, <1>13 DEF ListsAt
  <1>15. StartsIn(r, s, D) BY <1>1, <1>3, <1>14, ListedByPlace
  <1> QED BY <1>1, <1>2, <1>4, <1>5, <1>15 DEF StartsIn

(* A finite set of natural numbers has a greatest.                          *)
LEMMA GreatestNatural ==
  ASSUME NEW D, IsFiniteSet(D), NEW f \in [D -> Nat]
  PROVE  Max({1} \cup {f[i] : i \in D}) \in Nat \ {0}
  <1> DEFINE S == {1} \cup {f[i] : i \in D}
             T == {b \in Nat : \A x \in S : x <= b}
             total == SumFunction(f)
  <1>1. f \in [D -> Int] /\ total \in Nat BY SumType
  <1>2. ASSUME NEW i \in D PROVE f[i] <= total
    <2>1. Without(f, i) \in [D \ {i} -> Int] /\ total = f[i] + SumFunction(Without(f, i))
      BY <1>1, SumSplit
    <2>2. IsFiniteSet(D \ {i}) BY FS_Subset
    <2>3. \A x \in D \ {i} : Without(f, i)[x] = f[x] BY DEF Without
    <2>4. \A x \in D \ {i} : Without(f, i)[x] \in Nat BY <2>3
    <2>5. Without(f, i) \in [D \ {i} -> Nat] BY <2>1, <2>4
    <2>6. SumFunction(Without(f, i)) \in Nat BY <2>2, <2>5, SumType
    <2>7. f[i] \in Nat OBVIOUS
    <2> HIDE DEF total
    <2> QED BY <1>1, <2>1, <2>6, <2>7
  <1> HIDE DEF total
  <1>3. total + 1 \in Nat /\ \A x \in S : x <= total + 1
    <2>1. \A i \in D : f[i] \in Nat /\ f[i] <= total BY <1>2
    <2> QED BY <1>1, <2>1
  <1>4. T \in SUBSET Nat /\ T # {} BY <1>3
  <1>5. S \subseteq Nat OBVIOUS
  <1> HIDE DEF S
  <1>6. \A b \in T : b \in Nat /\ \A x \in S : x <= b OBVIOUS
  <1>7. \A b \in Nat : (\A x \in S : x <= b) => b \in T OBVIOUS
  <1>8. 1 \in S BY DEF S
  <1> HIDE DEF T
  <1>9. PICK b \in T : \A k \in T : b <= k BY <1>4, LeastNatural
  <1>10. b \in S
    <2>1. SUFFICES ASSUME b \notin S PROVE FALSE OBVIOUS
    <2>2. b \in Nat /\ 1 <= b BY <1>6, <1>8, <1>9
    <2>3. \A x \in S : x <= b - 1
      <3>1. SUFFICES ASSUME NEW x \in S PROVE x <= b - 1 OBVIOUS
      <3>2. x \in Nat /\ x <= b /\ x # b BY <1>5, <1>6, <1>9, <2>1
      <3> QED BY <2>2, <3>2
    <2>4. b - 1 \in T BY <1>7, <2>2, <2>3
    <2> QED BY <1>9, <2>2, <2>4
  <1>11. b \in S /\ \A y \in S : b >= y
    <2>1. \A y \in S : y <= b BY <1>6, <1>9
    <2>2. b \in Nat BY <1>6
    <2> QED BY <1>5, <1>10, <2>1, <2>2
  <1> DEFINE m == Max(S)
  <1>12. m \in S /\ \A y \in S : m >= y BY <1>11 DEF Max
  <1> HIDE DEF m
  <1>13. m \in Nat /\ m # 0 BY <1>5, <1>8, <1>12
  <1> QED BY <1>13 DEF m, S

Composite(x, d, m, p) == Over(7 * x * m + 300 * (m - p) * d, 10 * d * m)

LEMMA CompositeIs ==
  ASSUME NEW x \in Int, NEW d \in Nat \ {0}, NEW m \in Nat \ {0}, NEW p \in Nat
  PROVE  Composite(x, d, m, p) \in Fractions
  <1>1. 7 * x * m \in Int OBVIOUS
  <1>2. 300 * (m - p) * d \in Int OBVIOUS
  <1>3. PICK y : y = 10 * d OBVIOUS
  <1>4. y \in Nat \ {0} BY <1>3
  <1>5. y * m \in Nat \ {0} BY <1>4
  <1>6. 7 * x * m + 300 * (m - p) * d \in Int /\ 10 * d * m \in Nat \ {0}
    BY <1>1, <1>2, <1>3, <1>5
  <1> QED BY <1>6 DEF Composite, Over, Fractions

(* Step 3 puts one of the candidates first.                                 *)
LEMMA ScoredIs ==
  ASSUME NEW n \in Nat, NEW evaluated, DOMAIN evaluated = 1..n,
         \A i \in 1..n : IsEvaluated(evaluated[i]),
         scoreMultiObjective(evaluated) # <<>>
  PROVE  \E i \in 1..n : /\ Head(scoreMultiObjective(evaluated)) = evaluated[i]
                         /\ evaluated[i].provider # {}
  <1> DEFINE D == {i \in DOMAIN evaluated : evaluated[i].provider # {}}
             s == [i \in D |-> evaluated[i]]
             tokens == [i \in D |-> s[i].predictedTokens]
             max == Max({1} \cup {s[i].predictedTokens : i \in DOMAIN s})
             Trust(p) == CHOOSE t \in (IF p.trust = {} THEN {Over(50, 1)} ELSE p.trust) : TRUE
             Score(p) == Over(7 * Trust(p).num * max + 300 * (max - p.predictedTokens) * Trust(p).den,
                              10 * Trust(p).den * max)
             q == [i \in D |-> Score(s[i])]
             c == [i \in D |-> 0]
             InOrder(i, j) ==
               \/ Exceeds(Score(s[i]), Score(s[j]))
               \/ ~Exceeds(Score(s[j]), Score(s[i])) /\ i < j
             Place(i) == Cardinality({j \in DOMAIN s : InOrder(j, i)}) + 1
             a == [k \in 1..Cardinality(D) |-> CHOOSE i \in DOMAIN s : Place(i) = k]
             r == [k \in 1..Cardinality(DOMAIN s) |-> s[CHOOSE i \in DOMAIN s : Place(i) = k]]
             all == scoreMultiObjective(evaluated)
  <1>1. all = IF Cardinality(DOMAIN s) < 2 THEN <<>> ELSE r
    BY DEF scoreMultiObjective, Ranked, RestrictValues, Restrict
  <1>2. D \subseteq 1..n /\ \A i \in D : evaluated[i].provider # {} OBVIOUS
  <1>3. IsFiniteSet(D) /\ D \in SUBSET Int
    <2>1. IsFiniteSet(1..n) /\ 1..n \in SUBSET Int BY FS_Interval
    <2> HIDE DEF D
    <2> QED BY <1>2, <2>1, FS_Subset
  <1> HIDE DEF D
  <1>4. DOMAIN s = D /\ \A i \in D : s[i] = evaluated[i] OBVIOUS
  <1> HIDE DEF s
  <1>5. \A i \in D : IsEvaluated(s[i]) BY <1>2, <1>4
  <1>6. max \in Nat \ {0}
    <2>1. tokens \in [D -> Nat] BY <1>5 DEF IsEvaluated
    <2>2. \A i \in D : tokens[i] = s[i].predictedTokens OBVIOUS
    <2> HIDE DEF tokens
    <2>3. {tokens[i] : i \in D} = {s[i].predictedTokens : i \in DOMAIN s} BY <1>4, <2>2
    <2>4. Max({1} \cup {tokens[i] : i \in D}) \in Nat \ {0} BY <1>3, <2>1, GreatestNatural
    <2> QED BY <2>3, <2>4
  <1> HIDE DEF max
  <1>7. ASSUME NEW i \in D PROVE Score(s[i]) \in Fractions
    <2>1. Trust(s[i]) \in Fractions
      <3>1. Over(50, 1) \in Fractions BY DEF Over, Fractions
      <3>2. CASE s[i].trust = {} BY <3>1, <3>2
      <3>3. ASSUME NEW t \in Fractions, s[i].trust = {t} PROVE Trust(s[i]) = t BY <3>3
      <3>4. s[i].trust = {} \/ \E t \in Fractions : s[i].trust = {t} BY <1>5 DEF IsEvaluated
      <3> HIDE DEF Trust
      <3> QED BY <3>2, <3>3, <3>4
    <2> HIDE DEF Trust
    <2>2. Trust(s[i]).num \in Int /\ Trust(s[i]).den \in Nat \ {0} BY <2>1 DEF Fractions
    <2>3. s[i].predictedTokens \in Nat BY <1>5 DEF IsEvaluated
    <2>4. Composite(Trust(s[i]).num, Trust(s[i]).den, max, s[i].predictedTokens) \in Fractions
      BY <1>6, <2>2, <2>3, CompositeIs
    <2> QED BY <2>4 DEF Composite
  <1> HIDE DEF Score
  <1>8. /\ \A i \in D : c[i] = 0 /\ q[i] = Score(s[i])
        /\ c \in [D -> Int] /\ q \in [D -> Fractions]
    BY <1>7
  <1>9. r = [k \in 1..Cardinality(D) |-> s[a[k]]]
    <2> HIDE DEF Place
    <2> QED BY <1>4
  <1>10. all = r BY <1>1
  <1> HIDE DEF q, c, r, all
  <1>11. \A k \in 1..Cardinality(D) : \E i \in D : Cardinality(Ahead(q, c, D, i)) + 1 = k
    BY <1>3, <1>8, PlacesByKeys
  <1>12. ASSUME NEW i \in D PROVE Ahead(q, c, D, i) = {j \in D : InOrder(j, i)}
    <2>1. \A j \in D : c[j] = 0 /\ c[i] = 0 /\ ~(0 < 0) BY <1>8
    <2> QED BY <1>8, <2>1 DEF Ahead, Preferred
  <1>13. ASSUME NEW k \in 1..Cardinality(D) PROVE a[k] \in D
    <2>1. PICK i \in D : Cardinality(Ahead(q, c, D, i)) + 1 = k BY <1>11
    <2>2. Place(i) = k BY <1>4, <1>12, <2>1
    <2> HIDE DEF Place
    <2> QED BY <1>4, <2>2
  <1> HIDE DEF a
  <1>14. ListsAt(r, s, a, D) BY <1>9, <1>13 DEF ListsAt
  <1>15. r # <<>> BY <1>10 DEF all
  <1>16. StartsIn(r, s, D) BY <1>3, <1>14, <1>15, ListedByPlace
  <1> QED BY <1>2, <1>4, <1>10, <1>16 DEF StartsIn, all

-----------------------------------------------------------------------------
(* Means.                                                                   *)

(* Fraction a is at most n times u/v, or at least, when v is negative.      *)
Within(a, n, u, v) == a.num * v <= (n * u) * a.den
Inside(a, n, u, v) == a.num * v < (n * u) * a.den

LEMMA StrictScaling ==
  ASSUME NEW x \in Int, NEW y \in Int, NEW d \in Nat \ {0}, x < y
  PROVE  x * d < y * d
  <1>1. ~(y <= x) OBVIOUS
  <1>2. ~(y * d <= x * d) BY <1>1, Scaling
  <1>3. x * d \in Int /\ y * d \in Int OBVIOUS
  <1> QED BY <1>2, <1>3

(* Sums of such, with the products named.                                   *)
LEMMA SameDenominator ==
  ASSUME NEW an \in Int, NEW cn \in Int, NEW d \in Nat \ {0},
         NEW n \in Nat, NEW u \in Int, NEW v \in Int
  PROVE  /\ an * v <= (1 * u) * d /\ cn * v <= (n * u) * d
              => (an + cn) * v <= ((n + 1) * u) * d
         /\ an * v < (1 * u) * d /\ cn * v <= (n * u) * d
              => (an + cn) * v < ((n + 1) * u) * d
  <1>1. (an + cn) * v = an * v + cn * v OBVIOUS
  <1>2. ((n + 1) * u) * d = (1 * u) * d + (n * u) * d
    <2>1. (n + 1) * u = 1 * u + n * u OBVIOUS
    <2>2. PICK x \in Int : x = n * u OBVIOUS
    <2>3. (1 * u + x) * d = (1 * u) * d + x * d OBVIOUS
    <2> QED BY <2>1, <2>2, <2>3
  <1>3. /\ an * v \in Int /\ cn * v \in Int
        /\ (1 * u) * d \in Int /\ (n * u) * d \in Int
    OBVIOUS
  <1> DEFINE p == an * v
             q == cn * v
             x == (1 * u) * d
             y == (n * u) * d
  <1>4. p \in Int /\ q \in Int /\ x \in Int /\ y \in Int BY <1>3
  <1> HIDE DEF p, q, x, y
  <1>5. /\ p <= x /\ q <= y => p + q <= x + y
        /\ p < x /\ q <= y => p + q < x + y
    BY <1>4
  <1> QED BY <1>1, <1>2, <1>5 DEF p, q, x, y

LEMMA TwoDenominators ==
  ASSUME NEW an \in Int, NEW cn \in Int, NEW ad \in Nat \ {0}, NEW cd \in Nat \ {0},
         NEW n \in Nat, NEW u \in Int, NEW v \in Int
  PROVE  /\ an * v <= (1 * u) * ad /\ cn * v <= (n * u) * cd
              => (an * cd + cn * ad) * v <= ((n + 1) * u) * (ad * cd)
         /\ an * v < (1 * u) * ad /\ cn * v <= (n * u) * cd
              => (an * cd + cn * ad) * v < ((n + 1) * u) * (ad * cd)
  <1> DEFINE d == ad * cd
             a == an * cd
             c == cn * ad
             p == an * v
             q == cn * v
             x == (1 * u) * ad
             y == (n * u) * cd
  <1>1. d \in Nat \ {0} /\ a \in Int /\ c \in Int OBVIOUS
  <1>2. p \in Int /\ q \in Int /\ x \in Int /\ y \in Int OBVIOUS
  <1>3. a * v = p * cd /\ c * v = q * ad OBVIOUS
  <1>4. (1 * u) * d = x * cd
    <2>1. PICK w \in Int : w = 1 * u OBVIOUS
    <2>2. w * (ad * cd) = (w * ad) * cd OBVIOUS
    <2> QED BY <2>1, <2>2
  <1>5. (n * u) * d = y * ad
    <2>1. PICK w \in Int : w = n * u OBVIOUS
    <2>2. w * (ad * cd) = (w * cd) * ad OBVIOUS
    <2> QED BY <2>1, <2>2
  <1> HIDE DEF d, a, c, p, q, x, y
  <1>6. /\ p <= x => p * cd <= x * cd
        /\ p < x => p * cd < x * cd
        /\ q <= y => q * ad <= y * ad
    BY <1>2, Scaling, StrictScaling
  <1>7. /\ p <= x /\ q <= y => (a + c) * v <= ((n + 1) * u) * d
        /\ p < x /\ q <= y => (a + c) * v < ((n + 1) * u) * d
    BY <1>1, <1>3, <1>4, <1>5, <1>6, SameDenominator
  <1> QED BY <1>7 DEF d, a, c, p, q, x, y

LEMMA PlusWithin ==
  ASSUME NEW a \in Fractions, NEW c \in Fractions, NEW n \in Nat, NEW u \in Int, NEW v \in Int
  PROVE  /\ Plus(a, c) \in Fractions
         /\ Within(a, 1, u, v) /\ Within(c, n, u, v) => Within(Plus(a, c), n + 1, u, v)
         /\ Inside(a, 1, u, v) /\ Within(c, n, u, v) => Inside(Plus(a, c), n + 1, u, v)
  <1>1. PICK an \in Int : an = a.num BY DEF Fractions
  <1>2. PICK ad \in Nat \ {0} : ad = a.den BY DEF Fractions
  <1>3. PICK cn \in Int : cn = c.num BY DEF Fractions
  <1>4. PICK cd \in Nat \ {0} : cd = c.den BY DEF Fractions
  <1>5. /\ Within(a, 1, u, v) <=> an * v <= (1 * u) * ad
        /\ Inside(a, 1, u, v) <=> an * v < (1 * u) * ad
        /\ Within(c, n, u, v) <=> cn * v <= (n * u) * cd
    BY <1>1, <1>2, <1>3, <1>4 DEF Within, Inside
  <1>6. CASE ad = cd
    <2>1. PICK x \in Int : x = an + cn OBVIOUS
    <2>2. Plus(a, c) = [num |-> x, den |-> ad]
      BY <1>1, <1>2, <1>3, <1>4, <1>6, <2>1 DEF Plus, Over
    <2>3. /\ Within(Plus(a, c), n + 1, u, v) <=> (an + cn) * v <= ((n + 1) * u) * ad
          /\ Inside(Plus(a, c), n + 1, u, v) <=> (an + cn) * v < ((n + 1) * u) * ad
      BY <2>1, <2>2 DEF Within, Inside
    <2>4. Plus(a, c) \in Fractions BY <2>2 DEF Fractions
    <2> QED BY <1>5, <1>6, <2>3, <2>4, SameDenominator
  <1>7. CASE ad # cd
    <2>1. PICK x \in Int : x = an * cd + cn * ad OBVIOUS
    <2>2. PICK d \in Nat \ {0} : d = ad * cd
      <3>1. ad * cd \in Nat \ {0} OBVIOUS
      <3> QED BY <3>1
    <2>3. Plus(a, c) = [num |-> x, den |-> d]
      BY <1>1, <1>2, <1>3, <1>4, <1>7, <2>1, <2>2 DEF Plus, Over
    <2>4. /\ Within(Plus(a, c), n + 1, u, v) <=> x * v <= ((n + 1) * u) * d
          /\ Inside(Plus(a, c), n + 1, u, v) <=> x * v < ((n + 1) * u) * d
      BY <2>3 DEF Within, Inside
    <2>5. Plus(a, c) \in Fractions BY <2>3 DEF Fractions
    <2>6. /\ an * v <= (1 * u) * ad /\ cn * v <= (n * u) * cd
               => x * v <= ((n + 1) * u) * d
          /\ an * v < (1 * u) * ad /\ cn * v <= (n * u) * cd
               => x * v < ((n + 1) * u) * d
      BY <2>1, <2>2, TwoDenominators
    <2> QED BY <1>5, <2>4, <2>5, <2>6
  <1> QED BY <1>6, <1>7

(* h gives, for every set of indices in T, the sum of the fractions f over  *)
(* it; the fold of Plus recurs as SumFunction does.                         *)
Adds(h, f, T) ==
  \A s \in T : h[s] = IF s = {} THEN Over(0, 1) ELSE Plus(f[FirstOf(s)], h[s \ {FirstOf(s)}])

LEMMA PlusType ==
  ASSUME NEW a \in Fractions, NEW c \in Fractions
  PROVE  Plus(a, c) \in Fractions
  BY PlusWithin

LEMMA AddsExist ==
  ASSUME NEW D, IsFiniteSet(D), NEW f \in [D -> Fractions]
  PROVE  \E h \in [SUBSET D -> Fractions] : Adds(h, f, SUBSET D)
  <1> DEFINE N == Cardinality(D)
             Bad == {n \in 0..N : ~\E h \in [SUBSET D -> Fractions] : Adds(h, f, UpTo(D, n))}
  <1>1. N \in Nat BY FS_CardinalityType
  <1>0. Over(0, 1) \in Fractions BY DEF Over, Fractions
  <1>2. UpTo(D, N) = SUBSET D
    <2>1. \A s \in SUBSET D : Cardinality(s) <= N BY FS_Subset
    <2> QED BY <2>1 DEF UpTo
  <1>3. SUFFICES ASSUME Bad # {} PROVE FALSE
    <2>1. N \in 0..N BY <1>1
    <2> HIDE DEF N
    <2>2. N \notin Bad => \E h \in [SUBSET D -> Fractions] : Adds(h, f, UpTo(D, N)) BY <2>1
    <2> HIDE DEF Bad
    <2> QED BY <1>2, <1>3, <2>2
  <1> HIDE DEF N
  <1>4. Bad \in SUBSET Nat BY <1>1
  <1> HIDE DEF Bad
  <1>5. PICK n \in Bad : \A m \in Bad : n <= m BY <1>3, <1>4, LeastNatural
  <1>6. n \in 0..N /\ ~\E h \in [SUBSET D -> Fractions] : Adds(h, f, UpTo(D, n)) BY <1>5 DEF Bad
  <1>7. CASE n = 0
    <2> DEFINE h == [s \in SUBSET D |-> Over(0, 1)]
    <2>1. h \in [SUBSET D -> Fractions] BY <1>0
    <2>2. ASSUME NEW s \in UpTo(D, n) PROVE s = {} /\ h[s] = Over(0, 1)
      <3>1. s \in SUBSET D /\ Cardinality(s) <= 0 BY <1>7 DEF UpTo
      <3>2. IsFiniteSet(s) BY <3>1, FS_Subset
      <3>3. Cardinality(s) = 0 BY <3>1, <3>2, FS_CardinalityType
      <3> QED BY <3>1, <3>2, <3>3, FS_EmptySet
    <2> HIDE DEF h
    <2>3. Adds(h, f, UpTo(D, n)) BY <2>2 DEF Adds
    <2> QED BY <1>6, <2>1, <2>3
  <1>8. CASE n # 0
    <2>1. n - 1 \in 0..N /\ n - 1 \notin Bad BY <1>1, <1>5, <1>6, <1>8
    <2>2. PICK h \in [SUBSET D -> Fractions] : Adds(h, f, UpTo(D, n - 1)) BY <2>1 DEF Bad
    <2> DEFINE g == [s \in SUBSET D |-> IF s = {} THEN Over(0, 1)
                                        ELSE Plus(f[FirstOf(s)], h[s \ {FirstOf(s)}])]
    <2>3. g \in [SUBSET D -> Fractions]
      <3>1. ASSUME NEW s \in SUBSET D
            PROVE  (IF s = {} THEN Over(0, 1)
                    ELSE Plus(f[FirstOf(s)], h[s \ {FirstOf(s)}])) \in Fractions
        <4>1. s # {} => f[FirstOf(s)] \in Fractions /\ h[s \ {FirstOf(s)}] \in Fractions
          BY FewerIndices
        <4> QED BY <1>0, <4>1, PlusType
      <3> QED BY <3>1
    <2>4. ASSUME NEW s \in UpTo(D, n - 1) PROVE g[s] = h[s] BY <2>2, <2>4 DEF UpTo, Adds
    <2>5. ASSUME NEW s \in UpTo(D, n)
          PROVE  g[s] = IF s = {} THEN Over(0, 1) ELSE Plus(f[FirstOf(s)], g[s \ {FirstOf(s)}])
      <3>1. s \in SUBSET D /\ Cardinality(s) <= n BY <2>5 DEF UpTo
      <3>2. CASE s = {} BY <3>2, <3>1
      <3>3. CASE s # {}
        <4>1. s \ {FirstOf(s)} \in UpTo(D, n - 1)
          BY <1>6, <3>1, <3>3, FewerIndices DEF UpTo
        <4> QED BY <3>1, <3>3, <4>1, <2>4
      <3> QED BY <3>2, <3>3
    <2> HIDE DEF g
    <2>6. Adds(g, f, UpTo(D, n)) BY <2>5 DEF Adds
    <2> QED BY <1>6, <2>3, <2>6
  <1> QED BY <1>7, <1>8

LEMMA FoldAdds ==
  ASSUME NEW D, IsFiniteSet(D), NEW f \in [D -> Fractions]
  PROVE  \E h : Adds(h, f, SUBSET D) /\ FoldFunction(Plus, Over(0, 1), f) = h[D]
  <1> DEFINE P(h) == h = [s \in SUBSET D |-> IF s = {} THEN Over(0, 1)
                                             ELSE Plus(f[FirstOf(s)], h[s \ {FirstOf(s)}])]
             F == CHOOSE h : P(h)
  <1>1. PICK h \in [SUBSET D -> Fractions] : Adds(h, f, SUBSET D) BY AddsExist
  <1>2. P(h) BY <1>1 DEF Adds
  <1>3. P(F)
    <2> HIDE DEF P
    <2> QED BY <1>2
  <1>4. FoldFunction(Plus, Over(0, 1), f) = F[D]
    <2>1. DOMAIN f = D OBVIOUS
    <2> QED BY <2>1 DEF FoldFunction, FoldFunctionOnSet, MapThenFoldSet, FirstOf
  <1> HIDE DEF F
  <1>5. Adds(F, f, SUBSET D) BY <1>3 DEF Adds
  <1> QED BY <1>4, <1>5

(* A bound on every fraction bounds the sum, strictly if it is strict.      *)
AllWithin(f, D, u, v) == \A x \in D : Within(f[x], 1, u, v)
AllInside(f, D, u, v) == \A x \in D : Inside(f[x], 1, u, v)
SumsWithin(h, D, u, v) ==
  \A s \in SUBSET D : h[s] \in Fractions /\ Within(h[s], Cardinality(s), u, v)

LEMMA AddsWithin ==
  ASSUME NEW D, NEW f \in [D -> Fractions], NEW h, NEW u \in Int, NEW v \in Int,
         IsFiniteSet(D), Adds(h, f, SUBSET D), AllWithin(f, D, u, v)
  PROVE  SumsWithin(h, D, u, v)
  <1> DEFINE Right(s) == h[s] \in Fractions /\ Within(h[s], Cardinality(s), u, v)
             Bad == {n \in Nat : \E s \in SUBSET D : Cardinality(s) = n /\ ~Right(s)}
  <1>1. SUFFICES ASSUME Bad # {} PROVE FALSE
    <2>1. \A s \in SUBSET D : Cardinality(s) \in Nat BY FS_Subset, FS_CardinalityType
    <2> HIDE DEF Right
    <2>2. \A s \in SUBSET D : Right(s) BY <2>1
    <2> QED BY <2>2 DEF Right, SumsWithin
  <1>2. Bad \in SUBSET Nat OBVIOUS
  <1> HIDE DEF Bad
  <1>3. PICK n \in Bad : \A m \in Bad : n <= m BY <1>1, <1>2, LeastNatural
  <1> HIDE DEF Right
  <1>4. PICK s \in SUBSET D : Cardinality(s) = n /\ ~Right(s) BY <1>3 DEF Bad
  <1>5. n \in Nat BY <1>2, <1>3
  <1>6. CASE s = {}
    <2>1. h[s] = Over(0, 1) /\ Cardinality(s) = 0 BY <1>6, FS_EmptySet DEF Adds
    <2>2. Over(0, 1) \in Fractions BY DEF Over, Fractions
    <2>3. Within(Over(0, 1), 0, u, v) BY DEF Within, Over
    <2> QED BY <1>4, <2>1, <2>2, <2>3 DEF Right
  <1>7. CASE s # {}
    <2> DEFINE z == FirstOf(s)
               t == s \ {z}
    <2>1. z \in D /\ t \in SUBSET D /\ n # 0 /\ Cardinality(t) = n - 1
      BY <1>4, <1>7, FewerIndices
    <2>2. h[s] = Plus(f[z], h[t]) BY <1>7 DEF Adds
    <2> HIDE DEF z, t
    <2>3. n - 1 \in Nat /\ ~(n <= n - 1) BY <1>5, <2>1
    <2>4. n - 1 \notin Bad BY <1>3, <2>3
    <2>5. Right(t) BY <2>1, <2>3, <2>4 DEF Bad
    <2>6. f[z] \in Fractions /\ Within(f[z], 1, u, v) BY <2>1 DEF AllWithin
    <2>7. PICK m \in Nat : m = n - 1 BY <2>3
    <2>8. h[t] \in Fractions /\ Within(h[t], m, u, v) BY <2>1, <2>5, <2>7 DEF Right
    <2>9. h[s] \in Fractions /\ Within(h[s], m + 1, u, v) BY <2>2, <2>6, <2>8, PlusWithin
    <2>10. m + 1 = n BY <1>5, <2>7
    <2> QED BY <1>4, <2>9, <2>10 DEF Right
  <1> QED BY <1>6, <1>7

LEMMA AddsInside ==
  ASSUME NEW D, NEW f \in [D -> Fractions], NEW h, NEW u \in Int, NEW v \in Int,
         IsFiniteSet(D), D # {}, Adds(h, f, SUBSET D), AllInside(f, D, u, v)
  PROVE  Inside(h[D], Cardinality(D), u, v)
  <1>1. ASSUME NEW x \in D PROVE Within(f[x], 1, u, v)
    <2>1. PICK a \in Int : a = f[x].num BY DEF Fractions
    <2>2. PICK d \in Nat : d = f[x].den BY DEF Fractions
    <2>3. a * v < (1 * u) * d BY <2>1, <2>2 DEF AllInside, Inside
    <2>4. a * v <= (1 * u) * d
      <3>1. a * v \in Int /\ (1 * u) * d \in Int OBVIOUS
      <3> QED BY <2>3, <3>1
    <2> QED BY <2>1, <2>2, <2>4 DEF Within
  <1>2. \A s \in SUBSET D : h[s] \in Fractions /\ Within(h[s], Cardinality(s), u, v)
    <2>1. AllWithin(f, D, u, v) BY <1>1 DEF AllWithin
    <2> QED BY <2>1, AddsWithin DEF SumsWithin
  <1> DEFINE z == FirstOf(D)
             t == D \ {z}
  <1>3. /\ z \in D /\ t \in SUBSET D /\ Cardinality(D) \in Nat /\ Cardinality(D) # 0
        /\ Cardinality(t) = Cardinality(D) - 1
    BY FewerIndices
  <1>4. h[D] = Plus(f[z], h[t]) BY DEF Adds
  <1> HIDE DEF z, t
  <1>5. PICK m \in Nat : m = Cardinality(D) - 1 BY <1>3
  <1>6. h[t] \in Fractions /\ Within(h[t], m, u, v) BY <1>2, <1>3, <1>5
  <1>7. f[z] \in Fractions /\ Inside(f[z], 1, u, v) BY <1>3 DEF AllInside
  <1>8. Inside(h[D], m + 1, u, v) BY <1>4, <1>6, <1>7, PlusWithin
  <1>9. m + 1 = Cardinality(D) BY <1>3, <1>5
  <1> QED BY <1>8, <1>9

LEMMA NoneInsideItself ==
  ASSUME NEW s \in Int, NEW d \in Nat \ {0}, NEW n \in Nat \ {0}
  PROVE  /\ d * n \in Nat \ {0}
         /\ ~(s * (d * n) < (n * s) * d)
         /\ ~(s * (-(d * n)) < (n * (-s)) * d)
  <1>1. d * n \in Nat \ {0} OBVIOUS
  <1>2. s * (d * n) = (n * s) * d /\ s * (-(d * n)) = (n * (-s)) * d OBVIOUS
  <1>3. s * (d * n) \in Int /\ s * (-(d * n)) \in Int OBVIOUS
  <1>4. \A x \in Int, y \in Int : x = y => ~(x < y) OBVIOUS
  <1>5. (n * s) * d \in Int /\ (n * (-s)) * d \in Int OBVIOUS
  <1>6. PICK a \in Int, b \in Int, c \in Int, e \in Int :
          a = s * (d * n) /\ b = (n * s) * d /\ c = s * (-(d * n)) /\ e = (n * (-s)) * d
    BY <1>3, <1>5
  <1>7. ~(a < b) /\ ~(c < e) BY <1>2, <1>6
  <1> QED BY <1>1, <1>6, <1>7

(* The mean of fractions lies between two of them.                          *)
LEMMA MeanIs ==
  ASSUME NEW D, NEW f \in [D -> Fractions], IsFiniteSet(D), D # {}
  PROVE  /\ Mean(f) \in Fractions
         /\ \E x \in D : ~Exceeds(Mean(f), f[x])
         /\ \E x \in D : ~Exceeds(f[x], Mean(f))
  <1>1. PICK h : Adds(h, f, SUBSET D) /\ FoldFunction(Plus, Over(0, 1), f) = h[D] BY FoldAdds
  <1>2. h[D] \in Fractions
    <2>1. AllWithin(f, D, 0, 0)
      <3>1. ASSUME NEW x \in D PROVE Within(f[x], 1, 0, 0)
        <4>1. f[x].num \in Int /\ f[x].den \in Nat BY DEF Fractions
        <4>2. \A a \in Int, b \in Nat : a * 0 <= (1 * 0) * b OBVIOUS
        <4> QED BY <4>1, <4>2 DEF Within
      <3> QED BY <3>1 DEF AllWithin
    <2>2. SumsWithin(h, D, 0, 0) BY <1>1, <2>1, AddsWithin
    <2> QED BY <2>2 DEF SumsWithin
  <1>3. PICK s \in Int : s = h[D].num BY <1>2 DEF Fractions
  <1>4. PICK d \in Nat \ {0} : d = h[D].den BY <1>2 DEF Fractions
  <1>5. PICK n \in Nat \ {0} : n = Cardinality(D) BY FS_CardinalityType, FS_EmptySet
  <1>6. Mean(f) = [num |-> s, den |-> d * n]
    <2>1. DOMAIN f = D OBVIOUS
    <2> QED BY <1>1, <1>3, <1>4, <1>5, <2>1 DEF Mean, Over
  <1>7. PICK m \in Nat \ {0} : m = d * n BY NoneInsideItself
  <1>8. Mean(f) = [num |-> s, den |-> m] BY <1>6, <1>7
  <1>9. Mean(f).num = s /\ Mean(f).den = m BY <1>8
  <1>10. \E x \in D : ~Exceeds(Mean(f), f[x])
    <2>1. SUFFICES ASSUME \A x \in D : Exceeds(Mean(f), f[x]) PROVE FALSE OBVIOUS
    <2>a. ASSUME NEW x \in D PROVE Inside(f[x], 1, s, m)
      <3>1. PICK a \in Int : a = f[x].num BY DEF Fractions
      <3>2. PICK b \in Nat : b = f[x].den BY DEF Fractions
      <3>3. s * b > a * m BY <1>9, <2>1, <3>1, <3>2 DEF Exceeds
      <3>4. a * m < (1 * s) * b BY <3>3
      <3> QED BY <3>1, <3>2, <3>4 DEF Inside
    <2>2. AllInside(f, D, s, m) BY <2>a DEF AllInside
    <2>3. Inside(h[D], n, s, m) BY <1>1, <1>5, <2>2, AddsInside
    <2>4. s * m < (n * s) * d BY <1>3, <1>4, <2>3 DEF Inside
    <2> QED BY <1>7, <2>4, NoneInsideItself
  <1>11. \E x \in D : ~Exceeds(f[x], Mean(f))
    <2>1. SUFFICES ASSUME \A x \in D : Exceeds(f[x], Mean(f)) PROVE FALSE OBVIOUS
    <2>2. PICK u \in Int, v \in Int : u = -s /\ v = -m OBVIOUS
    <2>a. ASSUME NEW x \in D PROVE Inside(f[x], 1, u, v)
      <3>1. PICK a \in Int : a = f[x].num BY DEF Fractions
      <3>2. PICK b \in Nat : b = f[x].den BY DEF Fractions
      <3>3. a * m > s * b BY <1>9, <2>1, <3>1, <3>2 DEF Exceeds
      <3>4. a * (-m) < (1 * (-s)) * b
        <4>1. a * (-m) = -(a * m) /\ (1 * (-s)) * b = -(s * b) OBVIOUS
        <4>2. PICK p \in Int, q \in Int : p = a * m /\ q = s * b OBVIOUS
        <4>3. p > q BY <3>3, <4>2
        <4>4. -p < -q BY <4>3
        <4> QED BY <4>1, <4>2, <4>4
      <3> QED BY <2>2, <3>1, <3>2, <3>4 DEF Inside
    <2>3. AllInside(f, D, u, v) BY <2>a DEF AllInside
    <2>4. Inside(h[D], n, u, v) BY <1>1, <1>5, <2>3, AddsInside
    <2>5. s * (-m) < (n * (-s)) * d BY <1>3, <1>4, <2>2, <2>4 DEF Inside
    <2> QED BY <1>7, <2>5, NoneInsideItself
  <1> QED BY <1>8, <1>10, <1>11 DEF Fractions

-----------------------------------------------------------------------------
(* What an agent's history amounts to.                                      *)

(* A sum does not depend on the order of its terms.                         *)
Image(a, s) == {a[x] : x \in s}
Reads(g, f, a, E) == \A x \in E : g[x] = f[a[x]]

LEMMA SumPermuted ==
  ASSUME NEW D, NEW E, IsFiniteSet(D), IsFiniteSet(E),
         NEW f \in [D -> Int], NEW g \in [E -> Int], NEW a \in Bijection(E, D),
         Reads(g, f, a, E)
  PROVE  SumFunction(g) = SumFunction(f)
  <1>1. PICK h : Sums(h, f, SUBSET D) /\ SumFunction(f) = h[D] BY FoldIsASum
  <1>2. PICK k : Sums(k, g, SUBSET E) /\ SumFunction(g) = k[E] BY FoldIsASum
  <1>3. Totals(h, f, D) /\ Totals(k, g, E) BY <1>1, <1>2, SumTakes
  <1>4. a \in [E -> D] /\ Image(a, E) = D /\ \A x, y \in E : a[x] = a[y] => x = y
    BY DEF Bijection, Injection, Surjection, IsInjective, Image
  <1> DEFINE Right(s) == k[s] = h[Image(a, s)]
             Bad == {n \in Nat : \E s \in SUBSET E : Cardinality(s) = n /\ ~Right(s)}
  <1>5. SUFFICES ASSUME Bad # {} PROVE FALSE
    <2>1. Cardinality(E) \in Nat BY FS_CardinalityType
    <2> HIDE DEF Right
    <2>2. Right(E) BY <2>1
    <2> QED BY <1>1, <1>2, <1>4, <2>2 DEF Right
  <1>6. Bad \in SUBSET Nat OBVIOUS
  <1> HIDE DEF Bad
  <1>7. PICK n \in Bad : \A m \in Bad : n <= m BY <1>5, <1>6, LeastNatural
  <1> HIDE DEF Right
  <1>8. PICK s \in SUBSET E : Cardinality(s) = n /\ ~Right(s) BY <1>7 DEF Bad
  <1>9. CASE s = {}
    <2>1. Image(a, s) = {} BY <1>9 DEF Image
    <2>2. k[s] = 0 /\ h[{}] = 0 BY <1>1, <1>2, <1>9 DEF Sums
    <2> QED BY <1>8, <2>1, <2>2 DEF Right
  <1>10. CASE s # {}
    <2>1. PICK x \in s : TRUE BY <1>10
    <2> DEFINE t == s \ {x}
    <2>2. t \in SUBSET E /\ Cardinality(t) = n - 1 /\ n # 0 BY <1>8, OneFewer
    <2>3. Image(a, t) = Image(a, s) \ {a[x]} /\ Image(a, s) \in SUBSET D /\ a[x] \in Image(a, s)
      BY <1>4, <1>8, <2>1 DEF Image
    <2> HIDE DEF t
    <2>4. n - 1 \in Nat /\ ~(n <= n - 1) BY <1>6, <1>7, <2>2
    <2>5. Right(t) BY <1>7, <2>2, <2>4 DEF Bad
    <2>6. k[s] = f[a[x]] + k[t] BY <1>3, <2>1 DEF Totals, t, Reads
    <2>7. h[Image(a, s)] = f[a[x]] + h[Image(a, t)] BY <1>3, <2>3 DEF Totals
    <2> QED BY <1>8, <2>1, <2>5, <2>6, <2>7 DEF Right
  <1> QED BY <1>9, <1>10

(* Outcomes at places D of a ledger.                                        *)
IsHistory(h, D) ==
  /\ h = [i \in D |-> h[i]]
  /\ \A i \in D : h[i].accuracy \in Int /\ h[i].accuracy <= 100 /\ h[i].day \in Int

(* By time, they are all there, each once.                                  *)
LEMMA ByTimeIs ==
  ASSUME NEW D \in SUBSET Int, IsFiniteSet(D), NEW h, IsHistory(h, D)
  PROVE  \E a \in Bijection(1..Cardinality(D), D) :
           ByTime(h) = [k \in 1..Cardinality(D) |-> h[a[k]]]
  <1> DEFINE q == [i \in D |-> Over(0, 1)]
             c == [i \in D |-> h[i].day]
             InOrder(i, j) == h[i].day < h[j].day \/ (~(h[j].day < h[i].day) /\ i < j)
             Place(i) == Cardinality({j \in DOMAIN h : InOrder(j, i)}) + 1
             n == Cardinality(D)
             a == [k \in 1..n |-> CHOOSE i \in DOMAIN h : Place(i) = k]
             r == [k \in 1..Cardinality(DOMAIN h) |-> h[CHOOSE i \in DOMAIN h : Place(i) = k]]
  <1>1. ByTime(h) = r BY DEF ByTime, Ranked
  <1>2. DOMAIN h = D BY DEF IsHistory
  <1>3. q \in [D -> Fractions] /\ c \in [D -> Int] BY DEF IsHistory, Over, Fractions
  <1>4. \A i \in D : c[i] = h[i].day /\ q[i] = Over(0, 1) OBVIOUS
  <1>5. ~Exceeds(Over(0, 1), Over(0, 1)) BY DEF Exceeds, Over
  <1>6. r = [k \in 1..n |-> h[a[k]]]
    <2> HIDE DEF Place
    <2> QED BY <1>2
  <1> HIDE DEF q, c, r
  <1>7. \A k \in 1..n : \E i \in D : Cardinality(Ahead(q, c, D, i)) + 1 = k
    BY <1>3, PlacesByKeys
  <1>8. ASSUME NEW i \in D PROVE Ahead(q, c, D, i) = {j \in D : InOrder(j, i)}
    BY <1>4, <1>5 DEF Ahead, Preferred
  <1>9. ASSUME NEW k \in 1..n PROVE a[k] \in D /\ Place(a[k]) = k
    <2>1. PICK i \in D : Cardinality(Ahead(q, c, D, i)) + 1 = k BY <1>7
    <2>2. Place(i) = k BY <1>2, <1>8, <2>1
    <2> HIDE DEF Place
    <2> QED BY <1>2, <2>2
  <1>10. a = [k \in 1..n |-> a[k]]
    <2> HIDE DEF Place
    <2> QED OBVIOUS
  <1> HIDE DEF a, Place
  <1>11. a \in [1..n -> D] /\ \A k, l \in 1..n : a[k] = a[l] => k = l
    BY <1>9, <1>10
  <1>12. a \in Injection(1..n, D) BY <1>11 DEF Injection, IsInjective
  <1>13. n \in Nat /\ IsFiniteSet(1..n) /\ Cardinality(1..n) = n
    BY FS_CardinalityType, FS_Interval
  <1>14. a \in Surjection(1..n, D)
    <2>1. Cardinality(1..n) = Cardinality(D) BY <1>13
    <2> HIDE DEF n
    <2> QED BY <1>12, <1>13, <2>1, FS_Injection
  <1>15. a \in Bijection(1..n, D) BY <1>12, <1>14 DEF Bijection
  <1> QED BY <1>1, <1>6, <1>15

(* A mean of two means is bounded as they are.                              *)
LEMMA TwoMeans ==
  ASSUME NEW r \in Int, NEW s \in Int, NEW m \in Nat \ {0}, NEW n \in Nat \ {0}, NEW b \in Int,
         r <= m * b
  PROVE  /\ s <= n * b => 7 * r * n + 3 * s * m <= b * (10 * m * n)
         /\ 7 * r * n + 3 * s * m \in Int /\ 10 * m * n \in Nat \ {0}
  <1>1. PICK mb \in Int, nb \in Int : mb = m * b /\ nb = n * b OBVIOUS
  <1>2. PICK x \in Int, y \in Int : x = r * n /\ y = s * m OBVIOUS
  <1>3. PICK z \in Nat \ {0} : z = m * n
    <2>1. m * n \in Nat \ {0} OBVIOUS
    <2> QED BY <2>1
  <1>4. x <= mb * n BY <1>1, <1>2, Scaling
  <1>5. s <= n * b => y <= nb * m BY <1>1, <1>2, Scaling
  <1>6. mb * n = b * z /\ nb * m = b * z BY <1>1, <1>3
  <1>7. PICK v \in Int : v = b * z OBVIOUS
  <1>8. s <= n * b => 7 * x + 3 * y <= 10 * v BY <1>4, <1>5, <1>6, <1>7
  <1>9. 7 * r * n = 7 * x /\ 3 * s * m = 3 * y /\ 10 * m * n = 10 * z BY <1>2, <1>3
  <1>10. b * (10 * z) = 10 * v BY <1>7
  <1> QED BY <1>3, <1>8, <1>9, <1>10

LEMMA SumAtMost ==
  ASSUME NEW n \in Nat, NEW f \in [1..n -> Int], NEW b \in Int, \A k \in 1..n : f[k] <= b
  PROVE  SumFunction(f) \in Int /\ SumFunction(f) <= n * b
  <1>1. PICK one \in Int : one = 1 OBVIOUS
  <1>2. \A k \in 1..n : one * f[k] <= b BY <1>1
  <1>3. IsFiniteSet(1..n) /\ Cardinality(1..n) = n BY FS_Interval
  <1>4. SumFunction(f) \in Int /\ one * SumFunction(f) <= n * b BY <1>2, <1>3, SumBound
  <1>5. PICK s \in Int : s = SumFunction(f) BY <1>4
  <1>6. PICK v \in Int : v = n * b OBVIOUS
  <1>7. one * s <= v BY <1>4, <1>5, <1>6
  <1>8. s <= v BY <1>1, <1>7
  <1> QED BY <1>5, <1>6, <1>8

(* The trust in an agent with a history: r is the sum of the last m         *)
(* accuracies, s of all n.                                                  *)
TrustFrom(h, D, r, s, m, n) ==
  /\ computeTrustScore(h) = {Over(7 * r * n + 3 * s * m, 10 * m * n)}
  /\ r <= m * 100 /\ n = Cardinality(D)
  /\ \A b \in Int : (\A i \in D : h[i].accuracy <= b) => r <= m * b /\ s <= n * b
  /\ \A f \in [D -> Int] : (\A i \in D : f[i] = h[i].accuracy) => s = SumFunction(f)

LEMMA TrustIs ==
  ASSUME NEW D \in SUBSET Int, IsFiniteSet(D), NEW h, IsHistory(h, D)
  PROVE  /\ D = {} => computeTrustScore(h) = {}
         /\ D # {} => \E r, s \in Int, m, n \in Nat \ {0} : TrustFrom(h, D, r, s, m, n)
  <1>1. CASE D = {}
    <2>1. h = <<>> BY <1>1 DEF IsHistory
    <2> QED BY <1>1, <2>1 DEF computeTrustScore
  <1>2. CASE D # {}
    <2> DEFINE n == Cardinality(D)
               m == IF n < RecentWindow THEN n ELSE RecentWindow
               all == Accuracies(ByTime(h))
               recent == SubSeq(all, n + 1 - m, n)
    <2>1. n \in Nat \ {0} BY <1>2, FS_CardinalityType, FS_EmptySet
    <2>2. h # <<>>
      <3>1. DOMAIN h = D BY DEF IsHistory
      <3>2. DOMAIN <<>> = {} OBVIOUS
      <3> QED BY <1>2, <3>1, <3>2
    <2>3. PICK a \in Bijection(1..n, D) : ByTime(h) = [k \in 1..n |-> h[a[k]]] BY ByTimeIs
    <2>4. a \in [1..n -> D] BY <2>3 DEF Bijection, Injection
    <2>5. all = [k \in 1..n |-> h[a[k]].accuracy] BY <2>3 DEF Accuracies
    <2>6. \A k \in 1..n : h[a[k]].accuracy \in Int /\ h[a[k]].accuracy <= 100
      BY <2>4 DEF IsHistory
    <2> HIDE DEF n, all
    <2>7. all \in Seq(Int) /\ Len(all) = n /\ all \in [1..n -> Int] /\ DOMAIN all = 1..n
      BY <2>1, <2>5, <2>6
    <2>8. m \in Nat \ {0} /\ m <= n BY <2>1, WindowAssumption
    <2> HIDE DEF m
    <2>9. /\ n + 1 - m \in 1..(n + 1) /\ recent \in Seq(Int) /\ Len(recent) = m
          /\ \A k \in 1..m : recent[k] = all[n - m + k] /\ n - m + k \in 1..n
      <3>1. n + 1 - m \in 1..(n + 1) BY <2>1, <2>8
      <3>2. \A k \in 1..m : n - m + k \in 1..n BY <2>1, <2>8
      <3>3. PICK l \in 1..(n + 1) : l = n + 1 - m BY <3>1
      <3>a. \A k \in l..n : all[k] \in Int BY <2>7, <3>3
      <3>4. SubSeq(all, l, n) \in Seq(Int) /\ Len(SubSeq(all, l, n)) = n - l + 1
            /\ \A k \in 1..(n - l + 1) : SubSeq(all, l, n)[k] = all[l + k - 1]
        <4>1. SubSeq(all, l, n) \in Seq(Int) BY <2>1, <2>7, <3>3, <3>a
        <4>2. Len(SubSeq(all, l, n)) = n - l + 1 BY <2>1, <2>7, <3>3
        <4>3. \A k \in 1..(n - l + 1) : SubSeq(all, l, n)[k] = all[l + k - 1]
          BY <2>1, <2>7, <3>3
        <4> QED BY <4>1, <4>2, <4>3
      <3>5. n - l + 1 = m /\ \A k \in 1..m : l + k - 1 = n - m + k BY <2>1, <2>8, <3>3
      <3> QED BY <3>1, <3>2, <3>3, <3>4, <3>5
    <2> HIDE DEF recent
    <2>10. recent \in [1..m -> Int] /\ IsFiniteSet(1..m) /\ Cardinality(1..m) = m
           /\ IsFiniteSet(1..n) /\ Cardinality(1..n) = n
      BY <2>1, <2>8, <2>9, FS_Interval
    <2>11. ASSUME NEW b \in Int, \A i \in D : h[i].accuracy <= b
           PROVE  SumFunction(recent) <= m * b /\ SumFunction(all) <= n * b
      <3>1. \A k \in 1..n : all[k] <= b BY <2>4, <2>5, <2>11
      <3>2. \A k \in 1..m : recent[k] <= b BY <2>9, <3>1
      <3> QED BY <2>1, <2>7, <2>8, <2>10, <3>1, <3>2, SumAtMost
    <2>12. PICK r \in Int : r = SumFunction(recent)
      <3>1. \A k \in 1..m : recent[k] <= 100 BY <2>5, <2>6, <2>9
      <3> QED BY <2>8, <2>10, <3>1, SumAtMost
    <2>13. PICK s \in Int : s = SumFunction(all)
      <3>1. \A k \in 1..n : all[k] <= 100 BY <2>5, <2>6
      <3>2. n \in Nat /\ all \in [1..n -> Int] BY <2>1, <2>7
      <3>3. SumFunction(all) \in Int /\ SumFunction(all) <= n * 100 BY <3>1, <3>2, SumAtMost
      <3> QED BY <3>3
    <2>14. computeTrustScore(h) = {Over(7 * r * n + 3 * s * m, 10 * m * n)}
      BY <2>2, <2>7, <2>9, <2>12, <2>13 DEF computeTrustScore, all, recent, m
    <2>15. ASSUME NEW f \in [D -> Int], \A i \in D : f[i] = h[i].accuracy
           PROVE  s = SumFunction(f)
      <3>1. \A k \in 1..n : all[k] = f[a[k]] BY <2>4, <2>5, <2>15
      <3>2. all \in [1..n -> Int] /\ IsFiniteSet(1..n) BY <2>7, <2>10
      <3>3. PICK E : E = 1..n OBVIOUS
      <3>4. /\ all \in [E -> Int] /\ IsFiniteSet(E) /\ a \in Bijection(E, D)
            /\ Reads(all, f, a, E)
        BY <2>3, <3>1, <3>2, <3>3 DEF Reads
      <3>5. SumFunction(all) = SumFunction(f) BY <2>15, <3>4, SumPermuted
      <3> QED BY <2>13, <3>5
    <2>16. r <= m * 100 BY <2>11, <2>12 DEF IsHistory
    <2>17. \A b \in Int : (\A i \in D : h[i].accuracy <= b) => r <= m * b /\ s <= n * b
      BY <2>11, <2>12, <2>13
    <2>18. n = Cardinality(D) BY DEF n
    <2>19. TrustFrom(h, D, r, s, m, n) BY <2>14, <2>15, <2>16, <2>17, <2>18, Zenon DEF TrustFrom
    <2> QED BY <1>2, <2>1, <2>8, <2>19
  <1> QED BY <1>1, <1>2

-----------------------------------------------------------------------------
(* What a reader makes of the numbers in a ledger.                          *)

Numbers(known, today) ==
  /\ known \in Seq(ToSet(known)) /\ today \in Nat
  /\ \A i \in DOMAIN known : WellFormed(known[i], today)

(* The places of the outcomes of an agent.                                  *)
OutcomesAt(known, agent) ==
  {i \in DOMAIN known : known[i].type = "reputation-updated" /\ known[i].agent = agent}

LEMMA PlacesOf ==
  ASSUME NEW known, NEW today, Numbers(known, today), NEW D \in SUBSET (DOMAIN known)
  PROVE  IsFiniteSet(D) /\ D \in SUBSET Int
  <1>1. DOMAIN known = 1..Len(known) /\ Len(known) \in Nat BY DEF Numbers
  <1>2. IsFiniteSet(1..Len(known)) /\ 1..Len(known) \in SUBSET Int BY <1>1, FS_Interval
  <1> QED BY <1>1, <1>2, FS_Subset

LEMMA HistoryIs ==
  ASSUME NEW known, NEW today, Numbers(known, today), NEW agent
  PROVE  LET D == OutcomesAt(known, agent)
             h == buildAgentHistoryFromEvents(known, agent)
         IN  /\ IsFiniteSet(D) /\ D \in SUBSET Int /\ IsHistory(h, D)
             /\ \A i \in D : h[i] = known[i]
  <1> DEFINE D == OutcomesAt(known, agent)
             h == buildAgentHistoryFromEvents(known, agent)
  <1>1. h = [i \in D |-> known[i]]
    BY DEF buildAgentHistoryFromEvents, RestrictValues, Restrict, OutcomesAt
  <1>2. D \in SUBSET (DOMAIN known) BY DEF OutcomesAt
  <1>3. IsFiniteSet(D) /\ D \in SUBSET Int BY <1>2, PlacesOf
  <1>4. ASSUME NEW i \in D
        PROVE  /\ known[i].accuracy \in Int /\ known[i].accuracy <= 100
               /\ known[i].day \in Int
    BY DEF OutcomesAt, Numbers, WellFormed
  <1> HIDE DEF D, h
  <1>5. \A i \in D : h[i] = known[i] BY <1>1
  <1>6. h = [i \in D |-> h[i]] BY <1>1
  <1>7. IsHistory(h, D) BY <1>4, <1>5, <1>6 DEF IsHistory
  <1> QED BY <1>3, <1>5, <1>7 DEF D, h

(* The trust in an agent is a fraction, if it has outcomes, and exceeds 90  *)
(* only if one of them does.                                                *)
LEMMA AgentTrustIs ==
  ASSUME NEW known, NEW today, Numbers(known, today), NEW agent,
         NEW trust, trust = computeTrustScore(buildAgentHistoryFromEvents(known, agent))
  PROVE  /\ trust = {} \/ \E t \in Fractions : trust = {t}
         /\ (\E t \in trust : Exceeds(t, Over(90, 1))) =>
              \E i \in OutcomesAt(known, agent) : known[i].accuracy > 90
  <1> DEFINE D == OutcomesAt(known, agent)
             h == buildAgentHistoryFromEvents(known, agent)
  <1>1. /\ IsFiniteSet(D) /\ D \in SUBSET Int /\ IsHistory(h, D)
        /\ \A i \in D : h[i] = known[i]
    BY HistoryIs
  <1> HIDE DEF D, h
  <1>2. CASE D = {}
    <2>1. trust = {} BY <1>1, <1>2, TrustIs DEF h
    <2> QED BY <2>1
  <1>3. CASE D # {}
    <2>a. PICK r \in Int, s \in Int, m \in Nat \ {0}, n \in Nat \ {0} : TrustFrom(h, D, r, s, m, n)
      BY <1>1, <1>3, TrustIs
    <2>1. /\ computeTrustScore(h) = {Over(7 * r * n + 3 * s * m, 10 * m * n)}
          /\ r <= m * 100
          /\ \A b \in Int : (\A i \in D : h[i].accuracy <= b) => r <= m * b /\ s <= n * b
      BY <2>a DEF TrustFrom
    <2>2. 7 * r * n + 3 * s * m \in Int /\ 10 * m * n \in Nat \ {0} BY <2>1, TwoMeans
    <2>3. PICK x \in Int : x = 7 * r * n + 3 * s * m BY <2>2
    <2>4. PICK d \in Nat \ {0} : d = 10 * m * n BY <2>2
    <2>5. trust = {[num |-> x, den |-> d]} BY <2>1, <2>3, <2>4 DEF Over, h
    <2>6. [num |-> x, den |-> d] \in Fractions BY DEF Fractions
    <2>7. ASSUME Exceeds([num |-> x, den |-> d], Over(90, 1)), \A i \in D : known[i].accuracy <= 90
          PROVE  FALSE
      <3>1. PICK b \in Int : b = 90 OBVIOUS
      <3>2. \A i \in D : h[i].accuracy <= b BY <1>1, <2>7, <3>1
      <3>3. r <= m * b /\ s <= n * b BY <2>1, <3>2
      <3>4. x <= b * d BY <2>3, <2>4, <3>3, TwoMeans
      <3>5. x * 1 > b * d BY <2>7, <3>1 DEF Exceeds, Over
      <3>6. PICK y \in Int : y = b * d OBVIOUS
      <3> QED BY <3>4, <3>5, <3>6
    <2>8. \A i \in D : known[i].accuracy \in Int BY <1>1 DEF IsHistory
    <2>9. (\E t \in trust : Exceeds(t, Over(90, 1))) => \E i \in D : known[i].accuracy > 90
      BY <2>5, <2>7, <2>8
    <2> QED BY <2>5, <2>6, <2>9 DEF D
  <1> QED BY <1>2, <1>3

LEMMA EvaluatedIs ==
  ASSUME NEW known, NEW today, Numbers(known, today), NEW prediction \in Submission
  PROVE  LET p == evaluateAgentPrediction(prediction, known)
         IN  /\ IsEvaluated(p) /\ p.agent = prediction.agent
             /\ (\E t \in p.trust : Exceeds(t, Over(90, 1))) =>
                  \E i \in OutcomesAt(known, p.agent) : known[i].accuracy > 90
  <1> DEFINE p == evaluateAgentPrediction(prediction, known)
  <1>1. /\ prediction.provider \subseteq Provider /\ prediction.predictedTokens \in Nat
        /\ prediction.recommendedBatchSize \subseteq Nat \ {0}
    BY DispatchAssumptions DEF Submission
  <1>2. PICK trust : trust = computeTrustScore(buildAgentHistoryFromEvents(known, prediction.agent))
    OBVIOUS
  <1>3. /\ trust = {} \/ \E t \in Fractions : trust = {t}
        /\ (\E t \in trust : Exceeds(t, Over(90, 1))) =>
             \E i \in OutcomesAt(known, prediction.agent) : known[i].accuracy > 90
    BY <1>2, AgentTrustIs
  <1>4. /\ p.agent = prediction.agent /\ p.trust = trust /\ p.provider = prediction.provider
        /\ p.predictedTokens = prediction.predictedTokens
        /\ p.recommendedBatchSize = prediction.recommendedBatchSize
    BY <1>2 DEF evaluateAgentPrediction, WithTrust
  <1> HIDE DEF p
  <1>5. IsEvaluated(p) BY <1>1, <1>3, <1>4 DEF IsEvaluated
  <1> QED BY <1>3, <1>4, <1>5 DEF p

-----------------------------------------------------------------------------
(* The curves.                                                              *)

MeasuredAt(known, p, bucket) ==
  {i \in DOMAIN known : /\ known[i].type = "batch-quality-scored" /\ known[i].provider = p
                        /\ bucketForContextRatio(known[i].ratio) = bucket}

(* q lies between scores that were measured, of which there are enough.     *)
IsMeasured(q, known, D) ==
  /\ q \in Fractions
  /\ \E i \in D : ~Exceeds(q, known[i].score)
  /\ \E i \in D : ~Exceeds(known[i].score, q)

LEMMA MeanScoreIs ==
  ASSUME NEW known, NEW today, Numbers(known, today), NEW D, NEW s,
         D \in SUBSET (DOMAIN known), D # {},
         \A i \in D : known[i].type = "batch-quality-scored",
         s = [i \in D |-> known[i]]
  PROVE  IsMeasured(MeanScore(s), known, D)
  <1> DEFINE f == [i \in DOMAIN s |-> s[i].score]
  <1>1. DOMAIN s = D /\ \A i \in D : s[i] = known[i] OBVIOUS
  <1>2. f \in [D -> Fractions] /\ \A i \in D : f[i] = known[i].score
    BY <1>1 DEF Numbers, WellFormed
  <1>3. MeanScore(s) = Mean(f) BY DEF MeanScore
  <1> HIDE DEF f
  <1>4. IsFiniteSet(D) BY PlacesOf
  <1>5. /\ Mean(f) \in Fractions
        /\ \E x \in D : ~Exceeds(Mean(f), f[x])
        /\ \E x \in D : ~Exceeds(f[x], Mean(f))
    BY <1>2, <1>4, MeanIs
  <1> QED BY <1>2, <1>3, <1>5 DEF IsMeasured

LEMMA FitBucketIs ==
  ASSUME NEW known, NEW today, Numbers(known, today), NEW p, NEW workload, NEW bucket
  PROVE  LET D == MeasuredAt(known, p, bucket)
             fit == fitBucket(known, p, workload, bucket)
         IN  /\ IsFiniteSet(D)
             /\ \A q \in fit : Cardinality(D) >= MinBucketSamples /\ IsMeasured(q, known, D)
             /\ Cardinality(D) >= MinBucketSamples => fit # {}
  <1> DEFINE D == MeasuredAt(known, p, bucket)
             fit == fitBucket(known, p, workload, bucket)
             wide == Measured(known, p, bucket)
             own == OfWorkload(wide, workload)
             E == {i \in D : wide[i].workload = workload}
  <1>1. wide = [i \in D |-> known[i]]
    BY DEF Measured, RestrictValues, Restrict, MeasuredAt
  <1>2. D \in SUBSET (DOMAIN known) /\ \A i \in D : known[i].type = "batch-quality-scored"
    BY DEF MeasuredAt
  <1>3. IsFiniteSet(D) BY <1>2, PlacesOf
  <1> HIDE DEF D, wide
  <1>4. own = [i \in E |-> known[i]] /\ E \in SUBSET D
    BY <1>1 DEF OfWorkload, RestrictValues, Restrict
  <1>5. fit = IF Cardinality(DOMAIN own) >= MinBucketSamples THEN {MeanScore(own)}
              ELSE IF Cardinality(DOMAIN wide) >= MinBucketSamples THEN {MeanScore(wide)}
              ELSE {}
    BY DEF fitBucket, wide
  <1>6. DOMAIN wide = D /\ DOMAIN own = E BY <1>1, <1>4
  <1>7. /\ IsFiniteSet(E) /\ Cardinality(E) <= Cardinality(D)
        /\ Cardinality(D) \in Nat /\ Cardinality(E) \in Nat
        /\ (E = {} => Cardinality(E) = 0) /\ (D = {} => Cardinality(D) = 0)
    BY <1>3, <1>4, FS_Subset, FS_CardinalityType, FS_EmptySet
  <1>8. MinBucketSamples \in Nat \ {0} BY SamplesAssumption
  <1> HIDE DEF E, own, fit
  <1>9. CASE Cardinality(E) >= MinBucketSamples
    <2>1. E # {} /\ Cardinality(D) >= MinBucketSamples BY <1>7, <1>8, <1>9
    <2>2. E \in SUBSET (DOMAIN known) /\ \A i \in E : known[i].type = "batch-quality-scored"
      BY <1>2, <1>4
    <2>3. IsMeasured(MeanScore(own), known, E) BY <1>4, <2>1, <2>2, MeanScoreIs
    <2>4. IsMeasured(MeanScore(own), known, D) BY <1>4, <2>3 DEF IsMeasured
    <2>5. fit = {MeanScore(own)} BY <1>5, <1>6, <1>9
    <2> QED BY <1>3, <2>1, <2>4, <2>5 DEF D, fit
  <1>10. CASE ~(Cardinality(E) >= MinBucketSamples) /\ Cardinality(D) >= MinBucketSamples
    <2>1. D # {} BY <1>7, <1>8, <1>10
    <2>2. IsMeasured(MeanScore(wide), known, D) BY <1>1, <1>2, <2>1, MeanScoreIs
    <2>3. fit = {MeanScore(wide)} BY <1>5, <1>6, <1>10
    <2> QED BY <1>3, <1>10, <2>2, <2>3 DEF D, fit
  <1>11. CASE ~(Cardinality(E) >= MinBucketSamples) /\ ~(Cardinality(D) >= MinBucketSamples)
    <2>1. fit = {} BY <1>5, <1>6, <1>11
    <2> QED BY <1>3, <1>11, <2>1 DEF D, fit
  <1> QED BY <1>9, <1>10, <1>11

(* A value of a curve is the static one, or one that was measured.          *)
LEMMA CurveIs ==
  ASSUME NEW known, NEW today, Numbers(known, today), NEW p, NEW workload,
         NEW static, NEW bucket \in Bucket, static[bucket] \in Fractions
  PROVE  LET q == CurveOf(known, p, workload, static)[bucket]
         IN  /\ q \in Fractions
             /\ q = static[bucket] \/ IsMeasured(q, known, MeasuredAt(known, p, bucket))
  <1> DEFINE fit == fitBucket(known, p, workload, bucket)
             q == CurveOf(known, p, workload, static)[bucket]
  <1>1. q = IF fit # {} THEN CHOOSE x \in fit : TRUE ELSE static[bucket]
    BY DEF CurveOf, fitDegradationCurve
  <1>2. \A x \in fit : IsMeasured(x, known, MeasuredAt(known, p, bucket)) BY FitBucketIs
  <1> HIDE DEF fit, q
  <1>3. fit # {} => q \in fit BY <1>1
  <1>4. q = static[bucket] \/ IsMeasured(q, known, MeasuredAt(known, p, bucket))
    BY <1>1, <1>2, <1>3
  <1>5. q \in Fractions BY <1>4 DEF IsMeasured
  <1> QED BY <1>4, <1>5 DEF q

-----------------------------------------------------------------------------
(* The routes.                                                              *)

LEMMA CeilDivIs ==
  ASSUME NEW n \in Nat, NEW d \in Nat \ {0}
  PROVE  CeilDiv(n, d) \in Nat
  <1>1. n + d - 1 \in Nat OBVIOUS
  <1>2. PICK x \in Nat : x = n + d - 1 BY <1>1
  <1>3. x \div d \in Nat OBVIOUS
  <1> QED BY <1>2, <1>3 DEF CeilDiv

(* The provider ranked first with the curves of a ledger is on the list.    *)
LEMMA RankedFirstIs ==
  ASSUME NEW task \in Tasks, NEW known, NEW today, Numbers(known, today)
  PROVE  Head(rankProviders(task, known)) \in Provider
  <1> DEFINE D == DOMAIN ProviderList
             Batches(p) == CeilDiv(ItemCount(task), Smaller(safeBatch(p), ItemCount(task)))
             Quality(p) == CurveOf(known, p, task.workload, Profile[p].quality)[LoadOf(Batches(p))]
             Estimate(p) == [provider |-> p, batches |-> Batches(p), quality |-> Quality(p)]
             s == [i \in D |-> Estimate(ProviderList[i])]
             q == [i \in D |-> s[i].quality]
             c == [i \in D |-> s[i].batches]
             InOrder(i, j) ==
               \/ \/ Exceeds(s[i].quality, s[j].quality)
                  \/ ~Exceeds(s[j].quality, s[i].quality) /\ s[i].batches < s[j].batches
               \/ /\ ~(\/ Exceeds(s[j].quality, s[i].quality)
                       \/ ~Exceeds(s[i].quality, s[j].quality) /\ s[j].batches < s[i].batches)
                  /\ i < j
             Place(i) == Cardinality({j \in DOMAIN s : InOrder(j, i)}) + 1
             a == [k \in 1..Cardinality(D) |-> CHOOSE i \in DOMAIN s : Place(i) = k]
             r == [k \in 1..Cardinality(DOMAIN s) |-> s[CHOOSE i \in DOMAIN s : Place(i) = k]]
  <1>1. rankProviders(task, known) = [i \in DOMAIN r |-> r[i].provider]
    BY DEF rankProviders, Ranked
  <1>2. /\ IsFiniteSet(D) /\ D \in SUBSET Int /\ D # {}
        /\ \A i \in D : ProviderList[i] \in Provider
    BY ListIs
  <1>3. ASSUME NEW p \in Provider PROVE Quality(p) \in Fractions /\ Batches(p) \in Int
    <2>1. safeBatch(p) \in 1..Profile[p].maxBatchSize /\ ItemCount(task) \in Nat \ {0}
      BY SafeBatchIs, TaskIs
    <2>2. Profile[p].maxBatchSize \in Nat \ {0} BY ProfileIs
    <2>3. Smaller(safeBatch(p), ItemCount(task)) \in Nat \ {0} BY <2>1, <2>2 DEF Smaller
    <2>4. Batches(p) \in Nat BY <2>1, <2>3, CeilDivIs
    <2>5. LoadOf(Batches(p)) \in Bucket BY DEF LoadOf, Bucket
    <2>6. Profile[p].quality[LoadOf(Batches(p))] \in Fractions BY <2>5, ProfileIs
    <2> HIDE DEF Batches
    <2>7. Quality(p) \in Fractions BY <2>5, <2>6, CurveIs
    <2> QED BY <2>4, <2>7
  <1> HIDE DEF Batches, Quality
  <1>4. ASSUME NEW i \in D
        PROVE  s[i].quality \in Fractions /\ s[i].batches \in Int
               /\ s[i].provider = ProviderList[i]
    BY <1>2, <1>3
  <1>5. q \in [D -> Fractions] /\ c \in [D -> Int] BY <1>4
  <1>6. \A i \in D : q[i] = s[i].quality /\ c[i] = s[i].batches OBVIOUS
  <1>7. DOMAIN s = D OBVIOUS
  <1> HIDE DEF s
  <1>8. r = [k \in 1..Cardinality(D) |-> s[a[k]]]
    <2> HIDE DEF Place
    <2> QED BY <1>7
  <1> HIDE DEF q, c, D, r
  <1>9. \A k \in 1..Cardinality(D) : \E i \in D : Cardinality(Ahead(q, c, D, i)) + 1 = k
    BY <1>2, <1>5, PlacesByKeys
  <1>10. ASSUME NEW i \in D PROVE Ahead(q, c, D, i) = {j \in D : InOrder(j, i)}
    BY <1>6 DEF Ahead, Preferred
  <1>11. ASSUME NEW k \in 1..Cardinality(D) PROVE a[k] \in D
    <2>1. PICK i \in D : Cardinality(Ahead(q, c, D, i)) + 1 = k BY <1>9
    <2>2. Place(i) = k BY <1>7, <1>10, <2>1
    <2> HIDE DEF Place
    <2> QED BY <1>7, <2>2
  <1> HIDE DEF a
  <1> DEFINE t == [i \in D |-> s[i].provider]
             u == [i \in DOMAIN r |-> r[i].provider]
  <1>12. u = [k \in 1..Cardinality(D) |-> t[a[k]]] BY <1>8, <1>11
  <1>13. \A i \in D : t[i] \in Provider BY <1>2, <1>4
  <1>14. u = rankProviders(task, known) BY <1>1
  <1> HIDE DEF t, u
  <1>15. ListsAt(u, t, a, D) BY <1>11, <1>12 DEF ListsAt
  <1>16. StartsIn(u, t, D) BY <1>2, <1>15, ListedByPlace
  <1> QED BY <1>13, <1>14, <1>16 DEF StartsIn

(* A route for a task: a provider, and the task in batches it takes.        *)
IsRoute(route, task) ==
  \E p \in Provider : \E size \in 1..Profile[p].maxBatchSize :
    /\ route.provider = {p}
    /\ route.batchPlan = buildBatchPlan(task.items, size, Profile[p].tokensPerItem)

LEMMA BuiltIs ==
  ASSUME NEW task, NEW gate, NEW p \in Provider, NEW size \in 1..Profile[p].maxBatchSize, NEW agent
  PROVE  LET route == buildRouteDecision(task, gate, p, size, agent)
         IN  /\ IsRoute(route, task) /\ route.gate = gate /\ route.provider = {p}
             /\ route.agent = agent /\ route.approved
  BY DEF buildRouteDecision, IsRoute

Names(route, winner) == route.agent = {winner.agent}

LEMMA ApprovedIs ==
  ASSUME NEW task \in Tasks, NEW gate, NEW winner, IsEvaluated(winner), winner.provider # {}
  PROVE  LET route == buildApprovalFromAgent(task, gate, winner)
         IN  /\ IsRoute(route, task) /\ route.gate = gate /\ Names(route, winner)
             /\ route.approved
  <1> DEFINE p == CHOOSE q \in winner.provider : TRUE
             recommended == {Smaller(n, Profile[p].maxBatchSize) : n \in winner.recommendedBatchSize}
             size == IF recommended = {} THEN estimateProviderFit(task, p).batchSize
                     ELSE CHOOSE n \in recommended : TRUE
  <1>1. p \in Provider BY DEF IsEvaluated
  <1> HIDE DEF p
  <1>2. estimateProviderFit(task, p).batchSize \in 1..Profile[p].maxBatchSize
    BY <1>1, FitIs
  <1>3. \A n \in recommended : n \in 1..Profile[p].maxBatchSize
    <2>1. Profile[p].maxBatchSize \in Nat \ {0} BY <1>1, ProfileIs
    <2>2. \A n \in Nat \ {0} : Smaller(n, Profile[p].maxBatchSize) \in 1..Profile[p].maxBatchSize
      BY <2>1 DEF Smaller
    <2> QED BY <2>2 DEF IsEvaluated
  <1> HIDE DEF recommended
  <1>4. size \in 1..Profile[p].maxBatchSize BY <1>2, <1>3
  <1>5. buildApprovalFromAgent(task, gate, winner)
          = buildRouteDecision(task, gate, p, size, {winner.agent})
    BY DEF buildApprovalFromAgent, p, recommended, size
  <1> HIDE DEF size
  <1>6. Names(buildApprovalFromAgent(task, gate, winner), winner)
    BY <1>5 DEF Names, buildRouteDecision
  <1> QED BY <1>1, <1>4, <1>5, <1>6, BuiltIs

(* Step 1 names an agent with a hit; step 2 asks for twice the estimate.    *)
Earned(route, known) ==
  route.gate = "step-1-high-reputation-shortcut" =>
    \E i \in DOMAIN known : /\ known[i].type = "reputation-updated"
                            /\ {known[i].agent} = route.agent /\ known[i].accuracy > 90

Affordable(route, task, left) ==
  route.gate = "step-2-quota-buffer" =>
    \E p \in Provider : /\ route.provider = {p}
                        /\ \E x \in left[p] :
                             2 * (Profile[p].tokensPerItem * ItemCount(task)) < x

LEMMA DecisionIs ==
  ASSUME NEW task \in Tasks, NEW predictions \in Seq(Submission), NEW left,
         NEW known, NEW today, Numbers(known, today), NEW route,
         route = decideRoute(task,
                   [i \in DOMAIN predictions |-> evaluateAgentPrediction(predictions[i], known)],
                   left)
  PROVE  /\ route.approved => IsRoute(route, task)
         /\ Earned(route, known) /\ Affordable(route, task, left)
  <1> DEFINE n == Len(predictions)
             evaluated == [i \in DOMAIN predictions |-> evaluateAgentPrediction(predictions[i], known)]
             trusted == highReputationCandidates(evaluated)
             top == Head(planBatches(task))
             scored == scoreMultiObjective(evaluated)
  <1>1. n \in Nat /\ DOMAIN evaluated = 1..n
        /\ \A i \in 1..n : predictions[i] \in Submission
                           /\ evaluated[i] = evaluateAgentPrediction(predictions[i], known)
    OBVIOUS
  <1>a. route = decideRoute(task, evaluated, left) OBVIOUS
  <1> HIDE DEF n, evaluated
  <1>2. ASSUME NEW i \in 1..n
        PROVE  /\ IsEvaluated(evaluated[i])
               /\ (\E t \in evaluated[i].trust : Exceeds(t, Over(90, 1))) =>
                    \E k \in OutcomesAt(known, evaluated[i].agent) : known[k].accuracy > 90
    BY <1>1, EvaluatedIs
  <1>3. route = IF trusted # <<>>
                  THEN buildApprovalFromAgent(task, "step-1-high-reputation-shortcut", Head(trusted))
                ELSE IF evaluateQuotaComfort(top, left[top.provider])
                  THEN buildApprovalFromQuota(task, top)
                ELSE IF scored # <<>>
                  THEN buildApprovalFromAgent(task, "step-3-multi-agent-comparison", Head(scored))
                ELSE buildRejection
    BY <1>a DEF decideRoute
  <1>4. CASE trusted # <<>>
    <2>1. PICK i \in 1..n : /\ Head(trusted) = evaluated[i]
                            /\ \E trust \in evaluated[i].trust : Exceeds(trust, Over(90, 1))
                            /\ evaluated[i].provider # {}
      BY <1>1, <1>2, <1>4, TrustedIs
    <2>2. route = buildApprovalFromAgent(task, "step-1-high-reputation-shortcut", evaluated[i])
      BY <1>3, <1>4, <2>1
    <2>a. PICK winner : winner = evaluated[i] OBVIOUS
    <2>b. IsEvaluated(winner) /\ winner.provider # {} BY <1>2, <2>1, <2>a
    <2>c. route = buildApprovalFromAgent(task, "step-1-high-reputation-shortcut", winner)
      BY <2>2, <2>a
    <2>d. IsRoute(route, task) /\ route.gate = "step-1-high-reputation-shortcut"
          /\ Names(route, winner)
      BY <2>b, <2>c, ApprovedIs
    <2>3. IsRoute(route, task) /\ route.gate = "step-1-high-reputation-shortcut"
          /\ route.agent = {evaluated[i].agent}
      BY <2>a, <2>d DEF Names
    <2>4. PICK k \in OutcomesAt(known, evaluated[i].agent) : known[k].accuracy > 90
      BY <1>2, <2>1
    <2>5. Earned(route, known) BY <2>3, <2>4 DEF Earned, OutcomesAt
    <2> QED BY <2>3, <2>5 DEF Affordable
  <1>5. CASE trusted = <<>> /\ evaluateQuotaComfort(top, left[top.provider])
    <2>1. PICK p \in Provider : top = estimateProviderFit(task, p) BY PlanBatchesIs
    <2>2. route = buildApprovalFromQuota(task, top) BY <1>3, <1>5
    <2>3. \E x \in left[top.provider] : 2 * top.estimatedTokens < x
      BY <1>5 DEF evaluateQuotaComfort
    <2> HIDE DEF top
    <2>4. /\ top.provider = p /\ top.batchSize \in 1..Profile[p].maxBatchSize
          /\ top.estimatedTokens = Profile[p].tokensPerItem * ItemCount(task)
      BY <2>1, FitIs
    <2>5. /\ IsRoute(route, task) /\ route.gate = "step-2-quota-buffer"
          /\ route.provider = {p}
      <3>1. route = buildRouteDecision(task, "step-2-quota-buffer", p, top.batchSize, {})
        BY <2>2, <2>4 DEF buildApprovalFromQuota
      <3>2. route.provider = {p} /\ route.gate = "step-2-quota-buffer"
            /\ route.batchPlan = buildBatchPlan(task.items, top.batchSize, Profile[p].tokensPerItem)
        BY <3>1 DEF buildRouteDecision
      <3> QED BY <2>4, <3>2 DEF IsRoute
    <2>6. Affordable(route, task, left) BY <2>3, <2>4, <2>5 DEF Affordable
    <2> QED BY <2>5, <2>6 DEF Earned
  <1>6. CASE /\ trusted = <<>> /\ ~evaluateQuotaComfort(top, left[top.provider])
             /\ scored # <<>>
    <2>1. PICK i \in 1..n : /\ Head(scored) = evaluated[i]
                            /\ evaluated[i].provider # {}
      BY <1>1, <1>2, <1>6, ScoredIs
    <2>2. route = buildApprovalFromAgent(task, "step-3-multi-agent-comparison", evaluated[i])
      BY <1>3, <1>6, <2>1
    <2>3. IsRoute(route, task) /\ route.gate = "step-3-multi-agent-comparison"
      BY <1>2, <2>1, <2>2, ApprovedIs
    <2> QED BY <2>3 DEF Earned, Affordable
  <1>7. CASE /\ trusted = <<>> /\ ~evaluateQuotaComfort(top, left[top.provider])
             /\ scored = <<>>
    <2>1. route = buildRejection BY <1>3, <1>7
    <2>2. ~route.approved /\ route.gate = "step-4-rejection" BY <2>1 DEF buildRejection
    <2> QED BY <2>2 DEF Earned, Affordable
  <1> QED BY <1>4, <1>5, <1>6, <1>7

(* The override of `quorum run'.                                            *)
LEMMA OverrideIs ==
  ASSUME NEW task \in Tasks, NEW known, NEW today, Numbers(known, today), NEW route, NEW left,
         route = buildOverrideDecision(task, Head(rankProviders(task, known)))
  PROVE  /\ IsRoute(route, task) /\ route.gate = "operator-override"
         /\ Earned(route, known) /\ Affordable(route, task, left)
  <1> DEFINE p == Head(rankProviders(task, known))
  <1>1. p \in Provider BY RankedFirstIs
  <1>2. route = buildRouteDecision(task, "operator-override", p,
                                   estimateProviderFit(task, p).batchSize, {})
    BY DEF buildOverrideDecision
  <1> HIDE DEF p
  <1>3. estimateProviderFit(task, p).batchSize \in 1..Profile[p].maxBatchSize BY <1>1, FitIs
  <1>4. IsRoute(route, task) /\ route.gate = "operator-override" BY <1>1, <1>2, <1>3, BuiltIs
  <1> QED BY <1>4 DEF Earned, Affordable

-----------------------------------------------------------------------------
(* The batches of a plan.                                                   *)

(* Plan `plan' cuts the items after g[1], g[2], ... of them.                *)
Cuts(g, plan, items, size, t) ==
  /\ DOMAIN plan = 1..Len(plan) /\ g[0] = 0 /\ g[Len(plan)] = Len(items)
  /\ \A i \in 1..Len(plan) :
       /\ g[i - 1] <= g[i] /\ g[i] - g[i - 1] <= size
       /\ plan[i].items = SubSeq(items, g[i - 1] + 1, g[i])
       /\ plan[i].expectedTokens = t * g[i] - t * g[i - 1]

IsPlan(plan, items, size, t) ==
  /\ Len(plan) \in Nat \ {0}
  /\ \E g \in [0..Len(plan) -> 0..Len(items)] : Cuts(g, plan, items, size, t)

(* So many chunks of `size' cover n, and one fewer do not.                  *)
LEMMA CeilDivCovers ==
  ASSUME NEW n \in Nat \ {0}, NEW size \in Nat \ {0}
  PROVE  /\ CeilDiv(n, size) \in Nat \ {0}
         /\ n <= CeilDiv(n, size) * size
         /\ (CeilDiv(n, size) - 1) * size < n
  <1>1. PICK x \in Nat : x = n + size - 1
    <2>1. n + size - 1 \in Nat OBVIOUS
    <2> QED BY <2>1
  <1>2. PICK k \in Nat : k = x \div size
    <2>1. x \div size \in Nat OBVIOUS
    <2> QED BY <2>1
  <1>3. k * size <= x /\ x < k * size + size BY <1>2
  <1>4. PICK y \in Nat : y = k * size
    <2>1. k * size \in Nat OBVIOUS
    <2> QED BY <2>1
  <1>5. (k - 1) * size = y - size BY <1>4
  <1>6. k # 0 => k - 1 \in Nat /\ (k - 1) * size < n BY <1>1, <1>3, <1>4, <1>5
  <1>7. n <= k * size BY <1>1, <1>3, <1>4
  <1>8. k # 0
    <2>1. k = 0 => y = 0 BY <1>4
    <2> QED BY <1>4, <1>7, <2>1
  <1>9. CeilDiv(n, size) = k BY <1>1, <1>2 DEF CeilDiv
  <1> QED BY <1>6, <1>7, <1>8, <1>9

LEMMA PlanIs ==
  ASSUME NEW S, NEW items \in Seq(S), NEW size \in Nat \ {0}, NEW t \in Nat
  PROVE  IsPlan(buildBatchPlan(items, size, t), items, size, t)
  <1> DEFINE plan == buildBatchPlan(items, size, t)
             n == Len(items)
  <1>1. n \in Nat OBVIOUS
  <1>2. CASE items = <<>>
    <2> DEFINE g == [i \in 0..1 |-> 0]
    <2>1. plan = <<[items |-> <<>>, expectedTokens |-> 0]>> BY <1>2 DEF buildBatchPlan
    <2>2. Len(plan) = 1 /\ DOMAIN plan = 1..1 /\ plan[1].items = <<>> /\ plan[1].expectedTokens = 0
      BY <2>1
    <2>3. n = 0 BY <1>2
    <2> HIDE DEF plan
    <2>4. g \in [0..1 -> 0..n] /\ g[0] = 0 /\ g[1] = 0 BY <2>3
    <2> HIDE DEF g, n
    <2>5. SubSeq(items, g[0] + 1, g[1]) = <<>> BY <1>2, <2>4
    <2>6. t * 0 - t * 0 = 0 OBVIOUS
    <2>7. ASSUME NEW i \in 1..1
          PROVE  /\ g[i - 1] <= g[i] /\ g[i] - g[i - 1] <= size
                 /\ plan[i].items = SubSeq(items, g[i - 1] + 1, g[i])
                 /\ plan[i].expectedTokens = t * g[i] - t * g[i - 1]
      <3>1. i = 1 /\ i - 1 = 0 OBVIOUS
      <3>2. g[i - 1] = 0 /\ g[i] = 0 BY <2>4, <3>1
      <3>3. SubSeq(items, g[i - 1] + 1, g[i]) = <<>> BY <2>4, <2>5, <3>2
      <3>4. plan[i].items = <<>> /\ plan[i].expectedTokens = 0 BY <2>2, <3>1
      <3>5. t * g[i] - t * g[i - 1] = 0 BY <2>6, <3>2
      <3> QED BY <3>2, <3>3, <3>4, <3>5
    <2>8. Cuts(g, plan, items, size, t) BY <2>2, <2>3, <2>4, <2>7 DEF Cuts, n
    <2> QED BY <2>2, <2>4, <2>8 DEF IsPlan, plan, n
  <1>3. CASE items # <<>>
    <2> DEFINE N == CeilDiv(n, size)
               g == [i \in 0..N |-> Smaller(i * size, n)]
    <2>1. n \in Nat \ {0} BY <1>3
    <2>2. N \in Nat \ {0} /\ n <= N * size /\ (N - 1) * size < n BY <2>1, CeilDivCovers
    <2>3. plan = [i \in 1..N |-> [items |-> Chunk(items, size, i),
                                  expectedTokens |-> t * Len(Chunk(items, size, i))]]
      BY <1>3 DEF buildBatchPlan
    <2> HIDE DEF N, plan, n
    <2>4. DOMAIN plan = 1..N /\ Len(plan) = N
      <3>1. plan = [i \in 1..N |-> plan[i]] BY <2>3
      <3>2. PICK T : T = {plan[i] : i \in 1..N} OBVIOUS
      <3>3. \A i \in 1..N : plan[i] \in T BY <3>2
      <3> QED BY <2>2, <3>1, <3>3
    <2>5. ASSUME NEW i \in 0..N
          PROVE  /\ i * size \in Nat /\ g[i] = Smaller(i * size, n) /\ g[i] \in 0..n
                 /\ i # N => i * size < n /\ g[i] = i * size
      <3>1. i * size \in Nat BY <2>2
      <3>2. g[i] = Smaller(i * size, n) OBVIOUS
      <3>3. g[i] \in 0..n BY <2>1, <3>1, <3>2 DEF Smaller
      <3>4. ASSUME i # N PROVE i * size < n
        <4>1. i \in Int /\ N - 1 \in Int /\ i <= N - 1 BY <2>2, <3>4
        <4>2. PICK k \in Int : k = N - 1 BY <4>1
        <4>3. i * size <= k * size BY <4>1, <4>2, Scaling
        <4>4. k * size < n /\ k * size \in Int BY <2>2, <4>2
        <4> QED BY <2>1, <3>1, <4>3, <4>4
      <3>5. i # N => g[i] = i * size BY <2>1, <3>1, <3>2, <3>4 DEF Smaller
      <3> QED BY <3>1, <3>2, <3>3, <3>4, <3>5
    <2>6. g[0] = 0 /\ g[N] = n
      <3>1. 0 \in 0..N /\ N \in 0..N /\ 0 # N BY <2>2
      <3>2. g[0] = 0 * size BY <2>5, <3>1
      <3>3. g[N] = Smaller(N * size, n) /\ N * size \in Nat BY <2>5, <3>1
      <3>4. g[N] = n BY <2>1, <2>2, <3>3 DEF Smaller
      <3> QED BY <3>2, <3>4
    <2>7. g \in [0..N -> 0..n]
      <3>1. g = [i \in 0..N |-> g[i]] OBVIOUS
      <3> HIDE DEF g
      <3> QED BY <2>5, <3>1
    <2> HIDE DEF g
    <2>8. ASSUME NEW i \in 1..N
          PROVE  /\ g[i - 1] <= g[i] /\ g[i] - g[i - 1] <= size
                 /\ plan[i].items = SubSeq(items, g[i - 1] + 1, g[i])
                 /\ plan[i].expectedTokens = t * g[i] - t * g[i - 1]
      <3>1. i - 1 \in 0..N /\ i \in 0..N /\ i - 1 # N BY <2>2
      <3>2. g[i - 1] = (i - 1) * size /\ (i - 1) * size < n /\ g[i - 1] \in 0..n BY <2>5, <3>1
      <3>3. g[i] = Smaller(i * size, n) /\ i * size \in Nat BY <2>5, <3>1
      <3>4. PICK a \in Nat, b \in Nat : a = (i - 1) * size /\ b = i * size
        BY <2>5, <3>1
      <3>5. b = a + size BY <3>4
      <3>6. PICK c \in 0..n : c = Smaller(b, n) BY <2>1 DEF Smaller
      <3>7. a <= c /\ c - a <= size /\ a < c BY <2>1, <3>2, <3>4, <3>5, <3>6 DEF Smaller
      <3>8. Chunk(items, size, i) = SubSeq(items, a + 1, c) BY <3>4, <3>6 DEF Chunk, n
      <3>9. Len(SubSeq(items, a + 1, c)) = c - a
        <4>1. a + 1 \in Nat \ {0} /\ c \in 0..Len(items) /\ a + 1 <= c + 1
          BY <2>1, <3>6, <3>7 DEF n
        <4> QED BY <4>1
      <3>10. plan[i].items = SubSeq(items, a + 1, c) /\ plan[i].expectedTokens = t * (c - a)
        BY <2>3, <3>8, <3>9
      <3>11. t * (c - a) = t * c - t * a
        <4>1. c \in Int BY <2>1, <3>6
        <4> QED BY <4>1
      <3>12. g[i - 1] = a /\ g[i] = c BY <3>2, <3>3, <3>4, <3>6
      <3> QED BY <3>7, <3>10, <3>11, <3>12
    <2>9. Cuts(g, plan, items, size, t) BY <2>4, <2>6, <2>8 DEF Cuts, n
    <2> QED BY <2>2, <2>4, <2>7, <2>9 DEF IsPlan, plan, n
  <1> QED BY <1>2, <1>3

LEMMA ListOf ==
  ASSUME NEW T, NEW n \in Nat, NEW f, f = [i \in 1..n |-> f[i]], \A i \in 1..n : f[i] \in T
  PROVE  f \in Seq(T) /\ Len(f) = n
  OBVIOUS

(* What is between two cuts.                                                *)
LEMMA BatchIs ==
  ASSUME NEW S, NEW items \in Seq(S), NEW size \in Nat \ {0}, NEW t \in Nat,
         NEW plan, IsPlan(plan, items, size, t), NEW i \in 1..Len(plan)
  PROVE  /\ plan[i].items \in Seq(S) /\ Len(plan[i].items) \in Nat
         /\ Len(plan[i].items) <= size /\ plan[i].expectedTokens \in Nat
  <1>1. PICK g \in [0..Len(plan) -> 0..Len(items)] : Cuts(g, plan, items, size, t) BY DEF IsPlan
  <1>2. Len(plan) \in Nat \ {0} /\ Len(items) \in Nat BY DEF IsPlan
  <1>3. i - 1 \in 0..Len(plan) /\ i \in 0..Len(plan) BY <1>2
  <1>4. PICK a \in 0..Len(items), b \in 0..Len(items) : a = g[i - 1] /\ b = g[i] BY <1>3
  <1>5. /\ a <= b /\ b - a <= size /\ plan[i].items = SubSeq(items, a + 1, b)
        /\ plan[i].expectedTokens = t * b - t * a
    BY <1>1, <1>4 DEF Cuts
  <1>6. SubSeq(items, a + 1, b) \in Seq(S) /\ Len(SubSeq(items, a + 1, b)) = b - a
    BY <1>2, <1>5
  <1>7. t * b - t * a \in Nat
    <2>1. a \in Int /\ b \in Int BY <1>2
    <2>2. t * b - t * a = t * (b - a) BY <2>1
    <2>3. PICK c \in Nat : c = b - a BY <1>5, <2>1
    <2>4. t * c \in Nat OBVIOUS
    <2> QED BY <2>2, <2>3, <2>4
  <1> QED BY <1>2, <1>5, <1>6, <1>7

LEMMA Adjacent ==
  ASSUME NEW S, NEW s \in Seq(S), NEW a \in 0..Len(s), NEW b \in 0..Len(s), a <= b
  PROVE  SubSeq(s, 1, b) = SubSeq(s, 1, a) \o SubSeq(s, a + 1, b)
  <1> DEFINE u == SubSeq(s, 1, a)
             v == SubSeq(s, a + 1, b)
             w == SubSeq(s, 1, b)
             x == u \o v
  <1>1. u \in Seq(S) /\ Len(u) = a /\ \A k \in 1..a : u[k] = s[k] OBVIOUS
  <1>2. v \in Seq(S) /\ Len(v) = b - a /\ \A k \in 1..(b - a) : v[k] = s[a + k] OBVIOUS
  <1>3. w \in Seq(S) /\ Len(w) = b /\ \A k \in 1..b : w[k] = s[k] OBVIOUS
  <1>4. a \in Nat /\ b \in Nat OBVIOUS
  <1> HIDE DEF u, v, w
  <1>5. /\ x \in Seq(S) /\ Len(x) = a + (b - a)
        /\ \A k \in 1..a : x[k] = u[k]
        /\ \A k \in 1..(b - a) : x[a + k] = v[k]
    <2>1. PICK c \in Nat : c = b - a BY <1>4
    <2>2. u \in Seq(S) /\ v \in Seq(S) /\ Len(u) = a /\ Len(v) = c BY <1>1, <1>2, <2>1
    <2>3. x \in Seq(S) /\ Len(x) = a + c BY <2>2
    <2>4. \A k \in 1..a : x[k] = u[k] BY <1>4, <2>2
    <2>5. \A k \in 1..c : x[a + k] = v[k] BY <1>4, <2>2
    <2> QED BY <2>1, <2>3, <2>4, <2>5
  <1> HIDE DEF x
  <1>6. ASSUME NEW k \in 1..b PROVE x[k] = w[k]
    <2>1. CASE k \in 1..a BY <1>1, <1>3, <1>5, <2>1
    <2>2. CASE k \notin 1..a
      <3>1. PICK j \in 1..(b - a) : k = a + j
        <4>1. k - a \in 1..(b - a) /\ k = a + (k - a) BY <1>4, <2>2
        <4> QED BY <4>1
      <3> QED BY <1>2, <1>3, <1>5, <3>1
    <2> QED BY <2>1, <2>2
  <1>7. Len(x) = b BY <1>4, <1>5
  <1>8. x = w BY <1>3, <1>5, <1>6, <1>7
  <1> QED BY <1>8 DEF u, v, w, x

(* Put together, the batches are the items.                                 *)
BatchesOf(plan) == [i \in 1..Len(plan) |-> plan[i].items]

LEMMA PlanCovers ==
  ASSUME NEW S, NEW items \in Seq(S), NEW size \in Nat \ {0}, NEW t \in Nat,
         NEW plan, IsPlan(plan, items, size, t), NEW batches,
         batches = BatchesOf(plan)
  PROVE  FlattenSeq(batches) = items
  <1> DEFINE N == Len(plan)
             n == Len(items)
  <1>1. PICK g \in [0..N -> 0..n] : Cuts(g, plan, items, size, t) BY DEF IsPlan
  <1>2. N \in Nat \ {0} /\ n \in Nat BY DEF IsPlan
  <1>3. \A i \in 1..N : batches[i] \in Seq(S) /\ batches[i] = plan[i].items
    BY BatchIs DEF BatchesOf
  <1> DEFINE f == [i \in 1..N |-> SubSeq(items, 1, g[i])]
  <1>4. batches \in Seq(Seq(S)) /\ Len(batches) = N
    <2>1. batches = [i \in 1..N |-> batches[i]] BY DEF BatchesOf
    <2>2. PICK T : T = Seq(S) OBVIOUS
    <2>3. \A i \in 1..N : batches[i] \in T BY <1>3, <2>2
    <2>4. PICK m \in Nat : m = N BY <1>2
    <2> HIDE DEF N
    <2>5. batches = [i \in 1..m |-> batches[i]] /\ \A i \in 1..m : batches[i] \in T
      BY <2>1, <2>3, <2>4
    <2>6. batches \in Seq(T) /\ Len(batches) = m
      <3> HIDE <2>2, <2>4
      <3> QED BY <2>5
    <2> QED BY <2>2, <2>4, <2>6
  <1> HIDE DEF N, n
  <1>5. ASSUME NEW i \in 1..N
        PROVE  /\ g[i] \in 0..n /\ SubSeq(items, 1, g[i]) \in Seq(S)
               /\ SubSeq(items, 1, g[i]) = IF i = 1 THEN batches[i]
                                           ELSE SubSeq(items, 1, g[i - 1]) \o batches[i]
    <2>1. i - 1 \in 0..N /\ i \in 0..N BY <1>2
    <2>2. PICK a \in 0..n, b \in 0..n : a = g[i - 1] /\ b = g[i] BY <2>1
    <2>3. a <= b /\ batches[i] = SubSeq(items, a + 1, b) /\ (i = 1 => a = 0)
      <3>1. a <= b /\ plan[i].items = SubSeq(items, a + 1, b) BY <1>1, <2>2 DEF Cuts, N
      <3>2. i = 1 => a = g[0] BY <2>2
      <3>3. g[0] = 0 BY <1>1 DEF Cuts
      <3> QED BY <1>3, <3>1, <3>2, <3>3
    <2>4. SubSeq(items, 1, b) \in Seq(S) BY <1>2, <2>2 DEF n
    <2>5. SubSeq(items, 1, b) = SubSeq(items, 1, a) \o SubSeq(items, a + 1, b)
      BY <1>2, <2>3, Adjacent DEF n
    <2>6. a = 0 => SubSeq(items, 1, b) = SubSeq(items, a + 1, b) BY <1>2
    <2> QED BY <2>2, <2>3, <2>4, <2>5, <2>6
  <1>6. f \in [1..N -> Seq(S)] BY <1>5
  <1>7. ASSUME NEW i \in 1..N PROVE f[i] = IF i = 1 THEN batches[i] ELSE f[i - 1] \o batches[i]
    <2>1. i # 1 => i - 1 \in 1..N BY <1>2
    <2> QED BY <1>5, <2>1
  <1>8. f[N] = items
    <2>1. N \in 1..N /\ g[N] = n BY <1>1, <1>2 DEF Cuts, N, n
    <2>2. SubSeq(items, 1, n) = items BY DEF n
    <2> QED BY <2>1, <2>2
  <1> HIDE DEF f
  <1>9. Flattens(f, batches, Len(batches)) BY <1>4, <1>7 DEF Flattens
  <1>10. batches # <<>> BY <1>2, <1>4
  <1>11. FlattenSeq(batches) = f[Len(batches)]
    <2>1. f \in [1..Len(batches) -> Seq(S)] BY <1>4, <1>6
    <2> QED BY <1>4, <1>9, <1>10, <2>1, FlattenIs
  <1> QED BY <1>4, <1>8, <1>11

-----------------------------------------------------------------------------
(* The numbers a process writes.                                            *)

LEMMA RatioIs ==
  ASSUME NEW p \in Provider, NEW size \in Nat
  PROVE  ContextRatio(p, size) \in Fractions
  <1>1. Profile[p].tokensPerItem \in Nat \ {0} /\ Profile[p].contextWindow \in Nat \ {0}
    BY ProfileAssumption
  <1>2. Profile[p].tokensPerItem * size \in Int BY <1>1
  <1> QED BY <1>1, <1>2 DEF ContextRatio, Over, Fractions

LEMMA AccuracyIs ==
  ASSUME NEW predicted \in Nat, NEW actual \in Nat
  PROVE  computeAccuracy(predicted, actual) \in Int /\ computeAccuracy(predicted, actual) <= 100
  <1>1. CASE predicted = 0 BY <1>1 DEF computeAccuracy
  <1>2. CASE predicted # 0
    <2>1. PICK x \in Nat : x = 100 * Distance(actual, predicted) BY DEF Distance
    <2>2. PICK y \in Nat : y = x \div predicted
      <3>1. x \div predicted \in Nat BY <1>2
      <3> QED BY <3>1
    <2>3. computeAccuracy(predicted, actual) = 100 - y
      BY <1>2, <2>1, <2>2 DEF computeAccuracy
    <2> QED BY <2>2, <2>3
  <1> QED BY <1>1, <1>2

LEMMA DeterministicIs ==
  ASSUME NEW answer, NEW S, answer.claims \in Seq(S), NEW hasFigures
  PROVE  scoreDeterministic(answer, hasFigures) \in Fractions
  <1> DEFINE n == Len(answer.claims)
             G == {k \in 1..n : answer.claims[k].grounded}
             grounded == Cardinality(G)
             present == IF n > 0 \/ ~hasFigures THEN 25 ELSE 0
             ends == IF answer.truncated THEN 0 ELSE 15
  <1>1. n \in Nat OBVIOUS
  <1>2. G \subseteq 1..n /\ IsFiniteSet(1..n) BY <1>1, FS_Interval
  <1> HIDE DEF G
  <1>a. IsFiniteSet(G) BY <1>2, FS_Subset
  <1>b. grounded \in Nat BY <1>a, FS_CardinalityType
  <1>3. grounded \in Int BY <1>b
  <1>4. present \in Int /\ ends \in Int OBVIOUS
  <1>5. scoreDeterministic(answer, hasFigures)
          = IF n = 0 THEN Over(present + ends + 60, 1)
            ELSE Over((present + ends + 30) * n + 30 * grounded, n)
    BY DEF scoreDeterministic, G
  <1> HIDE DEF grounded, present, ends, n
  <1>6. present + ends + 60 \in Int /\ (present + ends + 30) * n + 30 * grounded \in Int
    BY <1>1, <1>3, <1>4
  <1> QED BY <1>1, <1>5, <1>6 DEF Over, Fractions

LEMMA ConsistencyIs ==
  ASSUME NEW answers, NEW i, NEW S, NEW claims \in Seq(S)
  PROVE  scoreConsistency(answers, i, claims) \in Fractions
  <1> DEFINE C == Comparable(answers, i, claims)
             D == Contradicted(answers, i, claims)
  <1>1. DOMAIN claims = 1..Len(claims) /\ Len(claims) \in Nat OBVIOUS
  <1>2. IsFiniteSet(DOMAIN claims) BY <1>1, FS_Interval
  <1>3. C \subseteq DOMAIN claims /\ D \subseteq DOMAIN claims BY DEF Comparable, Contradicted
  <1>4. scoreConsistency(answers, i, claims)
          = IF Cardinality(C) = 0 THEN Over(1, 1)
            ELSE Over(Cardinality(C) - Cardinality(D), Cardinality(C))
    BY DEF scoreConsistency
  <1> HIDE DEF C, D
  <1>5. Cardinality(C) \in Nat /\ Cardinality(D) \in Nat
    BY <1>2, <1>3, FS_Subset, FS_CardinalityType
  <1> QED BY <1>4, <1>5 DEF Over, Fractions

LEMMA BatchScoreIs ==
  ASSUME NEW answers, NEW i, answers[i] # {}, NEW hasFigures,
         \A a \in answers[i] : a.claims \in Seq(ToSet(a.claims))
  PROVE  scoreBatch(answers, i, hasFigures) \in Fractions
  <1> DEFINE answer == CHOOSE a \in answers[i] : TRUE
             det == scoreDeterministic(answer, hasFigures)
             cons == scoreConsistency(answers, i, answer.claims)
  <1>1. answer \in answers[i] OBVIOUS
  <1> HIDE DEF answer
  <1>2. answer.claims \in Seq(ToSet(answer.claims)) BY <1>1
  <1>3. det \in Fractions BY <1>2, DeterministicIs
  <1>4. cons \in Fractions BY <1>2, ConsistencyIs
  <1>5. scoreBatch(answers, i, hasFigures)
          = Over(7 * det.num * cons.den + 1300 * cons.num * det.den, 20 * det.den * cons.den)
    BY DEF scoreBatch, answer
  <1> HIDE DEF det, cons
  <1>6. PICK a \in Int, c \in Int : a = det.num /\ c = cons.num BY <1>3, <1>4 DEF Fractions
  <1>7. PICK b \in Nat \ {0}, d \in Nat \ {0} : b = det.den /\ d = cons.den
    BY <1>3, <1>4 DEF Fractions
  <1>8. 7 * a * d + 1300 * c * b \in Int OBVIOUS
  <1>9. 20 * b * d \in Nat \ {0}
    <2>1. PICK x \in Nat \ {0} : x = b * d
      <3>1. b * d \in Nat \ {0} OBVIOUS
      <3> QED BY <3>1
    <2> QED BY <2>1
  <1>10. scoreBatch(answers, i, hasFigures) = [num |-> 7 * a * d + 1300 * c * b, den |-> 20 * b * d]
    BY <1>5, <1>6, <1>7 DEF Over
  <1> QED BY <1>8, <1>9, <1>10 DEF Fractions

(* What a workload keeps of two values is in the order of the values.       *)
LEMMA AdjustedIs ==
  ASSUME NEW a \in Fractions, NEW b \in Fractions, NEW workload, ~Exceeds(a, b)
  PROVE  ~Exceeds(Adjusted(a, workload), Adjusted(b, workload))
  <1>1. PICK m \in Nat \ {0} : m = Multiplier(workload) BY DEF Multiplier
  <1>2. PICK x \in Int, y \in Int : x = a.num /\ y = b.num BY DEF Fractions
  <1>3. PICK c \in Nat \ {0}, d \in Nat \ {0} : c = a.den /\ d = b.den BY DEF Fractions
  <1>4. PICK u \in Int, v \in Int : u = x * d /\ v = y * c OBVIOUS
  <1>5. u <= v BY <1>2, <1>3, <1>4 DEF Exceeds
  <1>6. PICK k \in Nat \ {0} : k = m * 20 OBVIOUS
  <1>7. u * k <= v * k BY <1>5, Scaling
  <1>8. (x * m) * (d * 20) = u * k /\ (y * m) * (c * 20) = v * k BY <1>4, <1>6
  <1>9. Adjusted(a, workload) = [num |-> x * m, den |-> c * 20]
        /\ Adjusted(b, workload) = [num |-> y * m, den |-> d * 20]
    BY <1>1, <1>2, <1>3 DEF Adjusted, Over
  <1>10. PICK p \in Int, q \in Int : p = u * k /\ q = v * k OBVIOUS
  <1>11. ~(p > q) BY <1>7, <1>10
  <1> QED BY <1>8, <1>9, <1>10, <1>11 DEF Exceeds

(* The plan of a route.                                                     *)
LEMMA RoutePlanIs ==
  ASSUME NEW task \in Tasks, NEW route, IsRoute(route, task)
  PROVE  \E p \in Provider : \E size \in 1..Profile[p].maxBatchSize :
           /\ route.provider = {p} /\ size \in Nat \ {0}
           /\ IsPlan(route.batchPlan, task.items, size, Profile[p].tokensPerItem)
  <1>a. PICK p \in Provider : \E size \in 1..Profile[p].maxBatchSize :
          /\ route.provider = {p}
          /\ route.batchPlan = buildBatchPlan(task.items, size, Profile[p].tokensPerItem)
    BY DEF IsRoute
  <1>1. PICK size \in 1..Profile[p].maxBatchSize :
          /\ route.provider = {p}
          /\ route.batchPlan = buildBatchPlan(task.items, size, Profile[p].tokensPerItem)
    BY <1>a
  <1>2. Profile[p].tokensPerItem \in Nat /\ Profile[p].maxBatchSize \in Nat BY ProfileIs
  <1>3. task.items \in Seq(ToSet(task.items)) BY TaskIs
  <1>4. size \in Nat \ {0} BY <1>2
  <1>5. IsPlan(route.batchPlan, task.items, size, Profile[p].tokensPerItem)
    BY <1>1, <1>2, <1>3, <1>4, PlanIs
  <1> QED BY <1>1, <1>4, <1>5

-----------------------------------------------------------------------------
(* The second invariant: what the ledger says and what is in hand are what  *)
(* the code put there.                                                      *)

Priors(w, i, E) ==
  LET p == ProviderOf(w)
      bucket == bucketForContextRatio(ContextRatio(p, Larger(1, Size(w, i))))
  IN  {Profile[p].quality[bucket]}
        \cup {e.score : e \in {x \in E : /\ x.type = "batch-quality-scored"
                                         /\ x.provider = p /\ x.task # w.id}}

Foretold(w, E) ==
  \A i \in DOMAIN w.forecast :
    /\ \E q \in Priors(w, i, E) : ~Exceeds(Adjusted(q, w.task.workload), w.forecast[i])
    /\ \E q \in Priors(w, i, E) : ~Exceeds(w.forecast[i], Adjusted(q, w.task.workload))

HasClaims(result) == \A a \in result.parsed : a.claims \in Seq(ToSet(a.claims))

(* The results so far are those of the first batches of the plan.           *)
Underway(w) ==
  /\ IsRoute(w.route, w.task)
  /\ Len(w.results) <= Len(w.route.batchPlan)
  /\ \A i \in 1..Len(w.results) : /\ w.results[i].items = w.route.batchPlan[i].items
                                  /\ w.results[i].tokens \in Nat /\ HasClaims(w.results[i])
  /\ w.forecast # <<>> => Executed(w)
  /\ ByRun(w) /\ w.forecast = <<>> => w.scored = 0

OnTask(w, E) ==
  /\ w.task \in Tasks
  /\ w.stage = "executing" => Underway(w) /\ Foretold(w, E)

Informed ==
  /\ day \in Nat
  /\ \A e \in Written : WellFormed(e, day)
  /\ ShortcutsWereEarned(Written)
  /\ IsInjective(events)
  /\ \A d \in Process : work[d] # Idle => OnTask(work[d], Written)

LEMMA OnTaskGrows ==
  ASSUME NEW E, NEW F, E \subseteq F, NEW w, OnTask(w, E)
  PROVE  OnTask(w, F)
  <1>1. \A i : Priors(w, i, E) \subseteq Priors(w, i, F) BY DEF Priors
  <1>2. Foretold(w, E) => Foretold(w, F) BY <1>1 DEF Foretold
  <1> QED BY <1>2 DEF OnTask

LEMMA EventsKnown ==
  ASSUME LedgerInv, Informed
  PROVE  /\ Numbers(events, day) /\ events \in Seq(Written)
         /\ \A i \in DOMAIN events : events[i] \in Written /\ WellFormed(events[i], day)
  <1>1. events \in Seq(Written) BY ReadEventsIs DEF LedgerInv, events
  <1>2. PICK known : known = events OBVIOUS
  <1>3. \A i \in DOMAIN known : known[i] \in Written BY <1>1, <1>2
  <1>4. known \in Seq(ToSet(known)) BY <1>1, <1>2 DEF ToSet
  <1> QED BY <1>1, <1>2, <1>3, <1>4 DEF Numbers, Informed

LEMMA HandKnown ==
  ASSUME Informed, NEW d \in Process, NEW w \in InHand(d)
  PROVE  OnTask(w, Written)
  <1>1. CASE work[d].stage = "idle"
    <2>1. PICK task \in Tasks : w = [stage |-> "predicting", id |-> taken + 1, task |-> task,
                                     predictions |-> <<>>]
      BY <1>1 DEF InHand
    <2> QED BY <2>1 DEF OnTask
  <1>2. CASE work[d].stage # "idle"
    <2>1. w = work[d] /\ work[d] # Idle BY <1>2, StageOf DEF InHand
    <2> QED BY <2>1 DEF Informed
  <1> QED BY <1>1, <1>2

(* No event of a ledger without duplicates is doubled by a write of a new   *)
(* one.                                                                     *)
LEMMA StaysInjective ==
  ASSUME NEW S, NEW s \in Seq(S), NEW t \in Seq(S), NEW e, NEW E, e \notin E,
         s \in Seq(E), IsInjective(s),
         \/ t = s
         \/ t = Append(s, e)
         \/ \E x \in S : s = Append(t, x)
  PROVE  IsInjective(t)
  <1>1. CASE t = s BY <1>1
  <1>2. CASE t = Append(s, e)
    <2> DEFINE n == Len(s)
    <2>1. /\ n \in Nat /\ DOMAIN s = 1..n /\ DOMAIN t = 1..(n + 1) /\ t[n + 1] = e
          /\ \A k \in 1..n : t[k] = s[k] /\ s[k] # e
      BY <1>2
    <2> HIDE DEF n
    <2>2. ASSUME NEW i \in 1..(n + 1), NEW j \in 1..(n + 1), t[i] = t[j] PROVE i = j
      <3>1. i = n + 1 \/ i \in 1..n BY <2>1
      <3>2. j = n + 1 \/ j \in 1..n BY <2>1
      <3> QED BY <2>1, <2>2, <3>1, <3>2 DEF IsInjective
    <2> QED BY <2>1, <2>2 DEF IsInjective
  <1>3. CASE \E x \in S : s = Append(t, x)
    <2>1. PICK x \in S : s = Append(t, x) BY <1>3
    <2>2. \A i \in DOMAIN t : i \in DOMAIN s /\ s[i] = t[i] BY <2>1
    <2> QED BY <2>2 DEF IsInjective
  <1> QED BY <1>1, <1>2, <1>3

(* A route an event records was earned, unless step 1 did not approve it.   *)
EarnedIn(e, E) ==
  e.type = "task-routed" /\ e.gate = "step-1-high-reputation-shortcut" =>
    \E x \in E : x.type = "reputation-updated" /\ {x.agent} = e.agent /\ x.accuracy > 90

LEMMA ReadsAfterWrite ==
  ASSUME LedgerInv, NEW e, Writes(e)
  PROVE  /\ events \in Seq(Written') /\ events' \in Seq(Written')
         /\ \/ events' = events
            \/ events' = Append(events, e)
            \/ \E x \in Written' : events = Append(events', x)
  <1>1. /\ file \in FilesOf(Written') /\ e \in Written'
        /\ file' \in {appendEvent(file, e)} \cup TornAppends(file, e)
    BY WrittenGrows
  <1>2. events = readEvents(file) /\ events' = readEvents(file') BY DEF events
  <1> QED BY <1>1, <1>2, WriteReads

LEMMA InformedAppend ==
  ASSUME WorkInv, LedgerInv, Informed, NEW d \in Process, NEW e, NEW next,
         Writes(e), e \notin Written, day' = day, WellFormed(e, day), EarnedIn(e, Written),
         work' \in {[work EXCEPT ![d] = next], [work EXCEPT ![d] = Idle]},
         next = Idle \/ OnTask(next, Written)
  PROVE  Informed'
  <1>1. Written' = Written \cup {e} BY WrittenGrows
  <1>2. \A x \in Written' : WellFormed(x, day') BY <1>1 DEF Informed
  <1>3. ShortcutsWereEarned(Written')
    <2>1. ASSUME NEW route \in Written', route.type = "task-routed",
                 route.gate = "step-1-high-reputation-shortcut"
          PROVE  \E x \in Written : x.type = "reputation-updated" /\ {x.agent} = route.agent
                                    /\ x.accuracy > 90
      <3>1. CASE route = e BY <2>1, <3>1 DEF EarnedIn
      <3>2. CASE route \in Written BY <2>1, <3>2 DEF Informed, ShortcutsWereEarned
      <3> QED BY <1>1, <3>1, <3>2
    <2> QED BY <1>1, <2>1 DEF ShortcutsWereEarned
  <1>4. IsInjective(events')
    <2>1. events \in Seq(Written) /\ IsInjective(events) BY EventsKnown DEF Informed
    <2>2. /\ events \in Seq(Written') /\ events' \in Seq(Written')
          /\ \/ events' = events
             \/ events' = Append(events, e)
             \/ \E x \in Written' : events = Append(events', x)
      BY ReadsAfterWrite
    <2> QED BY <2>1, <2>2, StaysInjective
  <1>5. ASSUME NEW c \in Process, work'[c] # Idle PROVE OnTask(work'[c], Written')
    <2>1. work'[c] \in {work[c], next, Idle} BY DEF WorkInv
    <2> HIDE DEF Idle
    <2>2. OnTask(work'[c], Written)
      <3>1. CASE c = d
        <4>1. work'[c] \in {next, Idle} BY <3>1 DEF WorkInv
        <4> QED BY <1>5, <4>1
      <3>2. CASE c # d
        <4>1. work'[c] = work[c] BY <3>2 DEF WorkInv
        <4> QED BY <1>5, <4>1 DEF Informed
      <3> QED BY <3>1, <3>2
    <2> QED BY <1>1, <2>2, OnTaskGrows
  <1> QED BY <1>2, <1>3, <1>4, <1>5 DEF Informed

(* A step that appends.                                                     *)
LEMMA InformedStep ==
  ASSUME Sound, Informed, NEW d \in Process, NEW w \in InHand(d), NEW e, NEW next,
         Appends(d, e, next), day' = day, e.task = w.id, ~Behind(e, w),
         WellFormed(e, day), EarnedIn(e, Written), next = Idle \/ OnTask(next, Written)
  PROVE  Informed'
  <1>1. WorkInv /\ FreshInv /\ LedgerInv BY DEF Sound
  <1>2. Writes(e) /\ work' \in {[work EXCEPT ![d] = next], [work EXCEPT ![d] = Idle]}
    BY DEF Appends, Records, DiesRecording, Writes
  <1>3. e \notin Written
    <2>1. SUFFICES ASSUME e \in Written PROVE FALSE OBVIOUS
    <2>2. taken \in Nat BY <1>1 DEF WorkInv
    <2>3. e.task \in 0..taken /\ (work[d] # Idle /\ work[d].id = e.task => Behind(e, work[d]))
      BY <1>1, <2>1 DEF FreshInv
    <2> HIDE DEF Behind, Idle
    <2> QED BY <1>1, <2>2, <2>3, InHandIs
  <1> QED BY <1>1, <1>2, <1>3, InformedAppend

LEMMA RecordPredictionInformed ==
  ASSUME Sound, Informed, NEW d \in Process, RecordPrediction(d)
  PROVE  Informed'
  <1>1. PICK w \in InHand(d), all \in Prediction :
          /\ w.stage = "predicting" /\ IsStrictPrefix(w.predictions, all)
          /\ Appends(d, [type |-> "prediction-recorded", task |-> w.id,
                         predictionId |-> Len(w.predictions) + 1,
                         agent |-> all[Len(w.predictions) + 1].agent,
                         predictedTokens |-> all[Len(w.predictions) + 1].predictedTokens],
                     [w EXCEPT !.predictions = Append(@, all[Len(w.predictions) + 1])])
    BY DEF RecordPrediction
  <1> DEFINE n == Len(w.predictions) + 1
             e == [type |-> "prediction-recorded", task |-> w.id, predictionId |-> n,
                   agent |-> all[n].agent, predictedTokens |-> all[n].predictedTokens]
             next == [w EXCEPT !.predictions = Append(@, all[n])]
  <1>2. IsPredicting(w) BY <1>1, InHandIs, StageOf DEF IsWork, Sound
  <1>3. w.predictions \in Seq(Submission) /\ Len(w.predictions) \in Nat BY <1>2 DEF IsPredicting
  <1>4. all[n].predictedTokens \in Nat
    <2>1. all \in Seq(ToSet(all)) BY DispatchAssumptions
    <2>2. Len(all) # Len(w.predictions)
      <3>1. SubSeq(w.predictions, 1, Len(w.predictions)) = w.predictions BY <1>3
      <3>2. SubSeq(all, 1, Len(all)) = all BY <2>1
      <3> QED BY <1>1, <3>1, <3>2 DEF IsStrictPrefix, IsPrefix
    <2>3. Len(w.predictions) <= Len(all) BY <1>1 DEF IsStrictPrefix, IsPrefix
    <2>4. n \in DOMAIN all BY <1>3, <2>1, <2>2, <2>3
    <2>5. all[n] \in ToSet(all) BY <2>4 DEF ToSet
    <2> QED BY <2>5, DispatchAssumptions
  <1>5. next.task = w.task /\ next.stage = "predicting" BY <1>1, <1>2 DEF IsPredicting
  <1>6. OnTask(next, Written) BY <1>5, HandKnown DEF OnTask
  <1>7. Appends(d, e, next) /\ day' = day BY <1>1 DEF RecordPrediction
  <1>8. e.type = "prediction-recorded" /\ e.task = w.id /\ e.predictionId = n
        /\ e.predictedTokens \in Nat
    BY <1>4
  <1>9. n \notin 1..Len(w.predictions) BY <1>3
  <1> HIDE DEF n, e, next
  <1>10. ~Behind(e, w) BY <1>1, <1>8, <1>9 DEF Behind
  <1>11. WellFormed(e, day) BY <1>8 DEF WellFormed, IsUsage
  <1>12. EarnedIn(e, Written) BY <1>8 DEF EarnedIn
  <1> QED BY <1>6, <1>7, <1>8, <1>10, <1>11, <1>12, InformedStep

(* What a decision of either kind is, when it reads this ledger.            *)
LEMMA RouteDecided ==
  ASSUME Sound, Informed, NEW w, IsPredicting(w), w.task \in Tasks, NEW route,
         route = Decision(w.task, w.predictions) \/ route = RankedOverride(w.task)
  PROVE  /\ route.approved => IsRoute(route, w.task)
         /\ route.gate = "step-1-high-reputation-shortcut" =>
              \E x \in Written : /\ x.type = "reputation-updated"
                                 /\ {x.agent} = route.agent /\ x.accuracy > 90
         /\ Affordable(route, w.task, [p \in Provider |-> remaining(p)])
  <1>1. PICK known : known = events OBVIOUS
  <1>2. Numbers(known, day) /\ \A i \in DOMAIN known : known[i] \in Written
    BY <1>1, EventsKnown DEF Sound
  <1>3. PICK left : left = [p \in Provider |-> remaining(p)] OBVIOUS
  <1>4. PICK task \in Tasks : task = w.task OBVIOUS
  <1>5. PICK predictions \in Seq(Submission) : predictions = w.predictions BY DEF IsPredicting
  <1>6. /\ route.approved => IsRoute(route, task)
        /\ Earned(route, known) /\ Affordable(route, task, left)
    <2>1. CASE route = Decision(w.task, w.predictions)
      <3>1. route = decideRoute(task,
                      [i \in DOMAIN predictions |-> evaluateAgentPrediction(predictions[i], known)],
                      left)
        BY <1>1, <1>3, <1>4, <1>5, <2>1 DEF Decision
      <3> QED BY <1>2, <3>1, DecisionIs
    <2>2. CASE route = RankedOverride(w.task)
      <3>1. route = buildOverrideDecision(task, Head(rankProviders(task, known)))
        BY <1>1, <1>4, <2>2 DEF RankedOverride
      <3> QED BY <1>2, <3>1, OverrideIs
    <2> QED BY <2>1, <2>2
  <1> QED BY <1>2, <1>3, <1>4, <1>6 DEF Earned

Enters(w, route) ==
  [stage |-> "executing", id |-> w.id, task |-> w.task, predictions |-> w.predictions,
   route |-> route, results |-> <<>>, forecast |-> <<>>, scored |-> 0,
   settled |-> 0, traced |-> FALSE]

RouteEvent(w, route) ==
  [type |-> "task-routed", task |-> w.id, provider |-> route.provider,
   gate |-> route.gate, agent |-> route.agent]

LEMMA RouteIs ==
  ASSUME Sound, Informed, NEW d \in Process, Route(d)
  PROVE  \E w \in InHand(d) : \E route :
           /\ IsPredicting(w) /\ w.task \in Tasks
           /\ route = Decision(w.task, w.predictions) \/ route = RankedOverride(w.task)
           /\ Appends(d, RouteEvent(w, route), IF route.approved THEN Enters(w, route) ELSE Idle)
  <1> DEFINE Routes(w, route) ==
               /\ w.stage = "predicting"
               /\ route = Decision(w.task, w.predictions) \/ route = RankedOverride(w.task)
               /\ Appends(d, RouteEvent(w, route), IF route.approved THEN Enters(w, route) ELSE Idle)
  <1>a. PICK w \in InHand(d) : \E route : Routes(w, route) BY DEF Route, RouteEvent, Enters
  <1>1. PICK route : Routes(w, route) BY <1>a
  <1>2. IsPredicting(w) BY <1>1, InHandIs, StageOf DEF IsWork, Sound
  <1>3. w.task \in Tasks BY HandKnown DEF OnTask
  <1> QED BY <1>1, <1>2, <1>3

LEMMA RouteInformed ==
  ASSUME Sound, Informed, NEW d \in Process, Route(d)
  PROVE  Informed'
  <1>a. PICK w \in InHand(d) : \E route :
          /\ IsPredicting(w) /\ w.task \in Tasks
          /\ route = Decision(w.task, w.predictions) \/ route = RankedOverride(w.task)
          /\ Appends(d, RouteEvent(w, route), IF route.approved THEN Enters(w, route) ELSE Idle)
    BY RouteIs
  <1>1. PICK route :
          /\ IsPredicting(w) /\ w.task \in Tasks
          /\ route = Decision(w.task, w.predictions) \/ route = RankedOverride(w.task)
          /\ Appends(d, RouteEvent(w, route), IF route.approved THEN Enters(w, route) ELSE Idle)
    BY <1>a
  <1>2. /\ route.approved => IsRoute(route, w.task)
        /\ route.gate = "step-1-high-reputation-shortcut" =>
             \E x \in Written : /\ x.type = "reputation-updated"
                                /\ {x.agent} = route.agent /\ x.accuracy > 90
    BY <1>1, RouteDecided
  <1> DEFINE e == RouteEvent(w, route)
             x == Enters(w, route)
             next == IF route.approved THEN x ELSE Idle
  <1>3. e.type = "task-routed" /\ e.task = w.id /\ e.gate = route.gate /\ e.agent = route.agent
    BY DEF RouteEvent
  <1>4. /\ x.task = w.task /\ x.route = route /\ x.results = <<>> /\ x.forecast = <<>>
        /\ x.scored = 0
    BY DEF Enters
  <1>5. next = Idle \/ OnTask(next, Written)
    <2>1. CASE ~route.approved BY <2>1
    <2>2. CASE route.approved
      <3>1. Len(route.batchPlan) \in Nat
        BY <1>1, <1>2, <2>2, RoutePlanIs DEF IsPlan
      <3>2. Len(x.results) = 0 /\ DOMAIN x.forecast = {} BY <1>4
      <3> HIDE DEF x
      <3>3. Underway(x) BY <1>2, <1>4, <2>2, <3>1, <3>2 DEF Underway
      <3>4. Foretold(x, Written) BY <3>2 DEF Foretold
      <3>5. OnTask(x, Written) BY <1>1, <1>4, <3>3, <3>4 DEF OnTask
      <3> QED BY <2>2, <3>5
    <2> QED BY <2>1, <2>2
  <1>6. Appends(d, e, next) /\ day' = day BY <1>1 DEF Route
  <1>7. w.stage = "predicting" BY <1>1, StageOf
  <1> HIDE DEF e, x, next
  <1>8. ~Behind(e, w) BY <1>3, <1>7 DEF Behind
  <1>9. WellFormed(e, day) BY <1>3 DEF WellFormed, IsUsage
  <1>10. EarnedIn(e, Written) BY <1>2, <1>3 DEF EarnedIn
  <1> QED BY <1>3, <1>5, <1>6, <1>8, <1>9, <1>10, InformedStep

(* What is executed, and by whom.                                           *)
LEMMA ExecutionIs ==
  ASSUME NEW w, IsExecuting(w), w.task \in Tasks, IsRoute(w.route, w.task)
  PROVE  /\ ProviderOf(w) \in Provider /\ w.route.provider = {ProviderOf(w)}
         /\ Len(w.route.batchPlan) \in Nat /\ Len(w.results) \in Nat
         /\ DOMAIN w.results = 1..Len(w.results)
         /\ \A i \in 1..Len(w.route.batchPlan) :
              /\ Len(w.route.batchPlan[i].items) \in Nat
              /\ Len(w.route.batchPlan[i].items) <= Profile[ProviderOf(w)].maxBatchSize
              /\ w.route.batchPlan[i].expectedTokens \in Nat
  <1> DEFINE plan == w.route.batchPlan
             items == w.task.items
  <1>a. PICK p \in Provider : \E size \in 1..Profile[p].maxBatchSize :
          /\ w.route.provider = {p} /\ size \in Nat \ {0}
          /\ IsPlan(plan, items, size, Profile[p].tokensPerItem)
    BY RoutePlanIs
  <1>1. PICK size \in 1..Profile[p].maxBatchSize :
          /\ w.route.provider = {p} /\ size \in Nat \ {0}
          /\ IsPlan(plan, items, size, Profile[p].tokensPerItem)
    BY <1>a
  <1>2. ProviderOf(w) = p BY <1>1 DEF ProviderOf
  <1>3. Profile[p].tokensPerItem \in Nat /\ Profile[p].maxBatchSize \in Nat BY ProfileIs
  <1>4. items \in Seq(ToSet(items)) BY TaskIs
  <1>5. Len(plan) \in Nat BY <1>1 DEF IsPlan
  <1>6. PICK S : w.results \in Seq(S) BY DEF IsExecuting
  <1>7. Len(w.results) \in Nat /\ DOMAIN w.results = 1..Len(w.results) BY <1>6
  <1>8. ASSUME NEW i \in 1..Len(plan)
        PROVE  /\ Len(plan[i].items) \in Nat /\ Len(plan[i].items) <= Profile[p].maxBatchSize
               /\ plan[i].expectedTokens \in Nat
    <2>1. Len(plan[i].items) \in Nat /\ Len(plan[i].items) <= size
          /\ plan[i].expectedTokens \in Nat
      BY <1>1, <1>3, <1>4, BatchIs
    <2> QED BY <1>1, <1>3, <2>1
  <1> QED BY <1>1, <1>2, <1>5, <1>7, <1>8

LEMMA ExecutingKnown ==
  ASSUME Sound, Informed, NEW d \in Process, work[d].stage = "executing"
  PROVE  /\ work[d] \in InHand(d) /\ IsExecuting(work[d]) /\ work[d] # Idle
         /\ work[d].task \in Tasks /\ Underway(work[d]) /\ Foretold(work[d], Written)
  <1>1. work[d] \in InHand(d) /\ IsExecuting(work[d]) /\ work[d] # Idle
    BY ExecutesInHand DEF Sound
  <1>2. OnTask(work[d], Written) BY <1>1 DEF Informed
  <1> QED BY <1>1, <1>2 DEF OnTask

LEMMA OnceFinishedIs ==
  ASSUME NEW x, NEW E, OnTask(x, E)
  PROVE  OnceFinished(x) = Idle \/ OnTask(OnceFinished(x), E)
  BY DEF OnceFinished

(* A batch, its outcome, and the event that records it.                     *)
Executes(d, type, tokens, parsed) ==
  LET w == work[d]
      batch == w.route.batchPlan[Len(w.results) + 1]
  IN  Appends(d, [type |-> type, task |-> w.id, provider |-> ProviderOf(w),
                  batchIndex |-> Len(w.results), actualTokens |-> tokens, day |-> day],
              OnceFinished([w EXCEPT !.results =
                Append(@, [tokens |-> tokens, items |-> batch.items, parsed |-> parsed])]))

LEMMA ExecuteIs ==
  ASSUME Sound, Informed, NEW d \in Process, ExecuteBatch(d)
  PROVE  LET w == work[d]
             batch == w.route.batchPlan[Len(w.results) + 1]
         IN  /\ w.stage = "executing" /\ Len(w.results) + 1 \in 1..Len(w.route.batchPlan)
             /\ batch.expectedTokens \in Nat
             /\ \/ \E tokens \in Nat : \E parsed :
                     /\ \A a \in parsed : a.claims \in Seq(ToSet(a.claims))
                     /\ Executes(d, "task-completed", tokens, parsed)
                     /\ spent' = Spend(w, batch.expectedTokens, tokens)
                \/ /\ Executes(d, "task-failed", 0, {})
                   /\ spent' = Spend(w, batch.expectedTokens, batch.expectedTokens)
  <1> DEFINE w == work[d]
             batch == w.route.batchPlan[Len(w.results) + 1]
  <1>1. w.stage = "executing" /\ ~Executed(w) BY DEF ExecuteBatch
  <1>2. IsExecuting(w) /\ w.task \in Tasks /\ Underway(w) BY <1>1, ExecutingKnown
  <1>3. /\ Len(w.route.batchPlan) \in Nat /\ Len(w.results) \in Nat
        /\ \A i \in 1..Len(w.route.batchPlan) : w.route.batchPlan[i].expectedTokens \in Nat
        /\ Len(w.results) <= Len(w.route.batchPlan)
    BY <1>2, ExecutionIs DEF Underway
  <1>4. Len(w.results) + 1 \in 1..Len(w.route.batchPlan) BY <1>1, <1>3 DEF Executed
  <1>5. batch.expectedTokens \in Nat BY <1>3, <1>4
  <1>6. \/ \E answer \in Answer :
             /\ Executes(d, "task-completed", Larger(0, batch.expectedTokens + answer.more),
                         answer.parsed)
             /\ spent' = Spend(w, batch.expectedTokens,
                               Larger(0, batch.expectedTokens + answer.more))
        \/ /\ Executes(d, "task-failed", 0, {})
           /\ spent' = Spend(w, batch.expectedTokens, batch.expectedTokens)
    BY DEF ExecuteBatch, Executes
  <1> HIDE DEF w, batch
  <1>7. ASSUME NEW answer \in Answer
        PROVE  /\ Larger(0, batch.expectedTokens + answer.more) \in Nat
               /\ \A a \in answer.parsed : a.claims \in Seq(ToSet(a.claims))
    <2>1. answer.more \in Int BY DispatchAssumptions
    <2>2. \A k \in Nat, m \in Int : Larger(0, k + m) \in Nat BY DEF Larger
    <2>3. \A a \in answer.parsed : a.claims \in Seq(ToSet(a.claims)) BY DispatchAssumptions
    <2> QED BY <1>5, <2>1, <2>2, <2>3
  <1> QED BY <1>1, <1>4, <1>5, <1>6, <1>7 DEF w, batch

LEMMA ExecutesInformed ==
  ASSUME Sound, Informed, NEW d \in Process, day' = day, work[d].stage = "executing",
         Len(work[d].results) + 1 \in 1..Len(work[d].route.batchPlan),
         NEW type \in {"task-completed", "task-failed"}, NEW tokens \in Nat, NEW parsed,
         \A a \in parsed : a.claims \in Seq(ToSet(a.claims)),
         Executes(d, type, tokens, parsed)
  PROVE  Informed'
  <1> DEFINE w == work[d]
             n == Len(w.results)
             batch == w.route.batchPlan[n + 1]
             result == [tokens |-> tokens, items |-> batch.items, parsed |-> parsed]
             e == [type |-> type, task |-> w.id, provider |-> ProviderOf(w),
                   batchIndex |-> n, actualTokens |-> tokens, day |-> day]
             x == [w EXCEPT !.results = Append(w.results, result)]
  <1>1. /\ w \in InHand(d) /\ IsExecuting(w) /\ w.task \in Tasks
        /\ Underway(w) /\ Foretold(w, Written)
    BY ExecutingKnown
  <1>2. Appends(d, e, OnceFinished(x)) BY DEF Executes
  <1>3. PICK S : w.results \in Seq(S) BY <1>1 DEF IsExecuting
  <1>4. PICK results : results = Append(w.results, result) OBVIOUS
  <1>5. result.items = batch.items /\ result.tokens = tokens /\ result.parsed = parsed OBVIOUS
  <1> HIDE DEF result
  <1>6. /\ n \in Nat /\ Len(results) = n + 1 /\ results[n + 1] = result
        /\ \A i \in 1..n : results[i] = w.results[i]
    BY <1>3, <1>4
  <1>7. /\ x.results = results /\ x.task = w.task /\ x.route = w.route /\ x.stage = "executing"
        /\ x.forecast = w.forecast /\ x.scored = w.scored
    <2>1. x = [w EXCEPT !.results = results] BY <1>4
    <2> HIDE DEF x
    <2> QED BY <1>1, <2>1, WithResults
  <1>8. e.task = w.id /\ IsUsage(e) /\ e.batchIndex = n /\ e.type = type
        /\ e.actualTokens = tokens /\ e.day = day
    BY DEF IsUsage
  <1>9. day \in Nat BY DEF Informed
  <1> HIDE DEF e, x
  <1>10. OnTask(x, Written)
    <2>1. w.forecast = <<>>
      <3>1. ~Executed(w) BY <1>6 DEF Executed
      <3> QED BY <1>1, <3>1 DEF Underway
    <2>2. Len(results) <= Len(x.route.batchPlan)
      BY <1>6, <1>7
    <2>3. ASSUME NEW i \in 1..Len(results)
          PROVE  /\ results[i].items = x.route.batchPlan[i].items
                 /\ results[i].tokens \in Nat /\ HasClaims(results[i])
      <3>1. CASE i = n + 1 BY <1>5, <1>6, <1>7, <3>1 DEF HasClaims
      <3>2. CASE i \in 1..n BY <1>1, <1>6, <1>7, <3>2 DEF Underway
      <3> QED BY <1>6, <3>1, <3>2
    <2>4. ByRun(x) => x.scored = 0 BY <1>1, <1>7, <2>1 DEF Underway, ByRun
    <2>5. IsRoute(x.route, x.task) BY <1>1, <1>7 DEF Underway
    <2>6. Underway(x) BY <1>7, <2>1, <2>2, <2>3, <2>4, <2>5 DEF Underway
    <2>7. Foretold(x, Written) BY <1>7, <2>1 DEF Foretold
    <2> QED BY <1>1, <1>7, <2>6, <2>7 DEF OnTask
  <1>11. n \notin 0..(n - 1) BY <1>6
  <1>12. ~Behind(e, w) BY <1>8, <1>11 DEF Behind
  <1>13. day \in 0..day BY <1>9
  <1>14. WellFormed(e, day) BY <1>8, <1>13 DEF WellFormed, IsUsage
  <1>15. EarnedIn(e, Written) BY <1>8 DEF EarnedIn
  <1> QED BY <1>1, <1>2, <1>8, <1>10, <1>12, <1>14, <1>15, InformedStep, OnceFinishedIs

LEMMA ExecuteBatchInformed ==
  ASSUME Sound, Informed, NEW d \in Process, ExecuteBatch(d)
  PROVE  Informed'
  <1> DEFINE w == work[d]
             batch == w.route.batchPlan[Len(w.results) + 1]
  <1>1. /\ w.stage = "executing" /\ Len(w.results) + 1 \in 1..Len(w.route.batchPlan)
        /\ batch.expectedTokens \in Nat
        /\ \/ \E tokens \in Nat : \E parsed :
                /\ \A a \in parsed : a.claims \in Seq(ToSet(a.claims))
                /\ Executes(d, "task-completed", tokens, parsed)
           \/ Executes(d, "task-failed", 0, {})
    BY ExecuteIs
  <1>2. day' = day BY DEF ExecuteBatch
  <1>3. CASE \E tokens \in Nat : \E parsed :
               /\ \A a \in parsed : a.claims \in Seq(ToSet(a.claims))
               /\ Executes(d, "task-completed", tokens, parsed)
    <2>1. PICK tokens \in Nat : \E parsed :
               /\ \A a \in parsed : a.claims \in Seq(ToSet(a.claims))
               /\ Executes(d, "task-completed", tokens, parsed)
      BY <1>3
    <2>2. PICK parsed :
               /\ \A a \in parsed : a.claims \in Seq(ToSet(a.claims))
               /\ Executes(d, "task-completed", tokens, parsed)
      BY <2>1
    <2> QED BY <1>1, <1>2, <2>2, ExecutesInformed
  <1>4. CASE Executes(d, "task-failed", 0, {})
    <2>1. PICK none : none = {} OBVIOUS
    <2>2. Executes(d, "task-failed", 0, none) /\ \A a \in none : a.claims \in Seq(ToSet(a.claims))
      BY <1>4, <2>1
    <2> QED BY <1>1, <1>2, <2>2, ExecutesInformed
  <1> QED BY <1>1, <1>3, <1>4

(* A forecast lies between the static value and what is in the ledger, of   *)
(* which nothing is about the task itself.                                  *)
LEMMA ForecastIs ==
  ASSUME Sound, Informed, NEW w, IsExecuting(w), w.task \in Tasks, Underway(w),
         \E d \in Process : work[d] = w, w.scored = 0, NEW i \in 1..Len(w.results),
         NEW forecast,
         forecast = predictQuality(events, ProviderOf(w), w.task, Size(w, i))
  PROVE  /\ \E q \in Priors(w, i, Written) : ~Exceeds(Adjusted(q, w.task.workload), forecast)
         /\ \E q \in Priors(w, i, Written) : ~Exceeds(forecast, Adjusted(q, w.task.workload))
  <1>1. PICK p : p = ProviderOf(w) OBVIOUS
  <1>2. PICK bucket : bucket = bucketForContextRatio(ContextRatio(p, Larger(1, Size(w, i))))
    OBVIOUS
  <1>3. PICK workload : workload = w.task.workload OBVIOUS
  <1>4. PICK static : static = Profile[p].quality OBVIOUS
  <1>5. PICK known : known = events OBVIOUS
  <1>6. p \in Provider BY <1>1, ExecutionIs DEF Underway
  <1>7. bucket \in Bucket /\ static[bucket] \in Fractions BY <1>2, <1>4, <1>6, ProfileIs
  <1>8. Numbers(known, day) /\ \A k \in DOMAIN known : known[k] \in Written
                                                      /\ WellFormed(known[k], day)
    BY <1>5, EventsKnown DEF Sound
  <1>9. PICK q : q = CurveOf(known, p, workload, static)[bucket] OBVIOUS
  <1>10. forecast = Adjusted(q, workload)
    BY <1>1, <1>2, <1>3, <1>4, <1>5, <1>9 DEF predictQuality, learnedCurveLookup
  <1>11. q \in Fractions
         /\ (q = static[bucket] \/ IsMeasured(q, known, MeasuredAt(known, p, bucket)))
    BY <1>7, <1>8, <1>9, CurveIs
  <1>12. static[bucket] \in Priors(w, i, Written) BY <1>1, <1>2, <1>4 DEF Priors
  <1>13. ASSUME NEW k \in MeasuredAt(known, p, bucket)
         PROVE  known[k].score \in Priors(w, i, Written) /\ known[k].score \in Fractions
    <2>1. /\ known[k].type = "batch-quality-scored" /\ known[k].provider = p
          /\ known[k] \in Written /\ WellFormed(known[k], day)
      BY <1>8 DEF MeasuredAt
    <2>2. known[k].score \in Fractions BY <2>1 DEF WellFormed
    <2>3. known[k].task # w.id
      <3>1. SUFFICES ASSUME known[k].task = w.id PROVE FALSE OBVIOUS
      <3>2. PICK d \in Process : work[d] = w OBVIOUS
      <3>3. w # Idle BY StageOf DEF IsWork
      <3>4. Behind(known[k], w) BY <2>1, <3>1, <3>2, <3>3 DEF Sound, FreshInv
      <3>5. 0..(w.scored - 1) = {} OBVIOUS
      <3> QED BY <2>1, <3>4, <3>5 DEF Behind, IsUsage
    <2> QED BY <1>1, <2>1, <2>2, <2>3 DEF Priors
  <1>14. \A x \in Fractions : ~Exceeds(x, x) BY NotBoth
  <1>15. CASE q = static[bucket]
    <2>1. ~Exceeds(Adjusted(q, workload), Adjusted(q, workload)) BY <1>11, <1>14, AdjustedIs
    <2> QED BY <1>3, <1>10, <1>12, <1>15, <2>1
  <1>16. CASE IsMeasured(q, known, MeasuredAt(known, p, bucket))
    <2>1. PICK k \in MeasuredAt(known, p, bucket) : ~Exceeds(q, known[k].score)
      BY <1>16 DEF IsMeasured
    <2>2. PICK m \in MeasuredAt(known, p, bucket) : ~Exceeds(known[m].score, q)
      BY <1>16 DEF IsMeasured
    <2>3. PICK a, b : a = known[k].score /\ b = known[m].score OBVIOUS
    <2>4. a \in Fractions /\ b \in Fractions BY <1>13, <2>3
    <2>5. ~Exceeds(Adjusted(q, workload), Adjusted(a, workload))
      BY <1>11, <2>1, <2>3, <2>4, AdjustedIs
    <2>6. ~Exceeds(Adjusted(b, workload), Adjusted(q, workload))
      BY <1>11, <2>2, <2>3, <2>4, AdjustedIs
    <2>7. a \in Priors(w, i, Written) /\ b \in Priors(w, i, Written) BY <1>13, <2>3
    <2> QED BY <1>3, <1>10, <2>5, <2>6, <2>7
  <1> QED BY <1>11, <1>15, <1>16

(* A step without a write, after which at most one process has other work.  *)
LEMMA InformedSilent ==
  ASSUME Sound, Informed, UNCHANGED <<file, acked, cut>>, day' \in Nat, day <= day',
         \/ work' = work
         \/ \E d \in Process : \E next : /\ work' = [work EXCEPT ![d] = next]
                                         /\ next = Idle \/ OnTask(next, Written)
  PROVE  Informed'
  <1>1. Written' = Written /\ events' = events BY DEF Written, events
  <1>2. ASSUME NEW e \in Written PROVE WellFormed(e, day')
    <2>1. WellFormed(e, day) BY DEF Informed
    <2>2. 0..day \subseteq 0..day' BY DEF Informed
    <2> QED BY <2>1, <2>2 DEF WellFormed
  <1>3. ASSUME NEW c \in Process, work'[c] # Idle PROVE OnTask(work'[c], Written)
    <2>1. CASE work' = work BY <1>3, <2>1 DEF Informed
    <2>2. CASE work' # work
      <3>a. PICK d \in Process : \E next : /\ work' = [work EXCEPT ![d] = next]
                                           /\ next = Idle \/ OnTask(next, Written)
        BY <2>2
      <3>1. PICK next : /\ work' = [work EXCEPT ![d] = next]
                        /\ next = Idle \/ OnTask(next, Written)
        BY <3>a
      <3>2. work = [x \in Process |-> work[x]] BY DEF Sound, WorkInv
      <3> HIDE DEF Idle
      <3>3. CASE c = d
        <4>1. work'[c] = next BY <3>1, <3>2, <3>3
        <4> QED BY <1>3, <3>1, <4>1
      <3>4. CASE c # d
        <4>1. work'[c] = work[c] BY <3>1, <3>2, <3>4
        <4> QED BY <1>3, <4>1 DEF Informed
      <3> QED BY <3>3, <3>4
    <2> QED BY <2>1, <2>2
  <1> QED BY <1>1, <1>2, <1>3 DEF Informed

LEMMA PredictQualityInformed ==
  ASSUME Sound, Informed, NEW d \in Process, PredictQuality(d)
  PROVE  Informed'
  <1> DEFINE w == work[d]
  <1>1. /\ w.stage = "executing" /\ Executed(w) /\ ByRun(w) /\ w.forecast = <<>>
        /\ UNCHANGED <<file, acked, cut, taken, day, spent>>
    BY DEF PredictQuality
  <1>2. IsExecuting(w) /\ w.task \in Tasks /\ Underway(w) BY <1>1, ExecutingKnown
  <1>3. PICK forecast : forecast = [i \in DOMAIN w.results |->
                          predictQuality(events, ProviderOf(w), w.task, Size(w, i))]
    OBVIOUS
  <1> DEFINE x == [w EXCEPT !.forecast = forecast]
  <1>4. work' = [work EXCEPT ![d] = x] BY <1>3 DEF PredictQuality
  <1>5. DOMAIN w.results = 1..Len(w.results) BY <1>2, ExecutionIs DEF Underway
  <1>6. w.scored = 0 BY <1>1, <1>2 DEF Underway
  <1>7. ASSUME NEW i \in 1..Len(w.results)
        PROVE  /\ \E q \in Priors(w, i, Written) : ~Exceeds(Adjusted(q, w.task.workload), forecast[i])
               /\ \E q \in Priors(w, i, Written) : ~Exceeds(forecast[i], Adjusted(q, w.task.workload))
    <2>1. PICK v : v = w OBVIOUS
    <2>2. \E c \in Process : work[c] = v BY <2>1
    <2>3. forecast[i] = predictQuality(events, ProviderOf(v), v.task, Size(v, i))
      BY <1>3, <1>5, <2>1
    <2>4. PICK value : value = forecast[i] OBVIOUS
    <2>5. /\ \E q \in Priors(v, i, Written) : ~Exceeds(Adjusted(q, v.task.workload), value)
          /\ \E q \in Priors(v, i, Written) : ~Exceeds(value, Adjusted(q, v.task.workload))
      BY <1>2, <1>6, <2>1, <2>2, <2>3, <2>4, ForecastIs
    <2> QED BY <2>1, <2>4, <2>5
  <1>8. /\ x.task = w.task /\ x.route = w.route /\ x.results = w.results
        /\ x.forecast = forecast /\ x.scored = w.scored
    BY <1>2 DEF IsExecuting
  <1>9. \A i : Priors(x, i, Written) = Priors(w, i, Written)
    BY <1>8 DEF Priors, ProviderOf, Size
  <1>10. DOMAIN forecast = 1..Len(w.results) BY <1>3, <1>5
  <1> HIDE DEF x
  <1>11. Foretold(x, Written) BY <1>7, <1>8, <1>9, <1>10 DEF Foretold
  <1>12. Underway(x)
    BY <1>1, <1>2, <1>6, <1>8 DEF Underway, Executed, ByRun
  <1>13. OnTask(x, Written) BY <1>2, <1>8, <1>11, <1>12 DEF OnTask
  <1>14. day' \in Nat /\ day <= day' BY <1>1 DEF Informed
  <1> QED BY <1>1, <1>4, <1>13, <1>14, InformedSilent

(* Work that only its marks changed.                                        *)
LEMMA MarkedOnTask ==
  ASSUME NEW w, NEW x, NEW E, w.task \in Tasks, Underway(w), Foretold(w, E),
         x.id = w.id, x.task = w.task, x.route = w.route, x.results = w.results,
         x.forecast = w.forecast,
         x.scored = w.scored \/ (ByRun(w) => w.forecast # <<>>)
  PROVE  OnTask(x, E)
  <1>1. \A i : Priors(x, i, E) = Priors(w, i, E) BY DEF Priors, ProviderOf, Size
  <1>2. Foretold(x, E) BY <1>1 DEF Foretold
  <1>3. Underway(x) BY DEF Underway, Executed, ByRun
  <1> QED BY <1>2, <1>3 DEF OnTask

LEMMA ScoreBatchInformed ==
  ASSUME Sound, Informed, NEW d \in Process, ScoreBatch(d)
  PROVE  Informed'
  <1> DEFINE w == work[d]
             i == CHOOSE j \in Unscored(w) : \A k \in Unscored(w) : j <= k
             e == [type |-> "batch-quality-scored", task |-> w.id, batchIndex |-> i - 1,
                   provider |-> ProviderOf(w), workload |-> w.task.workload,
                   score |-> combinedScore(w, i),
                   ratio |-> ContextRatio(ProviderOf(w), Size(w, i))]
             x == [w EXCEPT !.scored = i]
  <1>1. /\ w.stage = "executing" /\ Unscored(w) # {} /\ day' = day /\ mayScore(w)
        /\ Appends(d, e, OnceFinished(x))
    BY DEF ScoreBatch
  <1>2. /\ w \in InHand(d) /\ IsExecuting(w) /\ w.task \in Tasks
        /\ Underway(w) /\ Foretold(w, Written)
    BY <1>1, ExecutingKnown
  <1>3. /\ ProviderOf(w) \in Provider /\ DOMAIN w.results = 1..Len(w.results)
        /\ Len(w.results) \in Nat /\ Len(w.results) <= Len(w.route.batchPlan)
        /\ Len(w.route.batchPlan) \in Nat
        /\ \A k \in 1..Len(w.route.batchPlan) : Len(w.route.batchPlan[k].items) \in Nat
    BY <1>2, ExecutionIs DEF Underway
  <1>4. i \in Unscored(w)
    <2>1. Unscored(w) \in SUBSET Nat BY <1>3 DEF Unscored
    <2> QED BY <1>1, <2>1, LeastNatural
  <1> HIDE DEF i
  <1>5. i \in 1..Len(w.results) /\ i > w.scored /\ w.results[i].parsed # {}
    BY <1>3, <1>4 DEF Unscored
  <1>6. w.scored \in Nat BY <1>2 DEF IsExecuting
  <1>7. combinedScore(w, i) \in Fractions
    <2>1. PICK answers : answers = [j \in DOMAIN w.results |-> w.results[j].parsed] OBVIOUS
    <2>2. answers[i] = w.results[i].parsed BY <1>3, <1>5, <2>1
    <2>3. answers[i] # {} /\ \A a \in answers[i] : a.claims \in Seq(ToSet(a.claims))
      BY <1>2, <1>5, <2>2 DEF Underway, HasClaims
    <2>4. PICK hasFigures : hasFigures = (ToSet(w.results[i].items) \cap w.task.figures # {})
      OBVIOUS
    <2>5. combinedScore(w, i) = scoreBatch(answers, i, hasFigures)
      BY <2>1, <2>4 DEF combinedScore
    <2>6. scoreBatch(answers, i, hasFigures) \in Fractions BY <2>3, BatchScoreIs
    <2> QED BY <2>5, <2>6
  <1>8. ContextRatio(ProviderOf(w), Size(w, i)) \in Fractions
    <2>1. i \in 1..Len(w.route.batchPlan) BY <1>3, <1>5
    <2>2. Size(w, i) \in Nat BY <1>2, <1>3, <1>5, <2>1 DEF Size, Underway
    <2> QED BY <1>3, <2>2, RatioIs
  <1>9. /\ e.type = "batch-quality-scored" /\ e.task = w.id /\ e.batchIndex = i - 1
        /\ e.score \in Fractions /\ e.ratio \in Fractions
    BY <1>7, <1>8
  <1>10. /\ x.id = w.id /\ x.task = w.task
         /\ x.route = w.route /\ x.results = w.results /\ x.forecast = w.forecast
    BY <1>2 DEF IsExecuting
  <1>11. OnTask(x, Written) BY <1>1, <1>2, <1>10, MarkedOnTask DEF mayScore
  <1> HIDE DEF e, x, w
  <1>12. i - 1 \notin 0..(w.scored - 1) BY <1>3, <1>5, <1>6
  <1>13. ~Behind(e, w) BY <1>9, <1>12 DEF Behind, IsUsage
  <1>14. WellFormed(e, day) BY <1>9 DEF WellFormed, IsUsage
  <1>15. EarnedIn(e, Written) BY <1>9 DEF EarnedIn
  <1> QED BY <1>1, <1>2, <1>9, <1>11, <1>13, <1>14, <1>15, InformedStep, OnceFinishedIs

LEMMA RecordTraceInformed ==
  ASSUME Sound, Informed, NEW d \in Process, RecordTrace(d)
  PROVE  Informed'
  <1> DEFINE w == work[d]
             x == [w EXCEPT !.traced = TRUE]
  <1>1. w.stage = "executing" /\ ~w.traced /\ day' = day BY DEF RecordTrace
  <1>2. PICK accuracy :
          Appends(d, [type |-> "execution-trace-recorded", task |-> w.id,
                      accuracy |-> accuracy], OnceFinished(x))
    BY DEF RecordTrace
  <1> DEFINE e == [type |-> "execution-trace-recorded", task |-> w.id, accuracy |-> accuracy]
  <1>3. Appends(d, e, OnceFinished(x)) BY <1>2
  <1>4. /\ w \in InHand(d) /\ IsExecuting(w) /\ w.task \in Tasks
        /\ Underway(w) /\ Foretold(w, Written)
    BY <1>1, ExecutingKnown
  <1>5. e.type = "execution-trace-recorded" /\ e.task = w.id OBVIOUS
  <1>6. /\ x.id = w.id /\ x.task = w.task /\ x.route = w.route /\ x.results = w.results
        /\ x.forecast = w.forecast /\ x.scored = w.scored
    BY <1>4 DEF IsExecuting
  <1>7. OnTask(x, Written) BY <1>4, <1>6, MarkedOnTask
  <1> HIDE DEF e, x
  <1>8. ~Behind(e, w) BY <1>1, <1>5 DEF Behind, IsUsage
  <1>9. WellFormed(e, day) BY <1>5 DEF WellFormed, IsUsage
  <1>10. EarnedIn(e, Written) BY <1>5 DEF EarnedIn
  <1> QED BY <1>1, <1>3, <1>4, <1>5, <1>7, <1>8, <1>9, <1>10, InformedStep, OnceFinishedIs

LEMMA RecordOutcomeInformed ==
  ASSUME Sound, Informed, NEW d \in Process, RecordOutcome(d)
  PROVE  Informed'
  <1> DEFINE w == work[d]
             n == w.settled + 1
             actual == SumFunction([i \in DOMAIN w.results |-> w.results[i].tokens])
             x == [w EXCEPT !.settled = n]
  <1>1. work[d].stage = "executing" /\ day' = day BY DEF RecordOutcome
  <1>2. /\ w \in InHand(d) /\ IsExecuting(w) /\ w.task \in Tasks
        /\ Underway(w) /\ Foretold(w, Written)
    BY <1>1, ExecutingKnown
  <1>3. CASE work' = [work EXCEPT ![d] = Idle] /\ UNCHANGED <<file, acked, cut>>
    <2>1. day' \in Nat /\ day <= day' BY <1>1 DEF Informed
    <2> QED BY <1>3, <2>1, InformedSilent
  <1>4. CASE ~(work' = [work EXCEPT ![d] = Idle] /\ UNCHANGED <<file, acked, cut>>)
    <2> DEFINE Settles(prediction) ==
            Appends(d, [type |-> "reputation-updated", task |-> w.id, predictionId |-> n,
                        agent |-> w.predictions[n].agent,
                        predictedTokens |-> prediction.predictedTokens,
                        actualTokens |-> actual, day |-> day,
                        accuracy |-> computeAccuracy(prediction.predictedTokens, actual)],
                    OnceFinished(x))
    <2>1. PICK prediction \in recorded(w, n) : Settles(prediction)
      BY <1>4 DEF RecordOutcome
    <2>2. actual \in Nat
      <3>1. DOMAIN w.results = 1..Len(w.results) /\ Len(w.results) \in Nat
        BY <1>2, ExecutionIs DEF Underway
      <3>2. IsFiniteSet(DOMAIN w.results) BY <3>1, FS_Interval
      <3>3. [i \in DOMAIN w.results |-> w.results[i].tokens] \in [DOMAIN w.results -> Nat]
        BY <1>2, <3>1 DEF Underway
      <3> QED BY <3>2, <3>3, SumType
    <2>3. prediction.predictedTokens \in Nat
      <3>1. events \in Seq(Written)
            /\ \A j \in DOMAIN events : WellFormed(events[j], day)
        BY EventsKnown DEF Sound
      <3>2. PICK j \in DOMAIN events : /\ prediction = events[j]
                                       /\ prediction.type = "prediction-recorded"
        BY <3>1, RecordedIs
      <3> QED BY <3>1, <3>2 DEF WellFormed
    <2>4. PICK accuracy : accuracy = computeAccuracy(prediction.predictedTokens, actual) OBVIOUS
    <2>5. accuracy \in Int /\ accuracy <= 100
      <3>1. PICK p \in Nat, a \in Nat : p = prediction.predictedTokens /\ a = actual
        BY <2>2, <2>3
      <3>2. computeAccuracy(p, a) \in Int /\ computeAccuracy(p, a) <= 100 BY AccuracyIs
      <3> QED BY <2>4, <3>1, <3>2
    <2> DEFINE e == [type |-> "reputation-updated", task |-> w.id, predictionId |-> n,
                     agent |-> w.predictions[n].agent,
                     predictedTokens |-> prediction.predictedTokens,
                     actualTokens |-> actual, day |-> day, accuracy |-> accuracy]
    <2>6. Appends(d, e, OnceFinished(x)) BY <2>1, <2>4
    <2>7. /\ e.type = "reputation-updated" /\ e.task = w.id /\ e.predictionId = n
          /\ e.accuracy = accuracy /\ e.day = day
      OBVIOUS
    <2> HIDE DEF e, actual
    <2>8. w.settled \in Nat BY <1>2 DEF IsExecuting
    <2>9. n \notin 1..w.settled BY <2>8
    <2>10. /\ x.id = w.id /\ x.task = w.task /\ x.route = w.route /\ x.results = w.results
           /\ x.forecast = w.forecast /\ x.scored = w.scored
      BY <1>2 DEF IsExecuting
    <2>11. OnTask(x, Written) BY <1>2, <2>10, MarkedOnTask
    <2> HIDE DEF x, n
    <2>12. ~Behind(e, w) BY <2>7, <2>9 DEF Behind, IsUsage
    <2>13. day \in 0..day BY DEF Informed
    <2>14. WellFormed(e, day) BY <2>5, <2>7, <2>13 DEF WellFormed, IsUsage
    <2>15. EarnedIn(e, Written) BY <2>7 DEF EarnedIn
    <2> QED BY <1>1, <1>2, <2>6, <2>7, <2>11, <2>12, <2>14, <2>15, InformedStep, OnceFinishedIs
  <1> QED BY <1>3, <1>4

LEMMA InitiallyInformed ==
  ASSUME Init
  PROVE  Informed
  <1>1. /\ acked \in Past /\ cut = {} /\ work = [d \in Process |-> Idle] /\ day = 1
        /\ file = [EmptyFile EXCEPT !.lines = [i \in DOMAIN acked |-> LineOf(acked[i])]]
    BY DEF Init
  <1>2. /\ acked \in Seq(ToSet(acked)) /\ IsInjective(acked)
        /\ \A i \in DOMAIN acked : WellFormed(acked[i], 0)
        /\ ShortcutsWereEarned(ToSet(acked))
    BY <1>1, PastAssumption
  <1>3. Written = ToSet(acked) BY <1>1 DEF Written
  <1>4. file = [lines |-> [i \in DOMAIN acked |-> LineOf(acked[i])], tail |-> {}]
    BY <1>1 DEF EmptyFile
  <1>5. events = acked BY <1>2, <1>4, WholeFileReads DEF events
  <1>6. ASSUME NEW e \in Written PROVE WellFormed(e, day)
    <2>1. WellFormed(e, 0) BY <1>2, <1>3 DEF ToSet
    <2>2. 0..0 \subseteq 0..day BY <1>1
    <2> QED BY <2>1, <2>2 DEF WellFormed
  <1> QED BY <1>1, <1>2, <1>3, <1>5, <1>6 DEF Informed

LEMMA StepInformed ==
  ASSUME Sound, Informed, [Next]_vars
  PROVE  Informed'
  <1>1. CASE UNCHANGED vars
    <2>1. UNCHANGED <<file, acked, cut>> /\ work' = work /\ day' = day BY <1>1 DEF vars
    <2>2. day' \in Nat /\ day <= day' BY <2>1 DEF Informed
    <2> QED BY <2>1, <2>2, InformedSilent
  <1>2. ASSUME NEW d \in Process, RecordPrediction(d) PROVE Informed'
    BY <1>2, RecordPredictionInformed
  <1>3. ASSUME NEW d \in Process, Route(d) PROVE Informed' BY <1>3, RouteInformed
  <1>4. ASSUME NEW d \in Process, ExecuteBatch(d) PROVE Informed' BY <1>4, ExecuteBatchInformed
  <1>5. ASSUME NEW d \in Process, PredictQuality(d) PROVE Informed'
    BY <1>5, PredictQualityInformed
  <1>6. ASSUME NEW d \in Process, ScoreBatch(d) PROVE Informed' BY <1>6, ScoreBatchInformed
  <1>7. ASSUME NEW d \in Process, RecordTrace(d) PROVE Informed' BY <1>7, RecordTraceInformed
  <1>8. ASSUME NEW d \in Process, RecordOutcome(d) PROVE Informed' BY <1>8, RecordOutcomeInformed
  <1>9. CASE NewDay
    <2>1. UNCHANGED <<file, acked, cut>> /\ work' = work /\ day' = day + 1 BY <1>9 DEF NewDay
    <2>2. day' \in Nat /\ day <= day' BY <2>1 DEF Informed
    <2> QED BY <2>1, <2>2, InformedSilent
  <1> QED BY <1>1, <1>2, <1>3, <1>4, <1>5, <1>6, <1>7, <1>8, <1>9 DEF Next

LEMMA AlwaysInformed == Spec => [](Sound /\ Informed)
  <1>1. Init => Sound /\ Informed BY InitiallySound, InitiallyInformed
  <1>2. Sound /\ Informed /\ [Next]_vars => (Sound /\ Informed)' BY StepSound, StepInformed
  <1> QED BY <1>1, <1>2, PTL DEF Spec

(* Nine tenths of trust leave an average above the lowest tier's.           *)
LEMMA TrustedTier ==
  ASSUME NEW r \in Int, NEW s \in Int, NEW m \in Nat \ {0}, NEW n \in Nat \ {0},
         r <= m * 100,
         Exceeds(Over(7 * r * n + 3 * s * m, 10 * m * n), Over(90, 1))
  PROVE  assignCredibilityTier(Over(s, n), n) \in 2..6
  <1>1. PICK x \in Int : x = 7 * r * n + 3 * s * m OBVIOUS
  <1>2. PICK k \in Nat \ {0} : k = m * n OBVIOUS
  <1>3. 10 * m * n = 10 * k BY <1>2
  <1>4. x > 900 * k
    <2>1. x * 1 > 90 * (10 * m * n) BY <1>1 DEF Exceeds, Over
    <2> QED BY <1>3, <2>1
  <1>5. 7 * r * n <= 700 * k
    <2>1. r * n <= (m * 100) * n BY Scaling
    <2>2. PICK u \in Int : u = r * n OBVIOUS
    <2>3. (m * 100) * n = 100 * k BY <1>2
    <2>4. 7 * r * n = 7 * u BY <2>2
    <2> QED BY <2>1, <2>2, <2>3, <2>4
  <1>6. PICK v \in Int : v = s * m OBVIOUS
  <1>7. x = 7 * r * n + 3 * v BY <1>1, <1>6
  <1>8. 3 * v > 200 * k
    <2>1. PICK w \in Int : w = 7 * r * n OBVIOUS
    <2> QED BY <1>4, <1>5, <1>7, <2>1
  <1>9. s >= 60 * n
    <2>1. SUFFICES ASSUME s < 60 * n PROVE FALSE OBVIOUS
    <2>2. PICK y \in Int : y = 60 * n OBVIOUS
    <2>3. s * m <= y * m BY <2>1, <2>2, Scaling
    <2>4. y * m = 60 * k BY <1>2, <2>2
    <2> QED BY <1>2, <1>6, <1>8, <2>3, <2>4
  <1>10. ~Exceeds(Over(60, 1), Over(s, n))
    <2>1. PICK y \in Int : y = 60 * n OBVIOUS
    <2>2. ~(y > s) BY <1>9, <2>1
    <2> QED BY <2>1, <2>2 DEF Exceeds, Over
  <1> QED BY <1>10 DEF assignCredibilityTier

(* An agent whom the ledger lets skip the quota gate.                       *)
LEMMA TrustedStanding ==
  ASSUME NEW known, NEW today, Numbers(known, today), NEW agent, NEW standing,
         standing = getAgentTrustScore(known, agent, today),
         \E trust \in standing.trustScore : Exceeds(trust, Over(90, 1))
  PROVE  standing.stale \/ standing.tier # "red"
  <1> DEFINE D == OutcomesAt(known, agent)
             h == buildAgentHistoryFromEvents(known, agent)
             history == ByTime(h)
             n == Cardinality(D)
             stale == today - history[Len(history)].day > DecayDays
             tier == assignCredibilityTier(Over(SumFunction(Accuracies(history)), Len(history)),
                                           Len(history))
  <1>1. IsFiniteSet(D) /\ D \in SUBSET Int /\ IsHistory(h, D) BY HistoryIs
  <1>2. standing = IF history = <<>> THEN [trustScore |-> {}, stale |-> FALSE, tier |-> "red"]
                   ELSE [trustScore |-> computeTrustScore(history), stale |-> stale,
                         tier |-> TIER_ORDER[IF stale THEN capTierOneLevelDown(tier) ELSE tier]]
    BY DEF getAgentTrustScore
  <1> HIDE DEF D, h
  <1>3. PICK a \in Bijection(1..n, D) : history = [k \in 1..n |-> h[a[k]]]
    BY <1>1, ByTimeIs
  <1>4. n \in Nat BY <1>1, FS_CardinalityType
  <1> HIDE DEF n, history
  <1>5. IsHistory(history, 1..n)
    <2>1. \A k \in 1..n : a[k] \in D BY DEF Bijection, Injection
    <2> QED BY <1>1, <1>3, <2>1 DEF IsHistory
  <1>6. Len(history) = n
    <2>1. PICK T : T = {history[k] : k \in 1..n} OBVIOUS
    <2>2. history = [k \in 1..n |-> history[k]] BY <1>5 DEF IsHistory
    <2> QED BY <1>4, <2>1, <2>2, ListOf
  <1>7. history # <<>> BY <1>2
  <1>8. n # 0
    <2>1. SUFFICES ASSUME n = 0 PROVE FALSE OBVIOUS
    <2>2. history = <<>> BY <1>3, <2>1
    <2> QED BY <1>7, <2>2
  <1>9. PICK E : E = 1..n OBVIOUS
  <1>10. E \in SUBSET Int /\ IsFiniteSet(E) /\ Cardinality(E) = n /\ E # {}
    <2>1. IsFiniteSet(1..n) /\ Cardinality(1..n) = n BY <1>4, FS_Interval
    <2>2. 1 \in 1..n BY <1>4, <1>8
    <2> QED BY <1>9, <2>1, <2>2
  <1>11. IsHistory(history, E) BY <1>5, <1>9
  <1>a. PICK r \in Int, s \in Int : \E m, k \in Nat \ {0} : TrustFrom(history, E, r, s, m, k)
    BY <1>10, <1>11, TrustIs
  <1>12. PICK m \in Nat \ {0}, k \in Nat \ {0} : TrustFrom(history, E, r, s, m, k) BY <1>a
  <1>13. /\ computeTrustScore(history) = {Over(7 * r * n + 3 * s * m, 10 * m * n)}
         /\ r <= m * 100 /\ k = n
    BY <1>10, <1>12 DEF TrustFrom
  <1>14. s = SumFunction(Accuracies(history))
    <2>1. PICK f : f = Accuracies(history) OBVIOUS
    <2>2. f = [i \in E |-> history[i].accuracy]
      <3>1. DOMAIN history = E BY <1>11 DEF IsHistory
      <3> QED BY <2>1, <3>1 DEF Accuracies
    <2>3. f \in [E -> Int] /\ \A i \in E : f[i] = history[i].accuracy
      BY <1>11, <2>2 DEF IsHistory
    <2> QED BY <1>12, <2>1, <2>3 DEF TrustFrom
  <1>15. tier = assignCredibilityTier(Over(s, n), n) BY <1>6, <1>14
  <1>16. Exceeds(Over(7 * r * n + 3 * s * m, 10 * m * n), Over(90, 1))
    <2>1. standing.trustScore = computeTrustScore(history) BY <1>2, <1>7
    <2> QED BY <1>13, <2>1
  <1>17. tier \in 2..6 BY <1>4, <1>8, <1>13, <1>15, <1>16, TrustedTier
  <1> HIDE DEF stale, tier
  <1>18. standing.stale = stale /\ standing.tier = TIER_ORDER[IF stale THEN capTierOneLevelDown(tier) ELSE tier]
    BY <1>2, <1>7
  <1>19. ~stale => standing.tier = TIER_ORDER[tier] BY <1>18
  <1>20. TIER_ORDER[tier] # "red"
    <2>1. tier \in {2, 3, 4, 5, 6} BY <1>17
    <2> QED BY <2>1 DEF TIER_ORDER
  <1> QED BY <1>18, <1>19, <1>20

-----------------------------------------------------------------------------
(* What the ledger says was used today.                                     *)

UsesAt(known, p, today) ==
  {i \in DOMAIN known : IsUsage(known[i]) /\ known[i].provider = p /\ known[i].day = today}

Used(known, p, today) == SumFunction([i \in UsesAt(known, p, today) |-> known[i].actualTokens])

UseOf(e, p, today) ==
  IF IsUsage(e) /\ e.provider = p /\ e.day = today THEN e.actualTokens ELSE 0

UsesCounted(S) == \A e \in S : IsUsage(e) => e.actualTokens \in Nat

LEMMA UsedIs ==
  ASSUME NEW p
  PROVE  usedToday(p) = Used(events, p, day)
  <1> DEFINE today == RestrictValues(events, LAMBDA e : IsUsage(e) /\ e.provider = p /\ e.day = day)
             D == UsesAt(events, p, day)
  <1>1. today = [i \in D |-> events[i]] BY DEF RestrictValues, Restrict, UsesAt
  <1>2. usedToday(p) = SumFunction([i \in DOMAIN today |-> today[i].actualTokens])
    BY DEF usedToday
  <1> HIDE DEF today, D
  <1>3. [i \in DOMAIN today |-> today[i].actualTokens] = [i \in D |-> events[i].actualTokens]
    BY <1>1
  <1> QED BY <1>2, <1>3 DEF Used, D

(* One event more, its use more.                                            *)
LEMMA UsedAppend ==
  ASSUME NEW S, NEW s \in Seq(S), NEW x \in S, NEW p, NEW today,
         UsesCounted(S)
  PROVE  /\ Used(s, p, today) \in Nat /\ UseOf(x, p, today) \in Nat
         /\ Used(Append(s, x), p, today) = Used(s, p, today) + UseOf(x, p, today)
  <1>t. PICK t : t = Append(s, x) OBVIOUS
  <1> DEFINE n == Len(s)
             D == UsesAt(s, p, today)
             E == UsesAt(t, p, today)
             f == [i \in D |-> s[i].actualTokens]
             g == [i \in E |-> t[i].actualTokens]
  <1>1. /\ n \in Nat /\ DOMAIN s = 1..n /\ DOMAIN t = 1..(n + 1) /\ t[n + 1] = x
        /\ \A i \in 1..n : t[i] = s[i] /\ s[i] \in S
    BY <1>t
  <1> HIDE DEF n
  <1>2. D \subseteq 1..n /\ E \subseteq 1..(n + 1) BY <1>1 DEF UsesAt
  <1>a. 1..(n + 1) = 1..n \cup {n + 1} /\ n + 1 \notin 1..n BY <1>1
  <1>3. IsFiniteSet(1..n) /\ IsFiniteSet(1..(n + 1)) BY <1>1, FS_Interval
  <1>4. \A i \in D : i \in 1..n /\ IsUsage(s[i]) BY <1>1 DEF UsesAt
  <1>5. \A i \in 1..n : i \in D <=> i \in E BY <1>1 DEF UsesAt
  <1>6. n + 1 \in E <=> (IsUsage(x) /\ x.provider = p /\ x.day = today) BY <1>1 DEF UsesAt
  <1>7. Used(s, p, today) = SumFunction(f) /\ Used(t, p, today) = SumFunction(g) BY DEF Used
  <1> HIDE DEF D, E
  <1>8. IsFiniteSet(D) /\ IsFiniteSet(E)
    <2>1. IsFiniteSet(D) BY <1>2, <1>3, FS_Subset
    <2>2. IsFiniteSet(E) BY <1>2, <1>3, FS_Subset
    <2> QED BY <2>1, <2>2
  <1>9. f \in [D -> Nat]
    <2>1. \A i \in D : s[i].actualTokens \in Nat BY <1>1, <1>4 DEF UsesCounted
    <2> QED BY <2>1
  <1>10. SumFunction(f) \in Nat BY <1>8, <1>9, SumType
  <1>11. UseOf(x, p, today) \in Nat BY DEF UseOf, UsesCounted
  <1>12. ASSUME n + 1 \in E PROVE Used(t, p, today) = Used(s, p, today) + UseOf(x, p, today)
    <2>1. E = D \cup {n + 1} /\ n + 1 \notin D BY <1>2, <1>5, <1>12, <1>a
    <2>2. UseOf(x, p, today) = x.actualTokens BY <1>6, <1>12 DEF UseOf
    <2>3. g[n + 1] = x.actualTokens BY <1>1, <1>12
    <2>4. \A i \in D : g[i] = f[i] BY <1>1, <1>4, <2>1
    <2>5. DOMAIN g = E OBVIOUS
    <2>6. g \in [E -> Int]
      <3>1. \A i \in E : t[i].actualTokens \in Int
        <4>1. ASSUME NEW i \in D PROVE t[i].actualTokens \in Int
          <5>1. s[i].actualTokens \in Nat BY <1>1, <1>4 DEF UsesCounted
          <5>2. t[i] = s[i] BY <1>1, <1>4
          <5> QED BY <5>1, <5>2
        <4>2. t[n + 1].actualTokens \in Int
          <5>1. x.actualTokens \in Nat BY <1>6, <1>12 DEF UsesCounted
          <5> QED BY <1>1, <5>1
        <4> QED BY <2>1, <4>1, <4>2
      <3> QED BY <3>1
    <2>7. f = [i \in D |-> f[i]] OBVIOUS
    <2> HIDE DEF f, g
    <2>8. Without(g, n + 1) = f
      <3>1. E \ {n + 1} = D BY <2>1
      <3>2. Without(g, n + 1) = [i \in D |-> g[i]] BY <2>5, <3>1 DEF Without
      <3>3. [i \in D |-> g[i]] = [i \in D |-> f[i]] BY <2>4
      <3> QED BY <2>7, <3>2, <3>3
    <2>9. SumFunction(g) = g[n + 1] + SumFunction(Without(g, n + 1))
      BY <1>8, <1>12, <2>6, SumSplit
    <2> QED BY <1>7, <1>10, <1>11, <2>2, <2>3, <2>8, <2>9
  <1>13. ASSUME n + 1 \notin E PROVE Used(t, p, today) = Used(s, p, today) + UseOf(x, p, today)
    <2>1. E = D BY <1>2, <1>5, <1>13, <1>a
    <2>2. g = f BY <1>1, <1>4, <2>1
    <2>3. UseOf(x, p, today) = 0 BY <1>6, <1>13 DEF UseOf
    <2> HIDE DEF f, g
    <2> QED BY <1>7, <1>10, <2>2, <2>3
  <1>14. Used(t, p, today) = Used(s, p, today) + UseOf(x, p, today)
    BY <1>12, <1>13
  <1> QED BY <1>7, <1>10, <1>11, <1>14, <1>t

(* A write adds at most the use it records.                                 *)
LEMMA UsedAfterWrite ==
  ASSUME LedgerInv, NEW e, Writes(e), NEW p, NEW today, NEW later,
         \A x \in Written' : WellFormed(x, later)
  PROVE  /\ Used(events, p, today) \in Nat /\ Used(events', p, today) \in Nat
         /\ UseOf(e, p, today) \in Nat
         /\ Used(events', p, today) <= Used(events, p, today) + UseOf(e, p, today)
  <1>1. PICK S : S = Written' OBVIOUS
  <1>2. PICK s, t : s = events /\ t = events' OBVIOUS
  <1>3. /\ s \in Seq(S) /\ t \in Seq(S) /\ e \in S
        /\ \/ t = s
           \/ t = Append(s, e)
           \/ \E x \in S : s = Append(t, x)
    BY <1>1, <1>2, ReadsAfterWrite, WrittenGrows
  <1>4. UsesCounted(S) BY <1>1 DEF UsesCounted, WellFormed
  <1>5. /\ Used(s, p, today) \in Nat /\ Used(t, p, today) \in Nat /\ UseOf(e, p, today) \in Nat
    <2>1. PICK s1, t1 : s1 = Append(s, e) /\ t1 = Append(t, e) OBVIOUS
    <2>2. Used(s, p, today) \in Nat /\ UseOf(e, p, today) \in Nat BY <1>3, <1>4, <2>1, UsedAppend
    <2>3. Used(t, p, today) \in Nat BY <1>3, <1>4, <2>1, UsedAppend
    <2> QED BY <2>2, <2>3
  <1>6. Used(t, p, today) <= Used(s, p, today) + UseOf(e, p, today)
    <2>1. CASE t = s BY <1>5, <2>1
    <2>2. CASE t = Append(s, e)
      <3>a. s \in Seq(S) /\ e \in S BY <1>3
      <3>1. Used(t, p, today) = Used(s, p, today) + UseOf(e, p, today)
        BY <1>4, <2>2, <3>a, UsedAppend
      <3> QED BY <1>5, <3>1
    <2>3. CASE \E x \in S : s = Append(t, x)
      <3>1. PICK x \in S : s = Append(t, x) BY <2>3
      <3>2. UseOf(x, p, today) \in Nat
            /\ Used(s, p, today) = Used(t, p, today) + UseOf(x, p, today)
        <4>1. t \in Seq(S) BY <1>3
        <4> QED BY <1>4, <3>1, <4>1, UsedAppend
      <3> QED BY <1>5, <3>2
    <2> QED BY <1>3, <2>1, <2>2, <2>3
  <1> QED BY <1>2, <1>5, <1>6

-----------------------------------------------------------------------------
(* What a task approved by the quota gate has yet to spend.                 *)

Remainder(w) == (Len(w.results) + 1)..Len(w.route.batchPlan)

Expected(w) == [i \in Remainder(w) |-> w.route.batchPlan[i].expectedTokens]

Owes(w, p) == /\ w.stage = "executing" /\ w.route.gate = "step-2-quota-buffer"
              /\ w.route.provider = {p}

Owed(w, p) == IF Owes(w, p) THEN SumFunction(Expected(w)) ELSE 0

LEMMA IdleOwes ==
  ASSUME NEW p
  PROVE  Owed(Idle, p) = 0
  BY StageOf DEF Owed, Owes

LEMMA ExpectedIs ==
  ASSUME NEW w, IsExecuting(w), w.task \in Tasks, IsRoute(w.route, w.task)
  PROVE  /\ IsFiniteSet(Remainder(w)) /\ Expected(w) \in [Remainder(w) -> Nat]
         /\ SumFunction(Expected(w)) \in Nat
  <1>1. /\ Len(w.route.batchPlan) \in Nat /\ Len(w.results) \in Nat
        /\ \A i \in 1..Len(w.route.batchPlan) : w.route.batchPlan[i].expectedTokens \in Nat
    BY ExecutionIs
  <1>2. IsFiniteSet(Remainder(w))
    <2>1. Len(w.results) + 1 \in Int /\ Len(w.route.batchPlan) \in Int BY <1>1
    <2> QED BY <2>1, FS_Interval DEF Remainder
  <1>3. Remainder(w) \subseteq 1..Len(w.route.batchPlan) BY <1>1 DEF Remainder
  <1>4. Expected(w) \in [Remainder(w) -> Nat] BY <1>1, <1>3 DEF Expected
  <1> QED BY <1>2, <1>4, SumType

LEMMA OwedIs ==
  ASSUME NEW w, NEW E, NEW p, OnTask(w, E), w.stage = "executing" => IsExecuting(w)
  PROVE  Owed(w, p) \in Nat
  BY ExpectedIs DEF Owed, Owes, OnTask, Underway

(* Of work with the same route and results, the same is owed.               *)
LEMMA OwedAlike ==
  ASSUME NEW w, NEW x, x.stage = w.stage, x.route = w.route, x.results = w.results, NEW p
  PROVE  Owed(x, p) = Owed(w, p)
  BY DEF Owed, Owes, Expected, Remainder

(* A batch done is owed no more.                                            *)
LEMMA OwedAfterBatch ==
  ASSUME NEW w, NEW x, NEW p, IsExecuting(w), w.task \in Tasks, Underway(w),
         Len(w.results) + 1 \in 1..Len(w.route.batchPlan), Owes(w, p),
         x.stage = w.stage, x.route = w.route, Len(x.results) = Len(w.results) + 1
  PROVE  Owed(w, p) = w.route.batchPlan[Len(w.results) + 1].expectedTokens + Owed(x, p)
  <1>0. PICK n : n = Len(w.results) OBVIOUS
  <1> DEFINE D == Remainder(w)
             f == Expected(w)
  <1>1. IsFiniteSet(D) /\ f \in [D -> Nat] BY ExpectedIs DEF Underway
  <1>2. n \in Nat /\ Len(w.route.batchPlan) \in Nat BY <1>0, ExecutionIs DEF Underway
  <1>3. Remainder(x) = D \ {n + 1} /\ n + 1 \in D BY <1>0, <1>2 DEF Remainder
  <1>4. Expected(x) = [i \in D \ {n + 1} |-> w.route.batchPlan[i].expectedTokens]
    BY <1>3 DEF Expected
  <1>5. \A i \in D : f[i] = w.route.batchPlan[i].expectedTokens BY DEF Expected
  <1> HIDE DEF D, f
  <1>6. Expected(x) = Without(f, n + 1) BY <1>1, <1>4, <1>5 DEF Without
  <1>7. SumFunction(f) = f[n + 1] + SumFunction(Without(f, n + 1))
    <2>1. PICK c : c = n + 1 OBVIOUS
    <2>2. f \in [D -> Int] /\ IsFiniteSet(D) /\ c \in D BY <1>1, <1>3, <2>1
    <2>3. SumFunction(f) = f[c] + SumFunction(Without(f, c)) BY <2>2, SumSplit
    <2> QED BY <2>1, <2>3
  <1>8. SumFunction(f) = w.route.batchPlan[n + 1].expectedTokens + SumFunction(Expected(x))
    BY <1>3, <1>5, <1>6, <1>7
  <1>9. Owes(x, p) <=> Owes(w, p) BY DEF Owes
  <1> QED BY <1>0, <1>8, <1>9 DEF Owed, f

(* What a route commits to is the provider's cost of the items.             *)
LEMMA OwedAtFirst ==
  ASSUME NEW task \in Tasks, NEW route, IsRoute(route, task), NEW p, route.provider = {p},
         NEW x, x.stage = "executing", x.route = route, x.results = <<>>, x.task = task
  PROVE  /\ Owed(x, p) \in Nat /\ p \in Provider
         /\ Owed(x, p) <= Profile[p].tokensPerItem * ItemCount(task)
  <1>a. PICK q \in Provider : \E size \in 1..Profile[q].maxBatchSize :
          /\ route.provider = {q} /\ size \in Nat \ {0}
          /\ IsPlan(route.batchPlan, task.items, size, Profile[q].tokensPerItem)
    BY RoutePlanIs
  <1>1. PICK size \in 1..Profile[q].maxBatchSize :
          /\ route.provider = {q} /\ size \in Nat \ {0}
          /\ IsPlan(route.batchPlan, task.items, size, Profile[q].tokensPerItem)
    BY <1>a
  <1>2. q = p /\ p \in Provider BY <1>1
  <1>3. PICK plan, items : plan = route.batchPlan /\ items = task.items OBVIOUS
  <1>4. PICK t \in Nat : t = Profile[p].tokensPerItem BY <1>2, ProfileIs
  <1>5. IsPlan(plan, items, size, t) BY <1>1, <1>2, <1>3, <1>4
  <1>6. PICK m \in Nat : m = Len(plan) BY <1>5 DEF IsPlan
  <1>7. PICK g \in [0..m -> 0..Len(items)] : Cuts(g, plan, items, size, t)
    BY <1>5, <1>6 DEF IsPlan
  <1>8. Len(items) \in Nat /\ Len(items) <= ItemCount(task) /\ ItemCount(task) \in Nat
    BY <1>3, TaskIs
  <1>9. PICK f : f = [i \in 1..m |-> plan[i].expectedTokens] OBVIOUS
  <1>10. PICK h : h = [j \in 0..m |-> t * g[j]] OBVIOUS
  <1>11. \A j \in 0..m : g[j] \in Nat BY <1>7, <1>8
  <1>12. h \in [0..m -> Int] BY <1>10, <1>11
  <1>13. \A i \in 1..m : f[i] = h[i] - h[i - 1]
    <2>1. ASSUME NEW i \in 1..m PROVE f[i] = h[i] - h[i - 1]
      <3>1. i \in 0..m /\ i - 1 \in 0..m BY <1>6
      <3>2. plan[i].expectedTokens = t * g[i] - t * g[i - 1] BY <1>6, <1>7 DEF Cuts
      <3> QED BY <1>9, <1>10, <3>1, <3>2
    <2> QED BY <2>1
  <1>14. f \in [1..m -> Int]
    <2>1. \A i \in 1..m : i \in 0..m /\ i - 1 \in 0..m BY <1>6
    <2>2. \A i \in 1..m : f[i] \in Int BY <1>12, <1>13, <2>1
    <2> QED BY <1>9, <2>2
  <1>15. SumFunction(f) = h[m] - h[0] BY <1>6, <1>12, <1>13, <1>14, SumTelescopes
  <1>16. h[m] = t * Len(items) /\ h[0] = 0
    <2>1. g[m] = Len(items) /\ g[0] = 0 BY <1>6, <1>7 DEF Cuts
    <2>2. m \in 0..m /\ 0 \in 0..m BY <1>6
    <2>3. t * 0 = 0 OBVIOUS
    <2> QED BY <1>10, <2>1, <2>2, <2>3
  <1>17. Expected(x) = f
    <2>1. Remainder(x) = 1..m BY <1>3, <1>6 DEF Remainder
    <2> QED BY <1>3, <1>9, <2>1 DEF Expected
  <1>18. Owed(x, p) \in {SumFunction(f), 0} BY <1>17 DEF Owed
  <1>19. PICK v \in Nat : v = t * Len(items) BY <1>8
  <1>20. SumFunction(f) = v BY <1>15, <1>16, <1>19
  <1>21. PICK u \in Nat : u = t * ItemCount(task) BY <1>8
  <1>22. v <= u
    <2>1. CASE t = 0 BY <1>8, <1>19, <1>21, <2>1
    <2>2. CASE t # 0
      <3>1. PICK a \in Int, b \in Int : a = Len(items) /\ b = ItemCount(task) BY <1>8
      <3>2. a <= b /\ t \in Nat \ {0} BY <1>8, <2>2, <3>1
      <3>3. a * t <= b * t BY <3>2, Scaling
      <3>4. a * t = v /\ b * t = u BY <1>8, <1>19, <1>21, <3>1
      <3> QED BY <3>3, <3>4
    <2> QED BY <2>1, <2>2
  <1> QED BY <1>2, <1>4, <1>18, <1>20, <1>21, <1>22

-----------------------------------------------------------------------------
(* What all of them owe together.                                           *)

WithinQuota(quota, balance, owing) ==
  /\ \A d \in Process : 2 * owing[d] <= quota
  /\ 2 * (balance + SumFunction(owing)) <= (Cardinality(Process) + 1) * quota

(* A process that owes less by what it adds to the balance.                 *)
LEMMA StaysWithin ==
  ASSUME NEW quota \in Nat, NEW b \in Int, NEW c \in Int, NEW d \in Process,
         NEW old \in [Process -> Nat], NEW new \in [Process -> Nat],
         \A x \in Process \ {d} : new[x] = old[x],
         c + new[d] <= b + old[d], new[d] <= old[d], WithinQuota(quota, b, old)
  PROVE  WithinQuota(quota, c, new)
  <1>1. IsFiniteSet(Process) BY DispatchAssumptions
  <1>2. /\ SumFunction(old) \in Nat /\ SumFunction(new) \in Nat
        /\ SumFunction(new) + old[d] = SumFunction(old) + new[d]
    BY <1>1, SumChange
  <1>3. PICK n \in Nat : n = Cardinality(Process) BY <1>1, FS_CardinalityType
  <1>4. PICK k \in Nat : k = (n + 1) * quota OBVIOUS
  <1>5. 2 * (b + SumFunction(old)) <= k BY <1>3, <1>4 DEF WithinQuota
  <1>6. old[d] \in Nat /\ new[d] \in Nat OBVIOUS
  <1>7. 2 * (c + SumFunction(new)) <= k BY <1>2, <1>5, <1>6
  <1>8. ASSUME NEW x \in Process PROVE 2 * new[x] <= quota
    <2>1. 2 * old[x] <= quota BY DEF WithinQuota
    <2>2. old[x] \in Nat /\ new[x] \in Nat OBVIOUS
    <2>3. new[x] <= old[x] BY <1>6
    <2> QED BY <2>1, <2>2, <2>3
  <1> QED BY <1>3, <1>4, <1>7, <1>8 DEF WithinQuota

(* A process that owed nothing commits to less than half of what is left.   *)
LEMMA CommitsWithin ==
  ASSUME NEW quota \in Nat, NEW used \in Nat, NEW c \in Int, NEW d \in Process,
         NEW old \in [Process -> Nat], NEW new \in [Process -> Nat],
         \A x \in Process \ {d} : new[x] = old[x],
         \A x \in Process : 2 * old[x] <= quota,
         c <= used, 2 * new[d] < quota - used
  PROVE  WithinQuota(quota, c, new)
  <1>1. IsFiniteSet(Process) BY DispatchAssumptions
  <1>2. PICK n \in Nat \ {0} : n = Cardinality(Process)
    BY <1>1, FS_CardinalityType, FS_EmptySet
  <1>3. new[d] \in Nat OBVIOUS
  <1>4. \A x \in Process : new[x] \in Nat /\ 2 * new[x] <= quota
    <2>1. ASSUME NEW x \in Process PROVE new[x] \in Nat /\ 2 * new[x] <= quota
      <3>1. CASE x = d BY <1>3, <3>1
      <3>2. CASE x # d BY <3>2
      <3> QED BY <3>1, <3>2
    <2> QED BY <2>1
  <1>5. /\ Without(new, d) \in [Process \ {d} -> Int]
        /\ SumFunction(new) \in Int /\ SumFunction(Without(new, d)) \in Int
        /\ SumFunction(new) = new[d] + SumFunction(Without(new, d))
    <2>1. new \in [Process -> Int] OBVIOUS
    <2> QED BY <1>1, <2>1, SumSplit
  <1>6. IsFiniteSet(Process \ {d}) /\ Cardinality(Process \ {d}) = n - 1
    BY <1>1, <1>2, FS_RemoveElement
  <1>7. PICK two \in Int : two = 2 OBVIOUS
  <1>8. \A x \in Process \ {d} : two * Without(new, d)[x] <= quota BY <1>4, <1>7 DEF Without
  <1>9. two * SumFunction(Without(new, d)) <= (n - 1) * quota
    <2>1. PICK f, D : f = Without(new, d) /\ D = Process \ {d} OBVIOUS
    <2>2. f \in [D -> Int] /\ IsFiniteSet(D) /\ Cardinality(D) = n - 1
          /\ \A x \in D : two * f[x] <= quota
      BY <1>5, <1>6, <1>8, <2>1
    <2>3. f \in [D -> Int] /\ IsFiniteSet(D) BY <2>2
    <2>4. quota \in Int /\ \A x \in D : two * f[x] <= quota BY <2>2
    <2> HIDE <2>1, <2>2
    <2>5. two * SumFunction(f) <= Cardinality(D) * quota BY <1>7, <2>3, <2>4, SumBound
    <2> QED BY <2>1, <2>2, <2>5
  <1>10. PICK s \in Int : s = SumFunction(Without(new, d)) BY <1>5
  <1>11. PICK k \in Int : k = n * quota OBVIOUS
  <1>12. (n - 1) * quota = k - quota /\ (n + 1) * quota = k + quota BY <1>11
  <1>13. 2 * s <= k - quota BY <1>7, <1>9, <1>10, <1>12
  <1>14. 2 * (c + SumFunction(new)) <= k + quota
    <2>1. SumFunction(new) = new[d] + s BY <1>5, <1>10
    <2> QED BY <1>3, <1>13, <2>1
  <1> QED BY <1>2, <1>4, <1>12, <1>14 DEF WithinQuota

-----------------------------------------------------------------------------
(* The third invariant: what is spent and owed.                             *)

BalanceOf(account, used) == ((account.checked - account.beyond) - account.all) + used

Balance(p) == BalanceOf(spent[p], Used(events, p, day))

Owing(works, p) == [d \in Process |-> Owed(works[d], p)]

IsAccount(account) ==
  /\ account.all \in Nat /\ account.checked \in Nat /\ account.beyond \in Nat
  /\ account.checked <= account.all

Accounts(sums) == sums = [p \in Provider |-> sums[p]] /\ \A p \in Provider : IsAccount(sums[p])

Solvent ==
  /\ Accounts(spent)
  /\ \A p \in Provider : \A quota \in TotalQuota[p] : WithinQuota(quota, Balance(p), Owing(work, p))

LEMMA OwingIs ==
  ASSUME NEW works, NEW E, NEW p,
         \A d \in Process : works[d] = Idle \/ (IsWork(works[d]) /\ OnTask(works[d], E))
  PROVE  Owing(works, p) \in [Process -> Nat]
  <1>1. ASSUME NEW d \in Process PROVE Owed(works[d], p) \in Nat
    <2>1. CASE works[d] = Idle BY <2>1, IdleOwes
    <2>2. CASE works[d] # Idle
      <3>1. IsWork(works[d]) /\ OnTask(works[d], E) BY <2>2
      <3>2. works[d].stage = "executing" => IsExecuting(works[d]) BY <3>1, StageOf DEF IsWork
      <3> QED BY <3>1, <3>2, OwedIs
    <2> QED BY <2>1, <2>2
  <1> QED BY <1>1 DEF Owing

LEMMA WorkIsKnown ==
  ASSUME Sound, Informed
  PROVE  \A d \in Process : work[d] = Idle \/ (IsWork(work[d]) /\ OnTask(work[d], Written))
  BY DEF Sound, WorkInv, Informed

(* Both before and after a step.                                            *)
LEMMA OwingBoth ==
  ASSUME Sound, Informed, Sound', Informed', NEW p
  PROVE  Owing(work, p) \in [Process -> Nat] /\ Owing(work', p) \in [Process -> Nat]
  <1>1. Owing(work, p) \in [Process -> Nat] BY WorkIsKnown, OwingIs
  <1>2. \A d \in Process : work'[d] = Idle \/ (IsWork(work'[d]) /\ OnTask(work'[d], Written'))
    BY DEF Sound, WorkInv, Informed
  <1>3. Owing(work', p) \in [Process -> Nat] BY <1>2, OwingIs
  <1> QED BY <1>1, <1>3

LEMMA QuotaIs ==
  ASSUME NEW p \in Provider, NEW quota \in TotalQuota[p]
  PROVE  quota \in Nat
  BY DispatchAssumptions

(* What is used is a number.                                                *)
LEMMA UsedType ==
  ASSUME LedgerInv, Informed, NEW p
  PROVE  Used(events, p, day) \in Nat
  <1>1. PICK S : S = Written OBVIOUS
  <1>2. PICK s : s = events OBVIOUS
  <1>3. s \in Seq(S) BY <1>1, <1>2, EventsKnown
  <1>4. UsesCounted(S) BY <1>1 DEF UsesCounted, WellFormed, Informed
  <1>5. CASE s = <<>>
    <2>1. UsesAt(s, p, day) = {} BY <1>5 DEF UsesAt
    <2>2. PICK f : f = [i \in UsesAt(s, p, day) |-> s[i].actualTokens] OBVIOUS
    <2>3. DOMAIN f = {} /\ f = [x \in {} |-> 0] BY <2>1, <2>2
    <2>4. Used(s, p, day) = SumFunction(f) BY <2>2 DEF Used
    <2> QED BY <1>2, <2>3, <2>4, SumOfNothing
  <1>6. CASE s # <<>>
    <2>1. s[1] \in S BY <1>3, <1>6
    <2> QED BY <1>2, <1>3, <1>4, <2>1, UsedAppend
  <1> QED BY <1>5, <1>6

LEMMA BalanceIs ==
  ASSUME Sound, Informed, Solvent, NEW p \in Provider
  PROVE  Balance(p) \in Int
  <1>1. PICK u \in Nat : u = Used(events, p, day) BY UsedType DEF Sound
  <1>2. IsAccount(spent[p]) BY DEF Solvent, Accounts
  <1> QED BY <1>1, <1>2 DEF Balance, BalanceOf, IsAccount

(* What one process pays or no longer owes.                                 *)
LEMMA SolventStep ==
  ASSUME Sound, Informed, Solvent, Sound', Informed', NEW d \in Process,
         NEW next, work' = [work EXCEPT ![d] = next],
         NEW p \in Provider, NEW quota \in TotalQuota[p],
         NEW b \in Int, NEW c \in Int, b = Balance(p),
         c + Owed(next, p) <= b + Owed(work[d], p), Owed(next, p) <= Owed(work[d], p)
  PROVE  WithinQuota(quota, c, Owing(work', p))
  <1>1. PICK old, new : old = Owing(work, p) /\ new = Owing(work', p) OBVIOUS
  <1>2. old \in [Process -> Nat] /\ new \in [Process -> Nat] BY <1>1, OwingBoth
  <1>3. work = [x \in Process |-> work[x]] BY DEF Sound, WorkInv
  <1>4. work'[d] = next /\ \A x \in Process \ {d} : work'[x] = work[x] BY <1>3
  <1>5. old[d] = Owed(work[d], p) /\ new[d] = Owed(next, p) BY <1>1, <1>4 DEF Owing
  <1>6. \A x \in Process \ {d} : new[x] = old[x] BY <1>1, <1>4 DEF Owing
  <1>7. WithinQuota(quota, b, old) BY <1>1 DEF Solvent
  <1>8. quota \in Nat BY QuotaIs
  <1>9. c + new[d] <= b + old[d] /\ new[d] <= old[d] BY <1>5
  <1> QED BY <1>1, <1>2, <1>6, <1>7, <1>8, <1>9, StaysWithin

(* The same for a step that writes e, which may end in the process' death.  *)
LEMMA SolventWrite ==
  ASSUME Sound, Informed, Solvent, Sound', Informed', NEW d \in Process,
         NEW e, NEW next, Appends(d, e, next), day' = day,
         NEW p \in Provider, IsAccount(spent'[p]), NEW owed \in Nat, owed = Owed(next, p),
         BalanceOf(spent'[p], UseOf(e, p, day)) + owed <= BalanceOf(spent[p], 0) + Owed(work[d], p),
         owed <= Owed(work[d], p)
  PROVE  \A quota \in TotalQuota[p] : WithinQuota(quota, Balance(p)', Owing(work', p))
  <1>1. Writes(e) BY DEF Appends, Records, DiesRecording, Writes
  <1>2. LedgerInv /\ \A x \in Written' : WellFormed(x, day') BY DEF Sound, Informed
  <1>3. PICK u, v, z : /\ u = Used(events, p, day) /\ v = Used(events', p, day)
                       /\ z = UseOf(e, p, day)
    OBVIOUS
  <1>4. u \in Nat /\ v \in Nat /\ z \in Nat /\ v <= u + z BY <1>1, <1>2, <1>3, UsedAfterWrite
  <1>5. PICK b, c : b = Balance(p) /\ c = BalanceOf(spent'[p], v) OBVIOUS
  <1>6. c = Balance(p)' BY <1>3, <1>5 DEF Balance
  <1>7. PICK a \in Nat : a = Owed(work[d], p)
    <2>1. Owing(work, p) \in [Process -> Nat] BY OwingBoth
    <2>2. Owing(work, p)[d] = Owed(work[d], p) BY DEF Owing
    <2> QED BY <2>1, <2>2
  <1>8. PICK s, t : s = spent[p] /\ t = spent'[p] OBVIOUS
  <1>9. IsAccount(s) /\ IsAccount(t) BY <1>8 DEF Solvent, Accounts
  <1>10. BalanceOf(t, z) + owed <= BalanceOf(s, 0) + a BY <1>3, <1>7, <1>8
  <1>11. b = BalanceOf(s, u) /\ c = BalanceOf(t, v) BY <1>3, <1>5, <1>8 DEF Balance
  <1>12. b \in Int /\ c \in Int /\ c + owed <= b + a
    BY <1>4, <1>9, <1>10, <1>11 DEF IsAccount, BalanceOf
  <1>13. ASSUME NEW quota \in TotalQuota[p] PROVE WithinQuota(quota, c, Owing(work', p))
    <2>1. CASE work' = [work EXCEPT ![d] = next]
      <3>1. c + Owed(next, p) <= b + Owed(work[d], p) /\ Owed(next, p) <= Owed(work[d], p)
        BY <1>7, <1>12
      <3> QED BY <1>5, <1>12, <2>1, <3>1, SolventStep
    <2>2. CASE work' = [work EXCEPT ![d] = Idle]
      <3>1. PICK idle : idle = Idle OBVIOUS
      <3>2. Owed(idle, p) = 0 BY <3>1, IdleOwes
      <3>3. c + Owed(idle, p) <= b + Owed(work[d], p) /\ Owed(idle, p) <= Owed(work[d], p)
        BY <1>7, <1>12, <3>2
      <3>4. work' = [work EXCEPT ![d] = idle] BY <2>2, <3>1
      <3> QED BY <1>5, <1>12, <3>3, <3>4, SolventStep
    <2> QED BY <2>1, <2>2 DEF Appends, Records, DiesRecording
  <1> QED BY <1>6, <1>13

(* A write that is no use of a provider, by a process that owes no more.    *)
LEMMA SolventUnused ==
  ASSUME Sound, Informed, Solvent, Sound', Informed', NEW d \in Process,
         NEW e, NEW next, Appends(d, e, next), day' = day, spent' = spent, ~IsUsage(e),
         \A p \in Provider : Owed(next, p) = 0 \/ Owed(next, p) = Owed(work[d], p)
  PROVE  Solvent'
  <1>1. Accounts(spent') BY DEF Solvent
  <1>2. ASSUME NEW p \in Provider
        PROVE  \A quota \in TotalQuota[p] : WithinQuota(quota, Balance(p)', Owing(work', p))
    <2>1. UseOf(e, p, day) = 0 BY DEF UseOf
    <2>2. PICK a \in Nat : a = Owed(work[d], p)
      <3>1. Owing(work, p) \in [Process -> Nat] BY OwingBoth
      <3>2. Owing(work, p)[d] = Owed(work[d], p) BY DEF Owing
      <3> QED BY <3>1, <3>2
    <2>3. PICK owed \in Nat : owed = Owed(next, p) BY <2>2
    <2>4. owed <= a BY <2>2, <2>3
    <2>5. IsAccount(spent[p]) /\ IsAccount(spent'[p]) BY DEF Solvent, Accounts
    <2>6. BalanceOf(spent'[p], 0) = BalanceOf(spent[p], 0) /\ BalanceOf(spent[p], 0) \in Int
      BY <2>5 DEF BalanceOf, IsAccount
    <2>7. BalanceOf(spent'[p], UseOf(e, p, day)) + owed
            <= BalanceOf(spent[p], 0) + Owed(work[d], p)
      BY <2>1, <2>2, <2>4, <2>6
    <2> QED BY <2>2, <2>3, <2>4, <2>5, <2>7, SolventWrite
  <1> QED BY <1>1, <1>2 DEF Solvent

(* A step without a write.                                                  *)
LEMMA SolventSilent ==
  ASSUME Sound, Informed, Solvent, Sound', Informed', NEW d \in Process, NEW next,
         UNCHANGED <<file, day, spent>>, work' = [work EXCEPT ![d] = next],
         \A p \in Provider : Owed(next, p) = 0 \/ Owed(next, p) = Owed(work[d], p)
  PROVE  Solvent'
  <1>1. Accounts(spent') BY DEF Solvent
  <1>2. ASSUME NEW p \in Provider, NEW quota \in TotalQuota[p]
        PROVE  WithinQuota(quota, Balance(p)', Owing(work', p))
    <2>1. Balance(p)' = Balance(p) BY DEF Balance, events
    <2>2. PICK a \in Nat : a = Owed(work[d], p)
      <3>1. Owing(work, p) \in [Process -> Nat] BY OwingBoth
      <3>2. Owing(work, p)[d] = Owed(work[d], p) BY DEF Owing
      <3> QED BY <3>1, <3>2
    <2>3. PICK b : b = Balance(p) OBVIOUS
    <2>4. b \in Int BY <2>3, BalanceIs
    <2>5. b + Owed(next, p) <= b + Owed(work[d], p) /\ Owed(next, p) <= Owed(work[d], p)
      BY <2>2, <2>4
    <2> QED BY <2>1, <2>3, <2>4, <2>5, SolventStep
  <1> QED BY <1>1, <1>2 DEF Solvent

LEMMA NothingOwed ==
  ASSUME NEW w, NEW p, w.stage = "predicting" \/ w = Idle
  PROVE  Owed(w, p) = 0
  BY IdleOwes DEF Owed, Owes

(* Who has a task to predict or to route owes nothing.                      *)
LEMMA HandOwes ==
  ASSUME Sound, NEW d \in Process, NEW w \in InHand(d), w.stage = "predicting", NEW p
  PROVE  Owed(work[d], p) = 0
  <1>1. w = work[d] \/ work[d] = Idle BY InHandIs DEF Sound
  <1> QED BY <1>1, NothingOwed

LEMMA RecordPredictionSolvent ==
  ASSUME Sound, Informed, Solvent, Sound', Informed', NEW d \in Process, RecordPrediction(d)
  PROVE  Solvent'
  <1>1. PICK w \in InHand(d), all \in Prediction :
          /\ w.stage = "predicting"
          /\ Appends(d, [type |-> "prediction-recorded", task |-> w.id,
                         predictionId |-> Len(w.predictions) + 1,
                         agent |-> all[Len(w.predictions) + 1].agent,
                         predictedTokens |-> all[Len(w.predictions) + 1].predictedTokens],
                     [w EXCEPT !.predictions = Append(@, all[Len(w.predictions) + 1])])
    BY DEF RecordPrediction
  <1> DEFINE n == Len(w.predictions) + 1
             e == [type |-> "prediction-recorded", task |-> w.id, predictionId |-> n,
                   agent |-> all[n].agent, predictedTokens |-> all[n].predictedTokens]
             next == [w EXCEPT !.predictions = Append(@, all[n])]
  <1>2. Appends(d, e, next) /\ day' = day /\ spent' = spent BY <1>1 DEF RecordPrediction
  <1>3. IsPredicting(w) BY <1>1, InHandIs, StageOf DEF IsWork, Sound
  <1>4. next.stage = "predicting" /\ e.type = "prediction-recorded" BY <1>1, <1>3 DEF IsPredicting
  <1> HIDE DEF n, e, next
  <1>5. ~IsUsage(e) BY <1>4 DEF IsUsage
  <1>6. \A p \in Provider : Owed(next, p) = 0 BY <1>4, NothingOwed
  <1> QED BY <1>2, <1>5, <1>6, SolventUnused

(* The quota gate commits to less than half of what it reads is left.       *)
LEMMA RouteSolvent ==
  ASSUME Sound, Informed, Solvent, Sound', Informed', NEW d \in Process, Route(d)
  PROVE  Solvent'
  <1>a. PICK w \in InHand(d) : \E route :
          /\ IsPredicting(w) /\ w.task \in Tasks
          /\ route = Decision(w.task, w.predictions) \/ route = RankedOverride(w.task)
          /\ Appends(d, RouteEvent(w, route), IF route.approved THEN Enters(w, route) ELSE Idle)
    BY RouteIs
  <1>1. PICK route :
          /\ IsPredicting(w) /\ w.task \in Tasks
          /\ route = Decision(w.task, w.predictions) \/ route = RankedOverride(w.task)
          /\ Appends(d, RouteEvent(w, route), IF route.approved THEN Enters(w, route) ELSE Idle)
    BY <1>a
  <1>2. /\ route.approved => IsRoute(route, w.task)
        /\ Affordable(route, w.task, [p \in Provider |-> remaining(p)])
    BY <1>1, RouteDecided
  <1>3. PICK e, x : e = RouteEvent(w, route) /\ x = Enters(w, route) OBVIOUS
  <1>4. ~IsUsage(e) BY <1>3 DEF IsUsage, RouteEvent
  <1>5. x.stage = "executing" /\ x.route = route /\ x.results = <<>> /\ x.task = w.task
    BY <1>3 DEF Enters
  <1>6. day' = day /\ spent' = spent BY DEF Route
  <1>7. \A p : Owed(work[d], p) = 0 BY <1>1, HandOwes, StageOf
  <1>8. PICK next : next = IF route.approved THEN x ELSE Idle OBVIOUS
  <1>9. Appends(d, e, next) BY <1>1, <1>3, <1>8
  <1>10. CASE \A p \in Provider : Owed(next, p) = 0
    BY <1>4, <1>6, <1>9, <1>10, SolventUnused
  <1>11. CASE \E p \in Provider : Owed(next, p) # 0
    <2>1. PICK q \in Provider : Owed(next, q) # 0 BY <1>11
    <2>2. route.approved /\ next = x BY <1>8, <2>1, IdleOwes
    <2>3. route.gate = "step-2-quota-buffer" /\ route.provider = {q}
      BY <1>5, <2>1, <2>2 DEF Owed, Owes
    <2>4. PICK r \in Provider : /\ route.provider = {r}
                                /\ \E left \in remaining(r) :
                                     2 * (Profile[r].tokensPerItem * ItemCount(w.task)) < left
      BY <1>2, <2>3 DEF Affordable
    <2>5. r = q BY <2>3, <2>4
    <2>6. PICK u \in Nat : u = Used(events, q, day) BY UsedType DEF Sound
    <2>7. PICK limit \in TotalQuota[q] :
            2 * (Profile[q].tokensPerItem * ItemCount(w.task)) < Larger(0, limit - u)
      BY <2>4, <2>5, <2>6, UsedIs DEF remaining
    <2>8. PICK owed \in Nat : /\ owed = Owed(next, q)
                              /\ owed <= Profile[q].tokensPerItem * ItemCount(w.task)
      BY <1>1, <1>2, <1>5, <2>2, <2>3, OwedAtFirst
    <2>9. PICK cost \in Nat : cost = Profile[q].tokensPerItem * ItemCount(w.task)
      <3>1. Profile[q].tokensPerItem \in Nat BY ProfileIs
      <3>2. ItemCount(w.task) \in Nat BY <1>1, TaskIs
      <3> QED BY <3>1, <3>2
    <2>10. limit \in Nat BY QuotaIs
    <2>11. 2 * cost < limit - u
      <3>1. 2 * cost < Larger(0, limit - u) BY <2>7, <2>9
      <3> QED BY <2>6, <2>9, <2>10, <3>1 DEF Larger
    <2>12. 2 * owed < limit - u BY <2>6, <2>8, <2>9, <2>10, <2>11
    <2>13. owed # 0 BY <2>1, <2>8
    <2>14. Accounts(spent') BY <1>6 DEF Solvent
    <2>15. ASSUME NEW p \in Provider
           PROVE  \A quota \in TotalQuota[p] : WithinQuota(quota, Balance(p)', Owing(work', p))
      <3>1. CASE Owed(next, p) = 0
        <4>1. UseOf(e, p, day) = 0 BY <1>4 DEF UseOf
        <4>2. PICK zero \in Nat : zero = 0 OBVIOUS
        <4>3. IsAccount(spent[p]) /\ IsAccount(spent'[p]) BY <1>6 DEF Solvent, Accounts
        <4>4. BalanceOf(spent'[p], 0) = BalanceOf(spent[p], 0) /\ BalanceOf(spent[p], 0) \in Int
          BY <1>6, <4>3 DEF BalanceOf, IsAccount
        <4>5. BalanceOf(spent'[p], UseOf(e, p, day)) + zero
                <= BalanceOf(spent[p], 0) + Owed(work[d], p)
          BY <1>7, <4>1, <4>2, <4>4
        <4>6. zero = Owed(next, p) /\ zero <= Owed(work[d], p) BY <1>7, <3>1, <4>2
        <4> QED BY <1>6, <1>9, <4>3, <4>5, <4>6, SolventWrite
      <3>2. CASE Owed(next, p) # 0
        <4>1. p = q BY <1>5, <2>2, <2>3, <3>2 DEF Owed, Owes
        <4>2. ASSUME NEW quota \in TotalQuota[q]
              PROVE  WithinQuota(quota, Balance(q)', Owing(work', q))
          <5>1. quota = limit BY DispatchAssumptions
          <5>2. quota \in Nat BY QuotaIs
          <5>3. PICK old, new : old = Owing(work, q) /\ new = Owing(work', q) OBVIOUS
          <5>4. old \in [Process -> Nat] /\ new \in [Process -> Nat] BY <5>3, OwingBoth
          <5>5. work = [y \in Process |-> work[y]] BY DEF Sound, WorkInv
          <5>6. work' \in {[work EXCEPT ![d] = next], [work EXCEPT ![d] = Idle]}
            BY <1>9 DEF Appends, Records, DiesRecording
          <5>7. work'[d] \in {next, Idle} /\ \A y \in Process \ {d} : work'[y] = work[y]
            BY <5>5, <5>6
          <5>8. \A y \in Process \ {d} : new[y] = old[y] BY <5>3, <5>7 DEF Owing
          <5>9. new[d] = owed \/ new[d] = 0 BY <2>8, <5>3, <5>7, IdleOwes DEF Owing
          <5>10. 2 * new[d] < quota - u
            BY <2>6, <2>8, <2>12, <5>1, <5>2, <5>9
          <5>11. WithinQuota(quota, Balance(q), old) BY <5>3 DEF Solvent
          <5>12. \A y \in Process : 2 * old[y] <= quota BY <5>11 DEF WithinQuota
          <5>13. PICK v \in Nat : v = Used(events', q, day) /\ v <= u
            <6>1. Writes(e) BY <1>9 DEF Appends, Records, DiesRecording, Writes
            <6>2. LedgerInv /\ \A y \in Written' : WellFormed(y, day') BY DEF Sound, Informed
            <6>3. UseOf(e, q, day) = 0 BY <1>4 DEF UseOf
            <6>4. /\ Used(events', q, day) \in Nat
                  /\ Used(events', q, day) <= Used(events, q, day) + UseOf(e, q, day)
              BY <6>1, <6>2, UsedAfterWrite
            <6> QED BY <2>6, <6>3, <6>4
          <5>14. PICK c : c = Balance(q)' OBVIOUS
          <5>15. c = BalanceOf(spent[q], v) BY <1>6, <5>13, <5>14 DEF Balance
          <5>16. IsAccount(spent[q]) BY DEF Solvent, Accounts
          <5>17. c \in Int /\ c <= u BY <2>6, <5>13, <5>15, <5>16 DEF BalanceOf, IsAccount
          <5> QED BY <2>6, <5>2, <5>3, <5>4, <5>8, <5>10, <5>12, <5>14, <5>17, CommitsWithin
        <4> QED BY <4>1, <4>2
      <3> QED BY <3>1, <3>2
    <2> QED BY <2>14, <2>15 DEF Solvent
  <1> QED BY <1>10, <1>11

LEMMA BalanceAdds ==
  ASSUME NEW account, IsAccount(account), NEW z \in Nat
  PROVE  /\ BalanceOf(account, 0) \in Int
         /\ BalanceOf(account, z) = BalanceOf(account, 0) + z
  BY DEF BalanceOf, IsAccount

(* The tokens an event records for a batch that was expected to take some.  *)
Bills(tokens, real, expected) ==
  (tokens = 0 /\ real = expected) \/ tokens = real

LEMMA RecordedCosts ==
  ASSUME NEW tokens \in Nat, NEW real \in Nat, NEW expected \in Nat,
         Bills(tokens, real, expected)
  PROVE  /\ Larger(0, real - expected) \in Nat /\ tokens <= real
         /\ tokens - Larger(0, real - expected) <= expected
  BY DEF Larger, Bills

(* What one batch costs, and what it was expected to cost.                  *)
LEMMA SpendIs ==
  ASSUME Accounts(spent), NEW w, NEW expected \in Nat, NEW tokens \in Nat,
         ProviderOf(w) \in Provider, spent' = Spend(w, expected, tokens)
  PROVE  /\ Accounts(spent')
         /\ \A p \in Provider \ {ProviderOf(w)} : spent'[p] = spent[p]
         /\ LET q == ProviderOf(w)
            IN  BalanceOf(spent'[q], 0) =
                  BalanceOf(spent[q], 0)
                    - (IF w.route.gate = "step-2-quota-buffer" THEN Larger(0, tokens - expected)
                       ELSE tokens)
  <1> DEFINE q == ProviderOf(w)
             old == spent[q]
             checked == IF w.route.gate = "step-2-quota-buffer" THEN tokens ELSE 0
             beyond == IF w.route.gate = "step-2-quota-buffer" THEN Larger(0, tokens - expected)
                       ELSE 0
             new == [all |-> old.all + tokens, checked |-> old.checked + checked,
                     beyond |-> old.beyond + beyond]
  <1>1. spent = [p \in Provider |-> spent[p]] /\ \A p \in Provider : IsAccount(spent[p])
    BY DEF Accounts
  <1>2. spent' = [spent EXCEPT ![q] = new] BY DEF Spend
  <1>3. /\ checked \in Nat /\ beyond \in Nat /\ checked <= tokens
        /\ checked - beyond - tokens =
             0 - (IF w.route.gate = "step-2-quota-buffer" THEN Larger(0, tokens - expected)
                  ELSE tokens)
    BY DEF Larger
  <1>4. /\ new.all = old.all + tokens /\ new.checked = old.checked + checked
        /\ new.beyond = old.beyond + beyond
    OBVIOUS
  <1>5. IsAccount(old) BY <1>1
  <1>6. spent'[q] = new /\ \A p \in Provider \ {q} : spent'[p] = spent[p]
    <2> HIDE DEF new
    <2> QED BY <1>1, <1>2
  <1>7. spent' = [p \in Provider |-> spent'[p]]
    <2> HIDE DEF new
    <2> QED BY <1>1, <1>2
  <1>8. PICK cost \in Nat :
          cost = IF w.route.gate = "step-2-quota-buffer" THEN Larger(0, tokens - expected)
                 ELSE tokens
    BY DEF Larger
  <1>9. checked - beyond - tokens = 0 - cost BY <1>3, <1>8
  <1> HIDE DEF new, old, checked, beyond, q
  <1>10. IsAccount(new) BY <1>3, <1>4, <1>5 DEF IsAccount
  <1>11. BalanceOf(new, 0) = BalanceOf(old, 0) - cost
    BY <1>3, <1>4, <1>5, <1>9 DEF BalanceOf, IsAccount
  <1>12. \A p \in Provider : IsAccount(spent'[p]) BY <1>1, <1>6, <1>10
  <1> QED BY <1>6, <1>7, <1>8, <1>11, <1>12 DEF Accounts, old, q

Expects(w, expected) ==
  /\ Len(w.results) + 1 \in 1..Len(w.route.batchPlan)
  /\ expected = w.route.batchPlan[Len(w.results) + 1].expectedTokens

LEMMA ExecutesSolvent ==
  ASSUME Sound, Informed, Solvent, Sound', Informed', NEW d \in Process, day' = day,
         work[d].stage = "executing", NEW expected \in Nat, Expects(work[d], expected),
         NEW type \in {"task-completed", "task-failed"}, NEW parsed,
         NEW tokens \in Nat, NEW real \in Nat,
         Bills(tokens, real, expected),
         Executes(d, type, tokens, parsed), spent' = Spend(work[d], expected, real)
  PROVE  Solvent'
  <1>0. PICK w : w = work[d] OBVIOUS
  <1> DEFINE batch == w.route.batchPlan[Len(w.results) + 1]
             result == [tokens |-> tokens, items |-> batch.items, parsed |-> parsed]
             n == Len(w.results)
             e == [type |-> type, task |-> w.id, provider |-> ProviderOf(w),
                   batchIndex |-> Len(w.results), actualTokens |-> tokens, day |-> day]
             x == [w EXCEPT !.results = Append(w.results, result)]
             next == OnceFinished(x)
             q == ProviderOf(w)
  <1>1. IsExecuting(w) /\ w.task \in Tasks /\ Underway(w) /\ w.stage = "executing"
    BY <1>0, ExecutingKnown
  <1>2. q \in Provider /\ w.route.provider = {q} BY <1>1, ExecutionIs DEF Underway
  <1>3. Appends(d, e, next) BY <1>0 DEF Executes
  <1>4. PICK S : w.results \in Seq(S) BY <1>1 DEF IsExecuting
  <1>5. PICK results : results = Append(w.results, result) OBVIOUS
  <1> HIDE DEF result
  <1>6. Len(results) = Len(w.results) + 1 BY <1>4, <1>5
  <1>7. x.stage = w.stage /\ x.route = w.route /\ Len(x.results) = n + 1
    BY <1>1, <1>5, <1>6 DEF IsExecuting
  <1>8. e.type = type /\ IsUsage(e) /\ e.provider = q /\ e.actualTokens = tokens /\ e.day = day
    BY DEF IsUsage
  <1>9. next = x \/ next = Idle BY DEF OnceFinished
  <1> HIDE DEF n, e, x, next, q
  <1>10. UseOf(e, q, day) = tokens /\ \A p \in Provider \ {q} : UseOf(e, p, day) = 0
    BY <1>8 DEF UseOf
  <1>11. /\ Accounts(spent') /\ \A p \in Provider \ {q} : spent'[p] = spent[p]
         /\ BalanceOf(spent'[q], 0) =
              BalanceOf(spent[q], 0)
                - (IF w.route.gate = "step-2-quota-buffer" THEN Larger(0, real - expected)
                   ELSE real)
    BY <1>0, <1>2, SpendIs DEF Solvent, q
  <1>12. ASSUME NEW p \in Provider PROVE Owed(work[d], p) \in Nat
    <2>1. Owing(work, p) \in [Process -> Nat] BY OwingBoth
    <2>2. Owing(work, p)[d] = Owed(work[d], p) BY DEF Owing
    <2> QED BY <2>1, <2>2
  <1>13. ASSUME NEW p \in Provider, Owes(w, p)
         PROVE  Owed(w, p) = expected + Owed(x, p)
    <2>1. /\ Len(w.results) + 1 \in 1..Len(w.route.batchPlan)
          /\ expected = w.route.batchPlan[Len(w.results) + 1].expectedTokens
          /\ Len(x.results) = Len(w.results) + 1
      BY <1>0, <1>7 DEF Expects, n
    <2>2. PICK y : y = x OBVIOUS
    <2>3. y.stage = w.stage /\ y.route = w.route /\ Len(y.results) = Len(w.results) + 1
      BY <1>7, <2>1, <2>2
    <2>4. IsExecuting(w) /\ w.task \in Tasks /\ Underway(w) /\ Owes(w, p) BY <1>1, <1>13
    <2>5. Len(w.results) + 1 \in 1..Len(w.route.batchPlan) BY <2>1
    <2>6. Owed(w, p) = w.route.batchPlan[Len(w.results) + 1].expectedTokens + Owed(y, p)
      BY <2>3, <2>4, <2>5, OwedAfterBatch
    <2> QED BY <2>1, <2>2, <2>6
  <1>14. ASSUME NEW p \in Provider, ~Owes(w, p) PROVE Owed(x, p) = 0 /\ Owed(w, p) = 0
    BY <1>7, <1>14 DEF Owed, Owes
  <1>15. ASSUME NEW p \in Provider
         PROVE  \A quota \in TotalQuota[p] : WithinQuota(quota, Balance(p)', Owing(work', p))
    <2>1. IsAccount(spent[p]) /\ IsAccount(spent'[p]) BY <1>11 DEF Solvent, Accounts
    <2>b. BalanceOf(spent[p], 0) \in Int /\ BalanceOf(spent'[p], 0) \in Int
      <3>1. 0 \in Nat OBVIOUS
      <3> QED BY <2>1, <3>1, BalanceAdds
    <2>2. PICK b \in Int : b = BalanceOf(spent[p], 0) BY <2>b
    <2>3. PICK c \in Int : c = BalanceOf(spent'[p], 0) BY <2>b
    <2>4. PICK z : z = UseOf(e, p, day) OBVIOUS
    <2>5. PICK a \in Nat : a = Owed(work[d], p) BY <1>12
    <2>6. CASE Owes(w, p)
      <3>1. p = q /\ w.route.gate = "step-2-quota-buffer" BY <1>2, <2>6 DEF Owes
      <3>2. c = b - Larger(0, real - expected) /\ z = tokens BY <1>10, <1>11, <2>2, <2>3, <2>4, <3>1
      <3>3. PICK cost \in Nat : cost = Larger(0, real - expected) /\ tokens - cost <= expected
        BY RecordedCosts
      <3>4. PICK rest : rest = Owed(x, p) OBVIOUS
      <3>5. a = expected + rest BY <1>0, <1>13, <2>5, <2>6, <3>4
      <3>6. rest \in Nat /\ rest <= a
        <4>1. \A m, k \in Nat : k <= m + k OBVIOUS
        <4>2. rest \in Nat
          <5>1. Expected(x) \in [Remainder(x) -> Nat] /\ IsFiniteSet(Remainder(x))
            <6>1. Remainder(x) = (n + 1 + 1)..Len(w.route.batchPlan) BY <1>7 DEF Remainder
            <6>2. /\ Len(w.route.batchPlan) \in Nat /\ n \in Nat
                  /\ \A i \in 1..Len(w.route.batchPlan) :
                       w.route.batchPlan[i].expectedTokens \in Nat
              BY <1>0, <1>1, ExecutionIs DEF Underway, n
            <6>3. n + 1 + 1 \in Int /\ Len(w.route.batchPlan) \in Int BY <6>2
            <6>4. IsFiniteSet(Remainder(x)) BY <6>1, <6>3, FS_Interval
            <6>5. \A i \in Remainder(x) : w.route.batchPlan[i].expectedTokens \in Nat
              BY <6>1, <6>2
            <6>6. Expected(x) = [i \in Remainder(x) |-> w.route.batchPlan[i].expectedTokens]
              BY <1>7 DEF Expected
            <6> QED BY <6>4, <6>5, <6>6
          <5>2. SumFunction(Expected(x)) \in Nat BY <5>1, SumType
          <5> QED BY <3>4, <5>2 DEF Owed
        <4> QED BY <3>5, <4>1, <4>2
      <3>7. PICK owed \in Nat : owed = Owed(next, p) /\ owed <= rest
        <4>1. Owed(next, p) = rest \/ Owed(next, p) = 0 BY <1>9, <3>4, IdleOwes
        <4> QED BY <3>6, <4>1
      <3>8. z \in Nat BY <3>2
      <3>9. BalanceOf(spent'[p], z) = c + z BY <2>1, <2>3, <3>8, BalanceAdds
      <3>10. c + z + owed <= b + a BY <3>2, <3>3, <3>5, <3>6, <3>7
      <3>11. BalanceOf(spent'[p], UseOf(e, p, day)) + owed
               <= BalanceOf(spent[p], 0) + Owed(work[d], p)
        BY <2>2, <2>4, <2>5, <3>9, <3>10
      <3>12. owed <= Owed(work[d], p) BY <2>5, <3>6, <3>7
      <3> QED BY <1>3, <2>1, <3>7, <3>11, <3>12, SolventWrite
    <2>7. CASE ~Owes(w, p)
      <3>1. a = 0 BY <1>0, <1>14, <2>5, <2>7
      <3>2. PICK owed \in Nat : owed = 0 /\ owed = Owed(next, p)
        BY <1>9, <1>14, <2>7, IdleOwes
      <3>3. z \in Nat /\ c + z <= b
        <4>1. CASE p = q
          <5>1. w.route.gate # "step-2-quota-buffer" BY <1>1, <1>2, <2>7, <4>1 DEF Owes
          <5>2. c = b - real /\ z = tokens BY <1>10, <1>11, <2>2, <2>3, <2>4, <4>1, <5>1
          <5>3. tokens <= real BY RecordedCosts
          <5> QED BY <5>2, <5>3
        <4>2. CASE p # q BY <1>10, <1>11, <2>2, <2>3, <2>4, <4>2
        <4> QED BY <4>1, <4>2
      <3>4. BalanceOf(spent'[p], z) = c + z BY <2>1, <2>3, <3>3, BalanceAdds
      <3>5. BalanceOf(spent'[p], UseOf(e, p, day)) + owed
               <= BalanceOf(spent[p], 0) + Owed(work[d], p)
        BY <2>2, <2>4, <2>5, <3>1, <3>2, <3>3, <3>4
      <3>6. owed <= Owed(work[d], p) BY <2>5, <3>1, <3>2
      <3> QED BY <1>3, <2>1, <3>2, <3>5, <3>6, SolventWrite
    <2> QED BY <2>6, <2>7
  <1> QED BY <1>11, <1>15 DEF Solvent

LEMMA ExecuteBatchSolvent ==
  ASSUME Sound, Informed, Solvent, Sound', Informed', NEW d \in Process, ExecuteBatch(d)
  PROVE  Solvent'
  <1> DEFINE w == work[d]
             batch == w.route.batchPlan[Len(w.results) + 1]
  <1>1. /\ w.stage = "executing" /\ Len(w.results) + 1 \in 1..Len(w.route.batchPlan)
        /\ batch.expectedTokens \in Nat
        /\ \/ \E tokens \in Nat : \E parsed :
                /\ Executes(d, "task-completed", tokens, parsed)
                /\ spent' = Spend(w, batch.expectedTokens, tokens)
           \/ /\ Executes(d, "task-failed", 0, {})
              /\ spent' = Spend(w, batch.expectedTokens, batch.expectedTokens)
    BY ExecuteIs
  <1>2. day' = day BY DEF ExecuteBatch
  <1>3. PICK expected \in Nat : expected = batch.expectedTokens BY <1>1
  <1>4. Expects(w, expected) BY <1>1, <1>3 DEF Expects
  <1>5. CASE \E tokens \in Nat : \E parsed :
               /\ Executes(d, "task-completed", tokens, parsed)
               /\ spent' = Spend(w, batch.expectedTokens, tokens)
    <2>1. PICK tokens \in Nat : \E parsed :
               /\ Executes(d, "task-completed", tokens, parsed)
               /\ spent' = Spend(w, batch.expectedTokens, tokens)
      BY <1>5
    <2>2. PICK parsed :
               /\ Executes(d, "task-completed", tokens, parsed)
               /\ spent' = Spend(w, batch.expectedTokens, tokens)
      BY <2>1
    <2>3. Executes(d, "task-completed", tokens, parsed) /\ spent' = Spend(w, expected, tokens)
      BY <1>3, <2>2
    <2>4. Bills(tokens, tokens, expected) BY DEF Bills
    <2> QED BY <1>1, <1>2, <1>4, <2>3, <2>4, ExecutesSolvent
  <1>6. CASE /\ Executes(d, "task-failed", 0, {})
             /\ spent' = Spend(w, batch.expectedTokens, batch.expectedTokens)
    <2>1. PICK none : none = {} OBVIOUS
    <2>2. PICK zero \in Nat : zero = 0 OBVIOUS
    <2>3. Executes(d, "task-failed", zero, none) /\ spent' = Spend(w, expected, expected)
      BY <1>3, <1>6, <2>1, <2>2
    <2>4. Bills(zero, expected, expected) BY <2>2 DEF Bills
    <2> QED BY <1>1, <1>2, <1>4, <2>3, <2>4, ExecutesSolvent
  <1> QED BY <1>1, <1>5, <1>6

LEMMA MarkedOwes ==
  ASSUME NEW w, NEW x, x.stage = w.stage, x.route = w.route, x.results = w.results, NEW p
  PROVE  /\ Owed(x, p) = 0 \/ Owed(x, p) = Owed(w, p)
         /\ Owed(OnceFinished(x), p) = 0 \/ Owed(OnceFinished(x), p) = Owed(w, p)
  <1>1. Owed(x, p) = Owed(w, p) BY OwedAlike
  <1>2. OnceFinished(x) = Idle \/ OnceFinished(x) = x BY DEF OnceFinished
  <1>3. PICK y : y = OnceFinished(x) OBVIOUS
  <1>4. CASE y = Idle BY <1>1, <1>3, <1>4, IdleOwes
  <1>5. CASE y = x BY <1>1, <1>3, <1>5
  <1> QED BY <1>2, <1>3, <1>4, <1>5

LEMMA PredictQualitySolvent ==
  ASSUME Sound, Informed, Solvent, Sound', Informed', NEW d \in Process, PredictQuality(d)
  PROVE  Solvent'
  <1>1. PICK w : w = work[d] OBVIOUS
  <1>2. IsExecuting(w) BY <1>1, ExecutingKnown DEF PredictQuality
  <1>3. PICK forecast : work' = [work EXCEPT ![d].forecast = forecast] BY DEF PredictQuality
  <1>4. PICK x : x = [w EXCEPT !.forecast = forecast] OBVIOUS
  <1>5. work' = [work EXCEPT ![d] = x] BY <1>1, <1>3, <1>4
  <1>6. x.stage = w.stage /\ x.route = w.route /\ x.results = w.results
    BY <1>2, <1>4 DEF IsExecuting
  <1>7. \A p \in Provider : Owed(x, p) = 0 \/ Owed(x, p) = Owed(w, p) BY <1>6, MarkedOwes
  <1>8. UNCHANGED <<file, day, spent>> BY DEF PredictQuality
  <1> QED BY <1>1, <1>5, <1>7, <1>8, SolventSilent

(* A process that writes what is no use and marks its work.                 *)
LEMMA MarkedSolvent ==
  ASSUME Sound, Informed, Solvent, Sound', Informed', NEW d \in Process,
         NEW e, NEW x, Appends(d, e, OnceFinished(x)), day' = day, spent' = spent, ~IsUsage(e),
         x.stage = work[d].stage, x.route = work[d].route, x.results = work[d].results
  PROVE  Solvent'
  <1>1. PICK w, next : w = work[d] /\ next = OnceFinished(x) OBVIOUS
  <1>2. x.stage = w.stage /\ x.route = w.route /\ x.results = w.results BY <1>1
  <1>3. \A p \in Provider : Owed(next, p) = 0 \/ Owed(next, p) = Owed(w, p)
    BY <1>1, <1>2, MarkedOwes
  <1>4. \A p \in Provider : Owed(next, p) = 0 \/ Owed(next, p) = Owed(work[d], p) BY <1>1, <1>3
  <1>5. Appends(d, e, next) BY <1>1
  <1> QED BY <1>4, <1>5, SolventUnused

LEMMA ScoreBatchSolvent ==
  ASSUME Sound, Informed, Solvent, Sound', Informed', NEW d \in Process, ScoreBatch(d)
  PROVE  Solvent'
  <1> DEFINE w == work[d]
             i == CHOOSE j \in Unscored(w) : \A k \in Unscored(w) : j <= k
             e == [type |-> "batch-quality-scored", task |-> w.id, batchIndex |-> i - 1,
                   provider |-> ProviderOf(w), workload |-> w.task.workload,
                   score |-> combinedScore(w, i),
                   ratio |-> ContextRatio(ProviderOf(w), Size(w, i))]
             x == [w EXCEPT !.scored = i]
  <1>1. /\ w.stage = "executing" /\ day' = day /\ spent' = spent
        /\ Appends(d, e, OnceFinished(x))
    BY DEF ScoreBatch
  <1>2. IsExecuting(w) BY <1>1, ExecutingKnown
  <1>3. ~IsUsage(e) BY DEF IsUsage
  <1> HIDE DEF e, i
  <1>4. x.stage = w.stage /\ x.route = w.route /\ x.results = w.results
    BY <1>2 DEF IsExecuting
  <1> HIDE DEF x
  <1> QED BY <1>1, <1>3, <1>4, MarkedSolvent

LEMMA RecordTraceSolvent ==
  ASSUME Sound, Informed, Solvent, Sound', Informed', NEW d \in Process, RecordTrace(d)
  PROVE  Solvent'
  <1> DEFINE w == work[d]
             x == [w EXCEPT !.traced = TRUE]
  <1>1. w.stage = "executing" /\ day' = day /\ spent' = spent BY DEF RecordTrace
  <1>2. PICK accuracy :
          Appends(d, [type |-> "execution-trace-recorded", task |-> w.id,
                      accuracy |-> accuracy], OnceFinished(x))
    BY DEF RecordTrace
  <1>3. PICK e : e = [type |-> "execution-trace-recorded", task |-> w.id, accuracy |-> accuracy]
    OBVIOUS
  <1>4. ~IsUsage(e) /\ Appends(d, e, OnceFinished(x)) BY <1>2, <1>3 DEF IsUsage
  <1>5. IsExecuting(w) BY <1>1, ExecutingKnown
  <1>6. x.stage = w.stage /\ x.route = w.route /\ x.results = w.results
    BY <1>5 DEF IsExecuting
  <1> HIDE DEF x
  <1> QED BY <1>1, <1>4, <1>6, MarkedSolvent

LEMMA RecordOutcomeSolvent ==
  ASSUME Sound, Informed, Solvent, Sound', Informed', NEW d \in Process, RecordOutcome(d)
  PROVE  Solvent'
  <1> DEFINE w == work[d]
             n == w.settled + 1
             actual == SumFunction([i \in DOMAIN w.results |-> w.results[i].tokens])
             x == [w EXCEPT !.settled = n]
             Outcome(prediction) ==
               [type |-> "reputation-updated", task |-> w.id, predictionId |-> n,
                agent |-> w.predictions[n].agent,
                predictedTokens |-> prediction.predictedTokens,
                actualTokens |-> actual, day |-> day,
                accuracy |-> computeAccuracy(prediction.predictedTokens, actual)]
  <1>1. w.stage = "executing" /\ day' = day /\ spent' = spent BY DEF RecordOutcome
  <1>2. IsExecuting(w) BY <1>1, ExecutingKnown
  <1>3. CASE work' = [work EXCEPT ![d] = Idle] /\ UNCHANGED <<file, acked, cut>>
    <2>1. PICK idle : idle = Idle OBVIOUS
    <2>2. \A p \in Provider : Owed(idle, p) = 0 BY <2>1, IdleOwes
    <2>3. work' = [work EXCEPT ![d] = idle] BY <1>3, <2>1
    <2>4. UNCHANGED <<file, day, spent>> BY <1>1, <1>3
    <2> QED BY <2>2, <2>3, <2>4, SolventSilent
  <1>4. CASE ~(work' = [work EXCEPT ![d] = Idle] /\ UNCHANGED <<file, acked, cut>>)
    <2>1. PICK prediction \in recorded(w, n) : Appends(d, Outcome(prediction), OnceFinished(x))
      BY <1>4 DEF RecordOutcome
    <2>2. PICK e : e = Outcome(prediction) OBVIOUS
    <2>3. ~IsUsage(e) BY <2>2 DEF IsUsage
    <2>4. Appends(d, e, OnceFinished(x)) BY <2>1, <2>2
    <2> HIDE DEF n, actual, Outcome
    <2>5. x.stage = w.stage /\ x.route = w.route /\ x.results = w.results
      BY <1>2 DEF IsExecuting
    <2> HIDE DEF x
    <2> QED BY <1>1, <2>3, <2>4, <2>5, MarkedSolvent
  <1> QED BY <1>3, <1>4

(* Nothing in the ledger is of a day that has not come.                     *)
LEMMA NothingUsedYet ==
  ASSUME NEW known, NEW p, NEW today \in Nat, NEW before \in Nat, before < today,
         \A i \in DOMAIN known : WellFormed(known[i], before)
  PROVE  Used(known, p, today) = 0
  <1>1. UsesAt(known, p, today) = {}
    <2>1. SUFFICES ASSUME NEW i \in UsesAt(known, p, today) PROVE FALSE OBVIOUS
    <2>2. i \in DOMAIN known /\ IsUsage(known[i]) /\ known[i].day = today BY <2>1 DEF UsesAt
    <2>3. known[i].day \in 0..before BY <2>2 DEF WellFormed
    <2> QED BY <2>2, <2>3
  <1>2. PICK f : f = [i \in UsesAt(known, p, today) |-> known[i].actualTokens] OBVIOUS
  <1>3. DOMAIN f = {} /\ f = [x \in {} |-> 0] BY <1>1, <1>2
  <1>4. Used(known, p, today) = SumFunction(f) BY <1>2 DEF Used
  <1> QED BY <1>3, <1>4, SumOfNothing

LEMMA NothingSpent ==
  ASSUME NEW sums, sums = Nothing
  PROVE  Accounts(sums) /\ \A p \in Provider : BalanceOf(sums[p], 0) = 0
  BY DEF Accounts, Nothing, IsAccount, BalanceOf

(* At midnight what is owed is less than half a quota for each process.     *)
LEMMA OwingFits ==
  ASSUME NEW quota \in Nat, NEW owing \in [Process -> Nat], \A d \in Process : 2 * owing[d] <= quota
  PROVE  WithinQuota(quota, 0, owing)
  <1>1. IsFiniteSet(Process) BY DispatchAssumptions
  <1>2. PICK n \in Nat : n = Cardinality(Process) BY <1>1, FS_CardinalityType
  <1>3. owing \in [Process -> Int] /\ quota \in Int OBVIOUS
  <1>4. PICK two \in Int : two = 2 OBVIOUS
  <1>5. \A d \in Process : two * owing[d] <= quota BY <1>4
  <1>6. two * SumFunction(owing) <= Cardinality(Process) * quota /\ SumFunction(owing) \in Int
    BY <1>1, <1>3, <1>4, <1>5, SumBound
  <1>7. PICK k \in Int : k = n * quota OBVIOUS
  <1>8. (n + 1) * quota = k + quota BY <1>7
  <1>9. 2 * (0 + SumFunction(owing)) <= k + quota BY <1>2, <1>4, <1>6, <1>7
  <1> QED BY <1>2, <1>8, <1>9 DEF WithinQuota

LEMMA NewDaySolvent ==
  ASSUME Sound, Informed, Solvent, NewDay
  PROVE  Solvent'
  <1>1. /\ day' = day + 1 /\ spent' = Nothing /\ UNCHANGED <<file, work>>
    BY DEF NewDay
  <1>2. Accounts(spent') /\ \A p \in Provider : BalanceOf(spent'[p], 0) = 0
    BY <1>1, NothingSpent
  <1>3. PICK known : known = events OBVIOUS
  <1>4. day \in Nat /\ \A i \in DOMAIN known : WellFormed(known[i], day)
    BY <1>3, EventsKnown DEF Sound, Informed
  <1>5. ASSUME NEW p \in Provider, NEW quota \in TotalQuota[p]
        PROVE  WithinQuota(quota, Balance(p)', Owing(work', p))
    <2>1. PICK today \in Nat : today = day + 1 BY <1>4
    <2>2. day < today BY <1>4, <2>1
    <2>3. Used(known, p, today) = 0 BY <1>4, <2>2, NothingUsedYet
    <2>4. Used(events', p, day') = 0 BY <1>1, <1>3, <2>1, <2>3 DEF events
    <2>5. Balance(p)' = 0 BY <1>2, <2>4 DEF Balance
    <2>6. PICK owing : owing = Owing(work, p) OBVIOUS
    <2>7. owing \in [Process -> Nat] BY <2>6, WorkIsKnown, OwingIs
    <2>8. \A d \in Process : 2 * owing[d] <= quota BY <2>6 DEF Solvent, WithinQuota
    <2>9. quota \in Nat BY QuotaIs
    <2>10. WithinQuota(quota, 0, owing) BY <2>7, <2>8, <2>9, OwingFits
    <2> QED BY <1>1, <2>5, <2>6, <2>10
  <1> QED BY <1>2, <1>5 DEF Solvent

LEMMA InitiallySolvent ==
  ASSUME Init
  PROVE  Solvent
  <1>1. /\ acked \in Past /\ work = [d \in Process |-> Idle] /\ day = 1 /\ spent = Nothing
        /\ file = [EmptyFile EXCEPT !.lines = [i \in DOMAIN acked |-> LineOf(acked[i])]]
    BY DEF Init
  <1>2. acked \in Seq(ToSet(acked)) /\ \A i \in DOMAIN acked : WellFormed(acked[i], 0)
    BY <1>1, PastAssumption
  <1>3. file = [lines |-> [i \in DOMAIN acked |-> LineOf(acked[i])], tail |-> {}]
    BY <1>1 DEF EmptyFile
  <1>4. PICK known : known = events /\ known = acked BY <1>2, <1>3, WholeFileReads DEF events
  <1>5. Accounts(spent) /\ \A p \in Provider : BalanceOf(spent[p], 0) = 0
    BY <1>1, NothingSpent
  <1>6. ASSUME NEW p \in Provider, NEW quota \in TotalQuota[p]
        PROVE  WithinQuota(quota, Balance(p), Owing(work, p))
    <2>1. PICK before \in Nat, today \in Nat : before = 0 /\ today = day BY <1>1
    <2>2. before < today BY <1>1, <2>1
    <2>3. \A i \in DOMAIN known : WellFormed(known[i], before) BY <1>2, <1>4, <2>1
    <2>4. Used(known, p, today) = 0 BY <2>2, <2>3, NothingUsedYet
    <2>5. Balance(p) = 0 BY <1>4, <1>5, <2>1, <2>4 DEF Balance
    <2>6. PICK owing : owing = Owing(work, p) OBVIOUS
    <2>7. ASSUME NEW d \in Process PROVE Owed(work[d], p) = 0
      <3>1. PICK w : w = work[d] OBVIOUS
      <3>2. w = Idle
        <4> HIDE DEF Idle
        <4> QED BY <1>1, <3>1
      <3>3. Owed(w, p) = 0 BY <3>2, NothingOwed
      <3> QED BY <3>1, <3>3
    <2>8. quota \in Nat BY QuotaIs
    <2>9. owing \in [Process -> Nat] /\ \A d \in Process : owing[d] = 0 BY <2>6, <2>7 DEF Owing
    <2>10. \A d \in Process : 2 * owing[d] <= quota BY <2>8, <2>9
    <2> QED BY <2>5, <2>6, <2>8, <2>9, <2>10, OwingFits
  <1> QED BY <1>5, <1>6 DEF Solvent

LEMMA StepSolvent ==
  ASSUME Sound, Informed, Solvent, Sound', Informed', [Next]_vars
  PROVE  Solvent'
  <1>1. CASE UNCHANGED vars
    <2>1. spent' = spent /\ work' = work /\ day' = day /\ events' = events BY <1>1 DEF vars, events
    <2>2. \A p \in Provider : Balance(p)' = Balance(p) BY <2>1 DEF Balance
    <2> QED BY <2>1, <2>2 DEF Solvent
  <1>2. ASSUME NEW d \in Process, RecordPrediction(d) PROVE Solvent'
    BY <1>2, RecordPredictionSolvent
  <1>3. ASSUME NEW d \in Process, Route(d) PROVE Solvent' BY <1>3, RouteSolvent
  <1>4. ASSUME NEW d \in Process, ExecuteBatch(d) PROVE Solvent' BY <1>4, ExecuteBatchSolvent
  <1>5. ASSUME NEW d \in Process, PredictQuality(d) PROVE Solvent' BY <1>5, PredictQualitySolvent
  <1>6. ASSUME NEW d \in Process, ScoreBatch(d) PROVE Solvent' BY <1>6, ScoreBatchSolvent
  <1>7. ASSUME NEW d \in Process, RecordTrace(d) PROVE Solvent' BY <1>7, RecordTraceSolvent
  <1>8. ASSUME NEW d \in Process, RecordOutcome(d) PROVE Solvent' BY <1>8, RecordOutcomeSolvent
  <1>9. CASE NewDay BY <1>9, NewDaySolvent
  <1> QED BY <1>1, <1>2, <1>3, <1>4, <1>5, <1>6, <1>7, <1>8, <1>9 DEF Next

LEMMA AlwaysSolvent == Spec => [](Sound /\ Informed /\ Solvent)
  <1>1. Init => Sound /\ Informed /\ Solvent BY InitiallySound, InitiallyInformed, InitiallySolvent
  <1>2. Sound /\ Informed /\ Solvent /\ [Next]_vars => (Sound /\ Informed /\ Solvent)'
    BY StepSound, StepInformed, StepSolvent
  <1> QED BY <1>1, <1>2, PTL DEF Spec

(* Few were written so far, so those of a kind can be counted.              *)
LEMMA WrittenFinite ==
  ASSUME LedgerInv
  PROVE  IsFiniteSet(Written)
  <1>1. acked \in Seq(Written) /\ IsFiniteSet(cut) BY DEF LedgerInv
  <1>2. Len(acked) \in Nat /\ DOMAIN acked = 1..Len(acked) BY <1>1
  <1>3. IsFiniteSet(DOMAIN acked) BY <1>2, FS_Interval
  <1>4. IsFiniteSet(ToSet(acked))
    <2> HIDE DEF Written
    <2>1. acked \in Surjection(DOMAIN acked, ToSet(acked))
      BY <1>1, <1>2 DEF ToSet, Surjection
    <2> QED BY <1>3, <2>1, FS_Surjection
  <1> QED BY <1>1, <1>4, FS_Union DEF Written

(* What is learned, from what was measured, of which `kept' can be read.    *)
Learned(fit, measured, kept) ==
  /\ \A q \in fit : /\ Cardinality(measured) >= MinBucketSamples
                    /\ \E e \in measured : ~Exceeds(q, e.score)
                    /\ \E e \in measured : ~Exceeds(e.score, q)
  /\ Cardinality(measured \cap kept) >= MinBucketSamples => fit # {}

MeasuredIn(E, p, bucket) ==
  {e \in {x \in E : x.type = "batch-quality-scored"} :
     e.provider = p /\ bucketForContextRatio(e.ratio) = bucket}

-----------------------------------------------------------------------------
(* store.js:20-46: however many processes write to the ledger and however   *)
(* many of them die writing, the acknowledged events a reader sees come in  *)
(* the order they were acknowledged in, each once.                          *)
THEOREM ReadInOrder == Spec => []ReadersSeeAppendOrder
  <1>1. Sound => ReadersSeeAppendOrder BY DEF Sound
  <1> QED BY <1>1, AlwaysSound, PTL

(* store.js:20-26, 64-95: readEvents reports a malformed line for every     *)
(* acknowledged event it does not return, and there are no more of those    *)
(* than writes cut short.                                                   *)
THEOREM LossReported == Spec => []LossIsReported
  <1>1. Sound => LossIsReported
    <2> SUFFICES ASSUME Sound PROVE LossIsReported OBVIOUS
    <2>1. file \in FilesOf(Written) /\ LossInv /\ IsFiniteSet(cut) BY DEF Sound, LedgerInv
    <2>2. /\ Cardinality(TornLines(file)) \in Nat
          /\ Cardinality(file.tail) \in {0, 1}
          /\ file.tail = {} <=> Cardinality(file.tail) = 0
          /\ Cardinality(malformedLines(file)) =
               Cardinality(TornLines(file)) + IF file.tail = {Malformed} THEN 1 ELSE 0
      BY <2>1, TornLinesAre
    <2>3. Cardinality(cut) \in Nat BY <2>1, FS_CardinalityType
    <2>4. Cardinality(malformedLines(file)) \in Nat
          /\ Cardinality(TornLines(file)) <= Cardinality(malformedLines(file))
          /\ Cardinality(malformedLines(file)) <=
               Cardinality(TornLines(file)) + Cardinality(file.tail)
      BY <2>2
    <2>5. Cardinality(Lost) \in Nat BY LostIsFinite DEF Sound
    <2> QED BY <2>1, <2>2, <2>3, <2>4, <2>5 DEF LossInv, LossIsReported
  <1> QED BY <1>1, AlwaysSound, PTL

(* reputation.js:199-261: every outcome a reader sees comes after the       *)
(* prediction it was measured against, which says the same of it, whatever  *)
(* lines were lost.                                                         *)
THEOREM OutcomesAuditable == Spec => []OutcomesFollowTheirPredictions
  <1>1. Sound => OutcomesFollowTheirPredictions BY DEF Sound
  <1> QED BY <1>1, AlwaysSound, PTL

(* policy.js:193-215: by the time a task is executed, each of its items was *)
(* in exactly one batch, in order, and no batch was larger than its         *)
(* provider takes, whichever gate approved the route.                       *)
THEOREM PlansCover == Spec => []PlansCoverTheTask
  <1>1. Sound /\ Informed => PlansCoverTheTask
    <2> SUFFICES ASSUME Sound, Informed, NEW d \in Process, work[d].stage = "executing",
                        NEW w, w = work[d], NEW batches,
                        batches = [i \in DOMAIN w.results |-> w.results[i].items]
                 PROVE  /\ \A i \in DOMAIN batches :
                             Len(batches[i]) <= Profile[ProviderOf(w)].maxBatchSize
                        /\ Executed(w) => FlattenSeq(batches) = w.task.items
      BY DEF PlansCoverTheTask
    <2>1. IsExecuting(w) /\ w.task \in Tasks /\ Underway(w) BY ExecutingKnown
    <2>2. /\ w.route.provider = {ProviderOf(w)} /\ Len(w.route.batchPlan) \in Nat
          /\ DOMAIN w.results = 1..Len(w.results) /\ Len(w.results) \in Nat
          /\ Len(w.results) <= Len(w.route.batchPlan)
          /\ \A i \in 1..Len(w.route.batchPlan) :
               Len(w.route.batchPlan[i].items) <= Profile[ProviderOf(w)].maxBatchSize
      BY <2>1, ExecutionIs DEF Underway
    <2>3. batches = [i \in 1..Len(w.results) |-> w.route.batchPlan[i].items]
      BY <2>1, <2>2 DEF Underway
    <2>4. ASSUME NEW i \in DOMAIN batches
          PROVE  Len(batches[i]) <= Profile[ProviderOf(w)].maxBatchSize
      <3>1. i \in 1..Len(w.results) /\ batches[i] = w.route.batchPlan[i].items BY <2>3
      <3>2. i \in 1..Len(w.route.batchPlan) BY <2>2, <3>1
      <3> QED BY <2>2, <3>1, <3>2
    <2>5. ASSUME Executed(w) PROVE FlattenSeq(batches) = w.task.items
      <3>1. PICK plan, items : plan = w.route.batchPlan /\ items = w.task.items OBVIOUS
      <3>2. batches = BatchesOf(plan) BY <2>3, <2>5, <3>1 DEF Executed, BatchesOf
      <3>a. PICK p \in Provider : \E size \in 1..Profile[p].maxBatchSize :
              size \in Nat \ {0} /\ IsPlan(plan, items, size, Profile[p].tokensPerItem)
        BY <2>1, <3>1, RoutePlanIs DEF Underway
      <3>3. PICK size \in 1..Profile[p].maxBatchSize :
              size \in Nat \ {0} /\ IsPlan(plan, items, size, Profile[p].tokensPerItem)
        BY <3>a
      <3>4. PICK t \in Nat : t = Profile[p].tokensPerItem BY ProfileIs
      <3>5. items \in Seq(ToSet(items)) BY <2>1, <3>1, TaskIs
      <3>6. FlattenSeq(batches) = items BY <3>2, <3>3, <3>4, <3>5, PlanCovers
      <3> QED BY <3>1, <3>6
    <2> QED BY <2>4, <2>5
  <1> QED BY <1>1, AlwaysInformed, PTL

(* quorum.js:653-656: a forecast owes nothing to the scores it is later     *)
(* compared with: it is what the workload leaves of a value between the     *)
(* static one and the scores of other tasks, whatever other processes       *)
(* append meanwhile.                                                        *)
THEOREM ForecastsPrecede == Spec => []ForecastsPrecedeScores
  <1>1. Sound /\ Informed => ForecastsPrecedeScores
    <2> SUFFICES ASSUME Sound, Informed, NEW d \in Process, work[d].stage = "executing",
                        NEW i \in DOMAIN work[d].forecast, NEW w, w = work[d]
                 PROVE  /\ \E q \in Priors(w, i, Written) :
                             ~Exceeds(Adjusted(q, w.task.workload), w.forecast[i])
                        /\ \E q \in Priors(w, i, Written) :
                             ~Exceeds(w.forecast[i], Adjusted(q, w.task.workload))
      BY DEF ForecastsPrecedeScores, Priors
    <2>1. Foretold(w, Written) BY ExecutingKnown
    <2> QED BY <2>1 DEF Foretold
  <1> QED BY <1>1, AlwaysInformed, PTL

(* curves.js:181-292: a learned value lies among the scores that were       *)
(* measured for that provider in that band of context load, of which there  *)
(* were enough; and once enough acknowledged scores are still in the        *)
(* ledger, the bucket is learned.                                           *)
THEOREM CurvesAreLearned == Spec => []LearnedFromMeasurements
  <1>1. Sound /\ Informed => LearnedFromMeasurements
    <2> SUFFICES ASSUME Sound, Informed,
                        NEW p \in Provider, NEW workload \in {task.workload : task \in Tasks},
                        NEW bucket \in Bucket
                 PROVE  Learned(fitBucket(events, p, workload, bucket),
                                MeasuredIn(Written, p, bucket), ToSet(events) \cap ToSet(acked))
      BY DEF LearnedFromMeasurements, fitDegradationCurve, Learned, MeasuredIn
    <2>a. PICK known : known = events OBVIOUS
    <2>b. PICK measured : measured = MeasuredIn(Written, p, bucket) OBVIOUS
    <2>c. PICK fit : fit = fitBucket(known, p, workload, bucket) OBVIOUS
    <2>1. /\ Numbers(known, day) /\ known \in Seq(Written) /\ IsInjective(known)
          /\ \A i \in DOMAIN known : known[i] \in Written
      BY <2>a, EventsKnown DEF Sound, Informed
    <2> DEFINE D == MeasuredAt(known, p, bucket)
    <2>2. /\ IsFiniteSet(D)
          /\ \A q \in fit : Cardinality(D) >= MinBucketSamples /\ IsMeasured(q, known, D)
          /\ Cardinality(D) >= MinBucketSamples => fit # {}
      BY <2>1, <2>c, FitBucketIs
    <2>3. \A i \in D : i \in DOMAIN known /\ known[i] \in measured
      BY <2>1, <2>b DEF MeasuredAt, MeasuredIn
    <2>4. \A e \in measured \cap ToSet(known) : \E i \in D : known[i] = e
      BY <2>b DEF MeasuredAt, MeasuredIn, ToSet
    <2> HIDE DEF D
    <2>5. IsFiniteSet(measured)
      <3>1. measured \subseteq Written BY <2>b DEF MeasuredIn
      <3>2. IsFiniteSet(Written) BY WrittenFinite DEF Sound
      <3> HIDE DEF Written
      <3> QED BY <3>1, <3>2, FS_Subset
    <2>6. PICK f : f = [i \in D |-> known[i]] OBVIOUS
    <2>7. Cardinality(D) <= Cardinality(measured)
      <3>1. f \in Injection(D, measured)
        <4>1. f \in [D -> measured] BY <2>3, <2>6
        <4>2. \A i, j \in D : f[i] = f[j] => i = j BY <2>1, <2>3, <2>6 DEF IsInjective
        <4> QED BY <4>1, <4>2, Zenon DEF Injection, IsInjective
      <3> QED BY <2>5, <3>1, FS_Injection
    <2>8. Cardinality(measured) \in Nat /\ Cardinality(D) \in Nat /\ MinBucketSamples \in Nat
      BY <2>2, <2>5, FS_CardinalityType, SamplesAssumption
    <2>9. ASSUME NEW q \in fit
          PROVE  /\ Cardinality(measured) >= MinBucketSamples
                 /\ \E e \in measured : ~Exceeds(q, e.score)
                 /\ \E e \in measured : ~Exceeds(e.score, q)
      <3>1. Cardinality(measured) >= MinBucketSamples BY <2>2, <2>7, <2>8
      <3>2. IsMeasured(q, known, D) BY <2>2
      <3> QED BY <2>3, <3>1, <3>2 DEF IsMeasured
    <2>10. PICK both : both = measured \cap (ToSet(known) \cap ToSet(acked)) OBVIOUS
    <2>11. Cardinality(both) \in Nat /\ Cardinality(both) <= Cardinality(D)
      <3>1. PICK image : image = {f[i] : i \in D} OBVIOUS
      <3>2. f \in Surjection(D, image) BY <2>6, <3>1 DEF Surjection
      <3>3. IsFiniteSet(image) /\ Cardinality(image) <= Cardinality(D)
        BY <2>2, <3>2, FS_Surjection
      <3>4. both \subseteq image BY <2>4, <2>6, <2>10, <3>1
      <3>5. IsFiniteSet(both) /\ Cardinality(both) <= Cardinality(image)
        BY <3>3, <3>4, FS_Subset
      <3> QED BY <2>8, <3>3, <3>5, FS_CardinalityType
    <2>12. Cardinality(both) >= MinBucketSamples => fit # {} BY <2>2, <2>8, <2>11
    <2>13. Learned(fit, measured, ToSet(known) \cap ToSet(acked))
      BY <2>9, <2>10, <2>12 DEF Learned
    <2> QED BY <2>a, <2>b, <2>c, <2>13
  <1> QED BY <1>1, AlwaysInformed, PTL

(* policy.js:49-59: nobody skips the quota gate who was never right: a      *)
(* route that step 1 approved names an agent one of whose outcomes was      *)
(* within ten percent of its prediction, and whoever the ledger lets skip   *)
(* the gate has a tier above the lowest, unless only its silence lowered    *)
(* it.                                                                      *)
THEOREM ShortcutsEarned == Spec => []ShortcutNeedsAHit
  <1>1. Sound /\ Informed => ShortcutNeedsAHit
    <2> SUFFICES ASSUME Sound, Informed PROVE ShortcutNeedsAHit OBVIOUS
    <2>1. ShortcutsWereEarned(Written) BY DEF Informed
    <2>2. Numbers(events, day) BY EventsKnown DEF Sound
    <2>3. ASSUME NEW agent,
                 \E trust \in getAgentTrustScore(events, agent, day).trustScore :
                   Exceeds(trust, Over(90, 1))
          PROVE  \/ getAgentTrustScore(events, agent, day).stale
                 \/ getAgentTrustScore(events, agent, day).tier # "red"
      <3>1. PICK known, standing : known = events /\ standing = getAgentTrustScore(known, agent, day)
        OBVIOUS
      <3> QED BY <2>2, <2>3, <3>1, TrustedStanding
    <2> QED BY <2>1, <2>3 DEF ShortcutNeedsAHit
  <1> QED BY <1>1, AlwaysInformed, PTL

(* policy.js:272-293: the quota gate reserves nothing between its reading   *)
(* and the spending, yet n processes commit to no more than (n + 1) / 2     *)
(* quotas of a provider, apart from what batches took beyond their estimate *)
(* and what the ledger never saw.                                           *)
THEOREM QuotaBounded == Spec => []QuotaCommitmentBounded
  <1>1. Sound /\ Informed /\ Solvent => QuotaCommitmentBounded
    <2> SUFFICES ASSUME Sound, Informed, Solvent, NEW p \in Provider, NEW quota \in TotalQuota[p]
                 PROVE  2 * (spent[p].checked + SumFunction([d \in Process |-> Outstanding(d, p)]))
                          <= (Cardinality(Process) + 1) * quota + 2 * (spent[p].beyond + Unseen(p))
      BY DEF QuotaCommitmentBounded
    <2>1. \A d \in Process : Outstanding(d, p) = Owed(work[d], p)
      BY DEF Outstanding, Owed, Owes, Expected, Remainder
    <2>2. [d \in Process |-> Outstanding(d, p)] = Owing(work, p) BY <2>1 DEF Owing
    <2>3. PICK owing \in [Process -> Nat] : owing = Owing(work, p) BY WorkIsKnown, OwingIs
    <2>4. IsFiniteSet(Process) BY DispatchAssumptions
    <2>5. PICK total \in Nat : total = SumFunction(owing) BY <2>3, <2>4, SumType
    <2>6. PICK used \in Nat : used = Used(events, p, day) BY UsedType DEF Sound
    <2>7. PICK s : s = spent[p] OBVIOUS
    <2>8. IsAccount(s) BY <2>7 DEF Solvent, Accounts
    <2>9. PICK n \in Nat : n = Cardinality(Process) BY <2>4, FS_CardinalityType
    <2>10. PICK k \in Nat : k = (n + 1) * quota BY QuotaIs
    <2>11. 2 * (Balance(p) + total) <= k
      BY <2>3, <2>5, <2>9, <2>10 DEF Solvent, WithinQuota
    <2>12. Balance(p) = ((s.checked - s.beyond) - s.all) + used
      BY <2>6, <2>7 DEF Balance, BalanceOf
    <2>13. Unseen(p) = s.all - used BY <2>6, <2>7, UsedIs DEF Unseen
    <2>14. 2 * (s.checked + total) <= k + 2 * (s.beyond + (s.all - used))
      BY <2>8, <2>11, <2>12 DEF IsAccount
    <2> QED BY <2>2, <2>3, <2>5, <2>7, <2>9, <2>10, <2>13, <2>14
  <1> QED BY <1>1, AlwaysSolvent, PTL
=============================================================================
