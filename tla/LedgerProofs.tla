---------------------------- MODULE LedgerProofs ----------------------------
(***************************************************************************)
(* What a reader of the ledger file sees, for files of any length: the      *)
(* facts about readEvents that the proofs about every writer of the ledger  *)
(* rest on.  readEvents flattens the lines, a recursion over their number,  *)
(* and the facts are proved by the least natural number refuting them.      *)
(***************************************************************************)
EXTENDS Ledger, FoldProofs, TLAPS

-----------------------------------------------------------------------------
(* The ledger file.                                                         *)

(* A set of at most one line, as a sequence.                                *)
LEMMA NoLine == SetToSeq({}) = <<>>
  <1>1. Cardinality({}) = 0 BY FS_EmptySet
  <1>2. [i \in 1..0 |-> 0] \in [1..0 -> {}] /\ IsInjective([i \in 1..0 |-> 0])
    BY DEF IsInjective
  <1>3. SetToSeq({}) \in [1..0 -> {}] BY <1>1, <1>2 DEF SetToSeq
  <1> QED BY <1>3

LEMMA OneLine ==
  ASSUME NEW l
  PROVE  SetToSeq({l}) = <<l>>
  <1>1. Cardinality({l}) = 1 BY FS_Singleton
  <1>2. [i \in 1..1 |-> l] \in [1..1 -> {l}] /\ IsInjective([i \in 1..1 |-> l])
    BY DEF IsInjective
  <1>3. SetToSeq({l}) \in [1..1 -> {l}] BY <1>1, <1>2 DEF SetToSeq
  <1> QED BY <1>3

(* The files that hold events of S: terminated lines, and at most one more. *)
LinesOf(S) == {Malformed} \cup {LineOf(e) : e \in S}
FilesOf(S) == [lines : Seq(LinesOf(S)), tail : {{}} \cup {{l} : l \in LinesOf(S)}]

(* A file nobody wrote yet is one of them, and holds nothing.               *)
LEMMA EmptyFileReads ==
  ASSUME NEW S
  PROVE  EmptyFile \in FilesOf(S) /\ readEvents(EmptyFile) = <<>>
  <1>1. EmptyFile \in FilesOf(S) BY DEF EmptyFile, FilesOf
  <1>2. AllLines(EmptyFile) = <<>> \o SetToSeq({}) BY DEF AllLines, EmptyFile
  <1>3. AllLines(EmptyFile) = <<>> BY <1>2, NoLine
  <1> QED BY <1>1, <1>3, FlattenEmpty DEF readEvents

(* The lines of a ledger are sequences of its events.                       *)
LEMMA LinesAreSequences ==
  ASSUME NEW S
  PROVE  LinesOf(S) \subseteq Seq(S) /\ Seq(LinesOf(S)) \subseteq Seq(Seq(S))
  <1>1. LinesOf(S) \subseteq Seq(S)
    <2>1. ASSUME NEW e \in S PROVE LineOf(e) \in Seq(S) BY DEF LineOf
    <2>2. Malformed \in Seq(S) BY DEF Malformed
    <2> QED BY <2>1, <2>2 DEF LinesOf
  <1>2. Seq(LinesOf(S)) \subseteq Seq(Seq(S))
    <2>1. ASSUME NEW s \in Seq(LinesOf(S)) PROVE s \in Seq(Seq(S)) BY <1>1, <2>1
    <2> QED BY <2>1
  <1> QED BY <1>1, <1>2

(* What a reader of a file sees, with and without a torn line.              *)
LEMMA ReadEventsIs ==
  ASSUME NEW S, NEW f \in FilesOf(S)
  PROVE  /\ FlattenSeq(f.lines) \in Seq(S)
         /\ readEvents(f) \in Seq(S)
         /\ f.tail = {} => readEvents(f) = FlattenSeq(f.lines)
         /\ \A l : f.tail = {l} => readEvents(f) = FlattenSeq(f.lines) \o l
  <1>1. f.lines \in Seq(Seq(S)) /\ f.tail \in {{}} \cup {{l} : l \in LinesOf(S)}
    BY LinesAreSequences DEF FilesOf
  <1>2. FlattenSeq(f.lines) \in Seq(S) BY <1>1, FlattenType
  <1>3. ASSUME f.tail = {} PROVE readEvents(f) = FlattenSeq(f.lines)
    <2>1. AllLines(f) = f.lines \o <<>> BY <1>3, NoLine DEF AllLines
    <2>2. f.lines \o <<>> = f.lines BY <1>1
    <2> QED BY <2>1, <2>2 DEF readEvents
  <1>4. ASSUME NEW l, f.tail = {l}
        PROVE  l \in Seq(S) /\ readEvents(f) = FlattenSeq(f.lines) \o l
    <2>1. l \in LinesOf(S) BY <1>1, <1>4
    <2>2. l \in Seq(S) BY <2>1, LinesAreSequences
    <2>3. AllLines(f) = f.lines \o <<l>> BY <1>4, OneLine DEF AllLines
    <2>4. f.lines \o <<l>> = Append(f.lines, l) BY <1>1, <2>2
    <2> QED BY <1>1, <2>2, <2>3, <2>4, FlattenAppend DEF readEvents
  <1>5. readEvents(f) \in Seq(S)
    <2>1. CASE f.tail = {} BY <1>2, <1>3, <2>1
    <2>2. CASE f.tail # {}
      <3>1. PICK l : f.tail = {l} BY <1>1, <2>2
      <3>2. l \in Seq(S) /\ readEvents(f) = FlattenSeq(f.lines) \o l BY <1>4, <3>1
      <3> QED BY <1>2, <3>2
    <2> QED BY <2>1, <2>2
  <1> QED BY <1>2, <1>3, <1>4, <1>5
(* The events a write finds on the terminated lines: all a reader could     *)
(* see, or all but the last, when the torn line still parsed.               *)
LEMMA BeforeTheTail ==
  ASSUME NEW S, NEW f \in FilesOf(S)
  PROVE  \/ FlattenSeq(f.lines) = readEvents(f)
         \/ /\ f.tail # {}
            /\ readEvents(f) # <<>>
            /\ FlattenSeq(f.lines) = SubSeq(readEvents(f), 1, Len(readEvents(f)) - 1)
  <1> DEFINE s == FlattenSeq(f.lines)
  <1>1. s \in Seq(S) BY ReadEventsIs
  <1> HIDE DEF s
  <1>2. CASE f.tail = {} BY <1>2, ReadEventsIs DEF s
  <1>3. CASE f.tail # {}
    <2>1. PICK l \in LinesOf(S) : f.tail = {l} BY <1>3 DEF FilesOf
    <2>2. readEvents(f) = s \o l BY <2>1, ReadEventsIs DEF s
    <2>3. CASE l = Malformed
      <3>1. s \o <<>> = s BY <1>1
      <3> QED BY <2>2, <2>3, <3>1 DEF Malformed, s
    <2>4. CASE \E e \in S : l = LineOf(e)
      <3>1. PICK e \in S : l = <<e>> BY <2>4 DEF LineOf
      <3>2. s \o <<e>> = Append(s, e) BY <1>1
      <3>3. /\ Append(s, e) # <<>> /\ Len(Append(s, e)) - 1 = Len(s)
            /\ SubSeq(Append(s, e), 1, Len(s)) = s
        BY <1>1
      <3> QED BY <1>3, <2>2, <3>1, <3>2, <3>3 DEF s
    <2> QED BY <2>1, <2>3, <2>4 DEF LinesOf
  <1> QED BY <1>2, <1>3

(* What a write after a torn line amounts to.                               *)
LEMMA JoinedIs ==
  ASSUME NEW S, NEW f \in FilesOf(S), NEW e \in S
  PROVE  /\ Joined(f, e) \in LinesOf(S) /\ Joined(f, e) \in Seq(S)
         /\ f.tail = {} => FlattenSeq(f.lines) \o Joined(f, e) = Append(readEvents(f), e)
         /\ f.tail # {} => FlattenSeq(f.lines) \o Joined(f, e) = FlattenSeq(f.lines)
  <1> DEFINE s == FlattenSeq(f.lines)
  <1>1. s \in Seq(S) BY ReadEventsIs
  <1>2. Joined(f, e) \in LinesOf(S) BY DEF Joined, LinesOf
  <1>3. Joined(f, e) \in Seq(S) BY <1>2, LinesAreSequences
  <1>4. s \o <<e>> = Append(s, e) /\ s \o <<>> = s BY <1>1
  <1>5. f.tail = {} => Joined(f, e) = <<e>> /\ readEvents(f) = s
    BY ReadEventsIs DEF Joined, LineOf
  <1>6. f.tail # {} => Joined(f, e) = <<>> BY DEF Joined, Malformed
  <1> HIDE DEF s
  <1>7. /\ f.tail = {} => s \o Joined(f, e) = Append(readEvents(f), e)
        /\ f.tail # {} => s \o Joined(f, e) = s
    BY <1>4, <1>5, <1>6
  <1> QED BY <1>2, <1>3, <1>7 DEF s

(* appendEvent: the file stays a ledger, ends in a whole line, and holds    *)
(* the event unless a torn line came before it.                             *)
LEMMA AppendReads ==
  ASSUME NEW S, NEW f \in FilesOf(S), NEW e \in S
  PROVE  /\ appendEvent(f, e) \in FilesOf(S)
         /\ appendEvent(f, e).tail = {}
         /\ f.tail = {} => readEvents(appendEvent(f, e)) = Append(readEvents(f), e)
         /\ f.tail # {} => readEvents(appendEvent(f, e)) = FlattenSeq(f.lines)
  <1> DEFINE g == appendEvent(f, e)
  <1>1. g.tail = {} /\ g.lines = Append(f.lines, Joined(f, e)) BY DEF appendEvent
  <1>2. g \in FilesOf(S) BY JoinedIs DEF appendEvent, FilesOf
  <1>3. f.lines \in Seq(Seq(S)) BY LinesAreSequences DEF FilesOf
  <1>4. FlattenSeq(g.lines) = FlattenSeq(f.lines) \o Joined(f, e)
    <2>1. Joined(f, e) \in Seq(S) BY JoinedIs
    <2>2. FlattenSeq(Append(f.lines, Joined(f, e))) = FlattenSeq(f.lines) \o Joined(f, e)
      BY <1>3, <2>1, FlattenAppend
    <2> QED BY <1>1, <2>2
  <1> HIDE DEF g
  <1>5. readEvents(g) = FlattenSeq(g.lines) BY <1>1, <1>2, ReadEventsIs
  <1>6. /\ f.tail = {} => readEvents(g) = Append(readEvents(f), e)
        /\ f.tail # {} => readEvents(g) = FlattenSeq(f.lines)
    BY <1>4, <1>5, JoinedIs
  <1> QED BY <1>1, <1>2, <1>6 DEF g
(* A write cut short by a crash: the file stays a ledger, and a reader sees *)
(* the old events, without the last one if it was on a torn line, or with   *)
(* the new one.                                                             *)
LEMMA TornReads ==
  ASSUME NEW S, NEW f \in FilesOf(S), NEW e \in S, NEW g \in TornAppends(f, e)
  PROVE  /\ g \in FilesOf(S)
         /\ g.lines = f.lines
         /\ \/ readEvents(g) = readEvents(f)
            \/ readEvents(g) = FlattenSeq(f.lines)
            \/ f.tail = {} /\ readEvents(g) = Append(readEvents(f), e)
  <1> DEFINE torn(l) == [f EXCEPT !.tail = {l}]
  <1>1. ASSUME NEW l \in LinesOf(S)
        PROVE  /\ torn(l) \in FilesOf(S) /\ torn(l).lines = f.lines
               /\ readEvents(torn(l)) = FlattenSeq(f.lines) \o l
    <2>1. torn(l) \in FilesOf(S) /\ torn(l).lines = f.lines /\ torn(l).tail = {l}
      BY DEF FilesOf
    <2> HIDE DEF torn
    <2>2. readEvents(torn(l)) = FlattenSeq(torn(l).lines) \o l BY <2>1, ReadEventsIs
    <2> QED BY <2>1, <2>2
  <1>2. CASE g = f BY <1>2
  <1>3. CASE g = torn(Malformed)
    <2>1. Malformed \in LinesOf(S) BY DEF LinesOf
    <2>2. FlattenSeq(f.lines) \o <<>> = FlattenSeq(f.lines)
      <3>1. FlattenSeq(f.lines) \in Seq(S) BY ReadEventsIs
      <3> QED BY <3>1
    <2> HIDE DEF torn
    <2>3. readEvents(g) = FlattenSeq(f.lines) BY <1>1, <1>3, <2>1, <2>2 DEF Malformed
    <2> QED BY <1>1, <1>3, <2>1, <2>3
  <1>4. CASE g = torn(Joined(f, e))
    <2>1. Joined(f, e) \in LinesOf(S) BY JoinedIs
    <2> HIDE DEF torn
    <2>2. readEvents(g) = FlattenSeq(f.lines) \o Joined(f, e) BY <1>1, <1>4, <2>1
    <2>3. \/ f.tail = {} /\ readEvents(g) = Append(readEvents(f), e)
          \/ readEvents(g) = FlattenSeq(f.lines)
      BY <2>2, JoinedIs
    <2> QED BY <1>1, <1>4, <2>1, <2>3
  <1> QED BY <1>2, <1>3, <1>4 DEF TornAppends

(* The last event of a sequence is gone.                                    *)
WithoutLast(s) == SubSeq(s, 1, Len(s) - 1)

(* store.js:20-46: whatever a write does, finished or cut short, on a file  *)
(* of any length, in whatever state an earlier crash left it, a reader sees *)
(* every event he saw before, in the same order and at the same place,      *)
(* except that the last one may be lost when its line was torn; and at most *)
(* the event being written is new, at the end.                              *)
THEOREM ReadersSeeLogGrow ==
  ASSUME NEW S, NEW f \in FilesOf(S), NEW e \in S,
         NEW g \in {appendEvent(f, e)} \cup TornAppends(f, e)
  PROVE  /\ g \in FilesOf(S)
         /\ \/ readEvents(g) = readEvents(f)
            \/ f.tail = {} /\ readEvents(g) = Append(readEvents(f), e)
            \/ /\ f.tail # {} /\ readEvents(f) # <<>>
               /\ readEvents(g) = WithoutLast(readEvents(f))
  <1>1. /\ g \in FilesOf(S)
        /\ \/ readEvents(g) = readEvents(f)
           \/ readEvents(g) = FlattenSeq(f.lines)
           \/ f.tail = {} /\ readEvents(g) = Append(readEvents(f), e)
    <2>1. CASE g = appendEvent(f, e) BY <2>1, AppendReads
    <2>2. CASE g \in TornAppends(f, e) BY <2>2, TornReads
    <2> QED BY <2>1, <2>2
  <1> QED BY <1>1, BeforeTheTail DEF WithoutLast

-----------------------------------------------------------------------------
(* The events seen, as a set.                                               *)
LEMMA ToSetAppend ==
  ASSUME NEW S, NEW s \in Seq(S), NEW x
  PROVE  ToSet(Append(s, x)) = ToSet(s) \cup {x}
  <1>1. /\ DOMAIN Append(s, x) = 1..(Len(s) + 1) /\ DOMAIN s = 1..Len(s) /\ Len(s) \in Nat
        /\ \A i \in 1..Len(s) : Append(s, x)[i] = s[i]
        /\ Append(s, x)[Len(s) + 1] = x
    OBVIOUS
  <1>2. /\ Len(s) + 1 \in 1..(Len(s) + 1) /\ \A i \in 1..Len(s) : i \in 1..(Len(s) + 1)
        /\ \A i \in 1..(Len(s) + 1) : i \in 1..Len(s) \/ i = Len(s) + 1
    BY <1>1
  <1>3. ToSet(Append(s, x)) \subseteq ToSet(s) \cup {x} BY <1>1, <1>2 DEF ToSet
  <1>4. ToSet(s) \cup {x} \subseteq ToSet(Append(s, x)) BY <1>1, <1>2 DEF ToSet
  <1> QED BY <1>3, <1>4

LEMMA ToSetWithoutLast ==
  ASSUME NEW S, NEW s \in Seq(S), s # <<>>
  PROVE  /\ \A i \in DOMAIN WithoutLast(s) : i \in DOMAIN s /\ WithoutLast(s)[i] = s[i]
         /\ ToSet(WithoutLast(s)) \subseteq ToSet(s)
  <1>1. /\ Len(s) \in Nat \ {0} /\ DOMAIN s = 1..Len(s) /\ DOMAIN WithoutLast(s) = 1..(Len(s) - 1)
        /\ \A i \in 1..(Len(s) - 1) : WithoutLast(s)[i] = s[i]
    BY DEF WithoutLast
  <1>2. \A i \in DOMAIN WithoutLast(s) : i \in DOMAIN s /\ WithoutLast(s)[i] = s[i] BY <1>1
  <1> QED BY <1>2 DEF ToSet
=============================================================================
