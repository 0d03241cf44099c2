------------------------------- MODULE Ledger -------------------------------
(***************************************************************************)
(* The JSONL ledger file of packages/dispatch/ledger/store.js, as a value   *)
(* and the operators on it.  No variables: every component that writes the  *)
(* ledger keeps a `file' of this shape and changes it with these operators. *)
(*                                                                          *)
(* A line is a sequence: <<e>> is a line that parses to the event e, <<>>   *)
(* is a line JSON.parse rejects.  `lines' are the newline-terminated lines; *)
(* `tail' holds at most one line, the one a crash left without its newline. *)
(* What is abstracted: the JSON text of an event, timestamps, the creation  *)
(* of the parent directory.                                                 *)
(***************************************************************************)
EXTENDS Naturals, Sequences, SequencesExt

Malformed == <<>>

EmptyFile == [lines |-> <<>>, tail |-> {}]

LineOf(e) == <<e>>

(* What a line becomes when text is written after an unterminated tail: the *)
(* two texts run together, and neither of them parses any more.             *)
Joined(file, e) == IF file.tail = {} THEN LineOf(e) ELSE Malformed

(* Faulty variants of appendEvent: the newline is forgotten; the file is     *)
(* written with writeFileSync.                                              *)
appendWithoutNewline(file, e) == [file EXCEPT !.tail = {Joined(file, e)}]
overwriteFile(file, e) == [lines |-> <<LineOf(e)>>, tail |-> {}]

(* appendEvent: one appendFileSync of the event's JSON and its newline.     *)
appendEvent(file, e) ==
  [lines |-> Append(file.lines, Joined(file, e)), tail |-> {}]

(* The files a crash inside appendFileSync may leave: nothing written, part *)
(* of the JSON written, or all of it without the newline.                   *)
TornAppends(file, e) ==
  {file, [file EXCEPT !.tail = {Malformed}], [file EXCEPT !.tail = {Joined(file, e)}]}

AllLines(file) == file.lines \o SetToSeq(file.tail)

(* Faulty variant of readEvents: newest first.                              *)
readNewestFirst(file) == Reverse(FlattenSeq(AllLines(file)))

(* readEvents: the events of the lines that parse, oldest first.            *)
readEvents(file) == FlattenSeq(AllLines(file))

(* The malformedLines that readEvents reports beside the events.            *)
malformedLines(file) == {i \in DOMAIN AllLines(file) : AllLines(file)[i] = Malformed}

(* e is on a terminated line of the file.                                   *)
Recorded(file, e) == \E i \in DOMAIN file.lines : file.lines[i] = LineOf(e)
=============================================================================
