--------------------------- MODULE AppendOnlyLog ----------------------------
(* What the header of ledger/store.js promises of the ledger: a log that    *)
(* only ever grows at its end, and whose readers see every event appended.  *)
EXTENDS Sequences

CONSTANT Event

VARIABLE log

Init == log = <<>>

Record(e) == log' = Append(log, e)

Next == \E e \in Event : Record(e)

Spec == Init /\ [][Next]_log
=============================================================================
