---------------------------- MODULE LedgerStore -----------------------------
(***************************************************************************)
(* Processes of the CLI sharing one ledger file: each appends events with   *)
(* appendEvent (ledger/store.js), a power loss may cut one append short and *)
(* the next process starts on the file it left.                             *)
(***************************************************************************)
EXTENDS Ledger, FiniteSets

CONSTANTS Event,        \* the appends there are to make, each made once
          MaxCrashes    \* bound on the crashes of one behaviour

VARIABLES file,     \* the ledger file
          acked,    \* events whose appendEvent returned, in order
          cut       \* events whose appendEvent a crash interrupted

vars == <<file, acked, cut>>

Init ==
  /\ file = EmptyFile
  /\ acked = <<>>
  /\ cut = {}

Unwritten == Event \ (ToSet(acked) \cup cut)

AppendEvent(e) ==
  /\ file' = appendEvent(file, e)
  /\ acked' = Append(acked, e)
  /\ UNCHANGED cut

CrashInAppend(e) ==
  /\ Cardinality(cut) < MaxCrashes
  /\ file' \in TornAppends(file, e)
  /\ cut' = cut \cup {e}
  /\ UNCHANGED acked

Next == \E e \in Unwritten : AppendEvent(e) \/ CrashInAppend(e)

Spec == Init /\ [][Next]_vars

-----------------------------------------------------------------------------
(* store.js:20-25: a last line cut before its newline never loses the valid *)
(* events that precede it, so an event a reader could see stays visible.    *)
ReadableStaysReadable ==
  [][ToSet(readEvents(file)) \subseteq ToSet(readEvents(file'))]_vars

=============================================================================
