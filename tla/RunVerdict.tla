----------------------------- MODULE RunVerdict -----------------------------
(***************************************************************************)
(* What `quorum run && deploy' relies on: a run settles its batches one by  *)
(* one, each usable or not, and may report a pass only when every batch of  *)
(* the plan has been settled as usable.  It may fail at any moment, and a   *)
(* verdict is never revised; the next run starts from nothing.              *)
(***************************************************************************)
CONSTANT Batches

VARIABLES verdict,   \* "open", "pass" or "fail"
          settled,   \* batches with a final outcome
          usable     \* those whose output can be used

vars == <<verdict, settled, usable>>

Init == verdict = "open" /\ settled = {} /\ usable = {}

SettleBatch(b) ==
  /\ verdict = "open"
  /\ b \notin settled
  /\ settled' = settled \cup {b}
  /\ usable' \in {usable, usable \cup {b}}
  /\ UNCHANGED verdict

Pass ==
  /\ verdict = "open"
  /\ settled = Batches
  /\ usable = Batches
  /\ verdict' = "pass"
  /\ UNCHANGED <<settled, usable>>

Fail ==
  /\ verdict = "open"
  /\ verdict' = "fail"
  /\ UNCHANGED <<settled, usable>>

NewRun == verdict # "open" /\ verdict' = "open" /\ settled' = {} /\ usable' = {}

Next == (\E b \in Batches : SettleBatch(b)) \/ Pass \/ Fail \/ NewRun

Spec == Init /\ [][Next]_vars
=============================================================================
