---------------------------- MODULE MCQuorumRun -----------------------------
(* Values for the constants of QuorumRun that a .cfg cannot write.          *)
EXTENDS QuorumRun

ConflictingOutputs == {{"fifty", "eighty"}}

SomeFailures == {"timeout", "rate_limit", "unauthorized", "connection"}
FewFailures == {"timeout"}
ConnectionFailure == {"connection"}
=============================================================================
