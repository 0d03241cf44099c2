---------------------------- MODULE SlashPolicy ----------------------------
(***************************************************************************)
(* From claims to slashing verdicts: the pairwise comparison of the merge  *)
(* (dispatch/merge/consistency.js) and the policy that reads its result    *)
(* (stake/policy/slash-policy.js).                                         *)
(*                                                                         *)
(* A source stands for a (provider, batchIndex) pair.  Subjects are equal  *)
(* or unrelated, and values are compared on one scale, where within        *)
(* tolerance is not transitive.  A batch makes at most one claim about a   *)
(* subject.                                                                *)
(***************************************************************************)
EXTENDS Naturals

CONSTANTS Source, Subject, Value, NoClaim

ASSUME ClaimAssumption == Value \subseteq Nat /\ NoClaim \notin Value

Claims == [Source -> [Subject -> Value \cup {NoClaim}]]

(* compareClaims: relative tolerance becomes a distance of one. *)
Agree(x, y) == x <= y + 1 /\ y <= x + 1

Pairs == {{q[1], q[2]} : q \in {r \in Source \X Source : r[1] # r[2]}}
Entry == [sides : Pairs, subject : Subject]

Compared(claims) == {e \in Entry : \A s \in e.sides : claims[s][e.subject] # NoClaim}
InAgreement(claims, e) == \A s, t \in e.sides : Agree(claims[s][e.subject], claims[t][e.subject])

crossCheckBatches(claims) ==
  [contradictions |-> {e \in Compared(claims) : ~InAgreement(claims, e)},
   agreements |-> {e \in Compared(claims) : InAgreement(claims, e)}]

Verification == [contradictions : SUBSET Entry, agreements : SUBSET Entry]

Peer(contradiction, side) == CHOOSE s \in contradiction.sides : s # side

(* Whose backing counts: any agreement of the peer's batch with a batch that *)
(* is neither side.                                                          *)
hasThirdPartyAgreement(peer, self, agreements) ==
  \E e \in agreements : peer \in e.sides /\ self \notin e.sides

agreementFlagged(contradiction, agreements) ==
  {s \in contradiction.sides : hasThirdPartyAgreement(Peer(contradiction, s), s, agreements)}

wrongSides(contradiction, agreements, correlatedQualityFailures) ==
  (contradiction.sides \cap correlatedQualityFailures) \cup agreementFlagged(contradiction, agreements)

(* Faulty variant of condemned: of two flagged sides one is picked.          *)
condemnedFirst(contradiction, agreements, correlatedQualityFailures) ==
  LET wrong == wrongSides(contradiction, agreements, correlatedQualityFailures)
  IN  IF wrong = {} THEN {} ELSE {CHOOSE s \in wrong : TRUE}

(* A side is condemned when it is the only one flagged. *)
condemned(contradiction, agreements, correlatedQualityFailures) ==
  LET wrong == wrongSides(contradiction, agreements, correlatedQualityFailures)
  IN  {s \in wrong : wrong = {s}}
=============================================================================
