-------------------------------- MODULE Align --------------------------------
(***************************************************************************)
(* packages/align/align.js: which candidate sentence restates which claim.  *)
(* align() walks the pairs from the best score down, decides each one       *)
(* matched or ambiguous, attaches supporting fragments, and gives every     *)
(* candidate and every claim it leaves out a reason.                        *)
(***************************************************************************)
EXTENDS Score

(* A faulty canonical: the order of the caller's array.                     *)
asGiven(xs) == xs

(* canonical: in the order of the ids.                                      *)
canonical(xs) ==
  LET place(i) == Cardinality({j \in DOMAIN xs : xs[j].id <= xs[i].id})
  IN  Once([k \in DOMAIN xs |-> xs[CHOOSE i \in DOMAIN xs : place(i) = k]])

Scores(C, D, idf) ==
  LET away(i, j) == AbsDiff(NormOrdinal(i, Len(C)), NormOrdinal(j, Len(D)))
  IN  Once([i \in DOMAIN C |->
              Once([j \in DOMAIN D |-> scorePair(C[i].core, D[j].core, away(i, j), idf)])])

(* The score of every pair, with the weights of the origin claims.          *)
Matrix(C, D) == Scores(C, D, buildIdf(Once([i \in DOMAIN C |-> Bag(C[i].core)])))

(* The first of the claims in I whose score for candidate j is the highest. *)
BestClaim(M, I, j) ==
  {i \in I : \A k \in I : M[k][j] < M[i][j] \/ (M[k][j] = M[i][j] /\ i <= k)}

bestClaimFor(M, j) == BestClaim(M, DOMAIN M, j)

(* Faulty runners-up: claims already held by a candidate count too; the     *)
(* first free claim, however it scores.                                     *)
anyOtherClaim(M, i, j, claimUsed) == BestClaim(M, DOMAIN M \ {i}, j)
firstOtherClaim(M, i, j, claimUsed) ==
  LET free == DOMAIN M \ ({i} \cup claimUsed) IN {k \in free : \A l \in free : k <= l}

(* bestOtherClaim: the runner-up among the claims no candidate holds yet.   *)
bestOtherClaim(M, i, j, claimUsed) == BestClaim(M, DOMAIN M \ ({i} \cup claimUsed), j)

bestCandidateScore(M, i) ==
  CHOOSE s \in {M[i][j] : j \in DOMAIN M[i]} : \A j \in DOMAIN M[i] : M[i][j] <= s

(* The pairs the walk decides, and its order: score descending, then claim, *)
(* then candidate.                                                          *)
Pairs(M) ==
  {p \in UNION {{i} \X DOMAIN M[i] : i \in DOMAIN M} : M[p[1]][p[2]] >= ACCEPT}

Precedes(M, p, q) ==
  LET a == M[p[1]][p[2]]
      b == M[q[1]][q[2]]
  IN  a > b \/ (a = b /\ (p[1] < q[1] \/ (p[1] = q[1] /\ p[2] < q[2])))

LastOf(M, W) == CHOOSE p \in W : \A q \in W : q = p \/ Precedes(M, q, p)

(* What the rows decided so far hold: a matched claim is used, a candidate  *)
(* with a row is, and a claim may have been left ambiguous.                 *)
Matched(rows) == {r \in rows : r.decision = "matched"}
ClaimUsed(rows) == {r.claim : r \in Matched(rows)}
CandUsed(rows) == {r.cand : r \in rows}
Ambiguous(rows) == {r.claim : r \in rows \ Matched(rows)}

(* The row of pair <<i, j>>, with the runners-up for it.                    *)
RowOf(M, i, j, runner) ==
  LET runnerScore == IF runner = {} THEN 0 ELSE CHOOSE s \in {M[k][j] : k \in runner} : TRUE
      close == runner # {} /\ M[i][j] - runnerScore < MARGIN
  IN  [claim |-> i, cand |-> j, score |-> M[i][j], margin |-> M[i][j] - runnerScore,
       runnerUp |-> runner, decision |-> IF close THEN "ambiguous" ELSE "matched"]

(* One pair of the walk, after the rows that the pairs before it left.      *)
DecidePair(M, rows, p) ==
  IF p[1] \in ClaimUsed(rows) \/ p[2] \in CandUsed(rows) THEN rows
  ELSE rows \cup {RowOf(M, p[1], p[2], bestOtherClaim(M, p[1], p[2], ClaimUsed(rows)))}

(* The rows of a walk over W: those of the pairs before its last one, and   *)
(* then that one.                                                           *)
Walk(M) ==
  LET walked[W \in SUBSET Pairs(M)] ==
        IF W = {} THEN {} ELSE DecidePair(M, walked[W \ {LastOf(M, W)}], LastOf(M, W))
  IN  walked[Pairs(M)]

(* The supporting pass: the unused candidates whose best claim is matched   *)
(* and which score enough for it.                                           *)
Supporting(M, rows, n) ==
  {j \in 1..n \ CandUsed(rows) : \E i \in bestClaimFor(M, j) :
     M[i][j] >= SUPPORT /\ i \in ClaimUsed(rows)}

UnalignedReason(M, D, j) ==
  IF D[j].core.quantity = {} THEN "no_quantity"
  ELSE IF \A i \in bestClaimFor(M, j) : M[i][j] < ACCEPT THEN "below_floor"
  ELSE "claim_exhausted"

DroppedReason(M, D, rows, i) ==
  IF Len(D) = 0 THEN "hop_absent"
  ELSE IF i \in Ambiguous(rows) /\ bestCandidateScore(M, i) >= ACCEPT THEN "ambiguous_only"
  ELSE "no_candidate"

(* What align reports of claims C and candidates D with the scores M, once  *)
(* the walk has left rows: each one named by its id, a supporting fragment    *)
(* filed under its claim.                                                   *)
Reported(C, D, M, rows) ==
  LET frags == Supporting(M, rows, Len(D))
      fragsOf(i) == {D[j].id : j \in {k \in frags : i \in bestClaimFor(M, k)}}
      left == DOMAIN D \ (CandUsed(rows) \cup frags)
  IN  [alignments |->
         {[claimId |-> C[r.claim].id, cid |-> D[r.cand].id, hop |-> D[r.cand].hop,
           score |-> r.score, margin |-> r.margin, decision |-> r.decision,
           runnerUp |-> {[claimId |-> C[k].id, score |-> M[k][r.cand]] : k \in r.runnerUp},
           supporting |-> IF r.decision = "matched" THEN fragsOf(r.claim) ELSE {}] : r \in rows},
       unaligned |-> {[cid |-> D[j].id, reason |-> UnalignedReason(M, D, j)] : j \in left},
       dropped |-> {[claimId |-> C[i].id, reason |-> DroppedReason(M, D, rows, i)] :
                      i \in DOMAIN C \ ClaimUsed(rows)}]

(* align: the alignments, the unaligned candidates and the dropped claims.  *)
align(claims, candidates) ==
  LET assigned(C, D, M) == Reported(C, D, M, Walk(M))
      aligned(C, D) == assigned(C, D, Matrix(C, D))
  IN  aligned(canonical(claims), canonical(candidates))
=============================================================================
