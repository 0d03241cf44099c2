------------------------------- MODULE Extract -------------------------------
(***************************************************************************)
(* The one parser of packages/align: extract.js turns a document into       *)
(* Parsed cores, mint.js promotes those of the origin document to Claims    *)
(* and those of a downstream document to Candidates.                        *)
(*                                                                          *)
(* A document is a sequence of paragraphs, a paragraph a sequence of        *)
(* sentences, a sentence a record [words, names, raw, caveats]: its content *)
(* stems in order, its names and identifiers, the matches Quantity parses   *)
(* and the caveats in it, [term, kind] each.  A unit is a head noun as it   *)
(* is written; the stem it has is looked up.  Optional values are {} or a   *)
(* singleton.  What is abstracted: spans, quotes, hashes, and the splitting *)
(* of text.                                                                 *)
(***************************************************************************)
EXTENDS Quantity

CONSTANT Stem   \* lexicon.js: the stem of every head noun

ASSUME StemAssumption == None \notin DOMAIN Stem

(* Either side missing is no evidence of a mismatch.                        *)
unitsCompatible(a, b) == a = None \/ b = None \/ Stem[a] = Stem[b]

(* withDenominatorUnit: the head noun after the base names what it counts.  *)
WithUnit(den, noun) == {IF m.unit = None THEN [m EXCEPT !.unit = noun] ELSE m : m \in den}

Counts(q) == q.dimension \in {"count", "dimensionless"}

LeftmostOf(qs) == {q \in qs : \A p \in qs : q.at <= p.at}

Base(q, unit, provenance) == {Magnitude(q.value \div Unit, unit, provenance)}

(* resolveMagnitudes, cases A to C: the numerator and the base of the       *)
(* primary mention q of a sentence with mentions qs, `earlier' being the    *)
(* primary mentions of the sentences of its paragraph before it.            *)
resolveMagnitudes(q, qs, earlier) ==
  LET others == {p \in qs : p # q /\ p.suppressed = None}
      ratios == LeftmostOf({p \in others : p.numerator # {} /\ p.denominator # {}})
      counts == LeftmostOf({p \in others : Counts(p)})
      near == {i \in DOMAIN earlier :
                 \E p \in earlier[i] : Counts(p) /\ unitsCompatible(q.noun, p.noun)}
      nearest == {i \in near : \A j \in near : j <= i}
      none == [numerator |-> {}, denominator |-> {}]
  IN  IF q.numerator # {}
        THEN [numerator |-> q.numerator, denominator |-> WithUnit(q.denominator, q.noun)]
      ELSE IF q.dimension \notin {"percent", "ratio"} THEN none
      ELSE IF ratios # {}
        THEN [numerator |-> UNION {p.numerator : p \in ratios},
              denominator |-> UNION {WithUnit(p.denominator, p.noun) : p \in ratios}]
      ELSE IF counts # {}
        THEN [none EXCEPT !.denominator = UNION {Base(p, p.noun, "derived") : p \in counts}]
      ELSE [none EXCEPT !.denominator =
              UNION {Base(p, p.noun, "inherited") : p \in UNION {earlier[i] : i \in nearest}}]

(* The core of a sentence with the primary mention and the sides found.     *)
Parsed(s, primary, sides) ==
  [words |-> s.words, names |-> s.names, caveats |-> s.caveats,
   quantity |-> primary,
   unit |-> {q.noun : q \in primary} \ {None},
   numerator |-> UNION {m.numerator : m \in sides},
   denominator |-> UNION {m.denominator : m \in sides}]

(* The sentences of one paragraph, each parsed with the primary mentions of *)
(* those before it.                                                         *)
ParagraphRecords(paragraph) ==
  LET mentions == Once([i \in DOMAIN paragraph |-> parseQuantities(paragraph[i].raw)])
      primary == Once([i \in DOMAIN paragraph |-> pickPrimary(mentions[i])])
      sides(i) == {resolveMagnitudes(q, mentions[i], SubSeq(primary, 1, i - 1)) : q \in primary[i]}
  IN  Once([i \in DOMAIN paragraph |-> Parsed(paragraph[i], primary[i], sides(i))])

(* buildSentenceRecords: the sentences of a document in order.              *)
buildSentenceRecords(doc) == FlattenSeq(Once([p \in DOMAIN doc |-> ParagraphRecords(doc[p])]))

(* Numbered from 1 and tagged with the hop they are from.                   *)
Numbered(records, hop) == Once([i \in DOMAIN records |-> [id |-> i, hop |-> hop, core |-> records[i]]])

(* mintClaims: the sentences that carry a quantity; the origin document is  *)
(* hop 1.                                                                   *)
mintClaims(doc) ==
  LET quantified(r) == IF r.quantity = {} THEN <<>> ELSE <<r>>
      claimable(records) == FlattenSeq([i \in DOMAIN records |-> quantified(records[i])])
  IN  Numbered(claimable(buildSentenceRecords(doc)), 1)

(* A faulty mintCandidates: each sentence parsed on its own.                *)
mintOneByOne(doc, hop) ==
  Numbered(FlattenSeq([p \in DOMAIN doc |->
    [i \in DOMAIN doc[p] |-> ParagraphRecords(<<doc[p][i]>>)[1]]]), hop)

(* mintCandidates: every sentence.                                          *)
mintCandidates(doc, hop) == Numbered(buildSentenceRecords(doc), hop)

(* contract.js: what the constructors accept; they throw on anything else.  *)
PROVENANCE == {"explicit", "derived", "inherited"}
CAVEAT_KINDS == {"hedge", "scope", "condition", "temporal", "uncertainty", "comparison_basis", "other"}

makeMagnitudeAccepts(m) == m.provenance \in PROVENANCE
makeCaveatAccepts(c) == c.kind \in CAVEAT_KINDS

validateParsedCore(r) ==
  /\ \A q \in r.quantity : makeQuantityAccepts(q)
  /\ \A m \in r.numerator \cup r.denominator : makeMagnitudeAccepts(m)
  /\ \A c \in ToSet(r.caveats) : makeCaveatAccepts(c)

(* A claim is a quantified assertion, a candidate any sentence.             *)
makeClaimAccepts(c) == c.hop >= 1 /\ c.core.quantity # {} /\ validateParsedCore(c.core)
makeCandidateAccepts(d) == d.hop >= 1 /\ validateParsedCore(d.core)
=============================================================================
