------------------------------ MODULE Quantity ------------------------------
(***************************************************************************)
(* The numbers of one sentence: packages/align/quantity.js, with the        *)
(* vocabularies of lexicon.js it reads and the makeQuantity constructor of  *)
(* contract.js.  A sentence is abstracted to what its regular expressions   *)
(* match: a sequence of raw matches, in the order of the text,               *)
(*   [kind, at, len, n, d, word, hedge, noun, mark]                         *)
(* (the text span at..at+len-1, the number n or the ratio n of d, a vague   *)
(* word, the hedge before it, the head noun after it, the reason to         *)
(* suppress it).  Values are thousandths: 44% is 440, 17 is 17000.          *)
(***************************************************************************)
EXTENDS Integers, Sequences, SequencesExt, FiniteSets

None == "none"

(* Values are in thousandths.                                               *)
Unit == 1000

AbsDiff(a, b) == IF a > b THEN a - b ELSE b - a
Larger(a, b) == IF a > b THEN a ELSE b
Smaller(a, b) == IF a < b THEN a ELSE b

(* The sequence itself; the form makes TLC evaluate each element once.      *)
Once(s) == s \o <<>>

bandsOverlap(a, b) == a[1] <= b[2] /\ b[1] <= a[2]

(* lexicon.js: the band a hedge allows around a value, in percent of it.    *)
HEDGES == [none |-> <<100, 100>>, about |-> <<90, 110>>, nearly |-> <<85, 100>>,
           over |-> <<100, 150>>]

(* lexicon.js: the value and the band of a word that carries a proportion.  *)
VAGUE == [half |-> [value |-> 500, lo |-> 400, hi |-> 600],
          third |-> [value |-> 333, lo |-> 280, hi |-> 400],
          most |-> [value |-> 650, lo |-> 500, hi |-> 950]]

DIMENSION_RANK == [percent |-> 6, ratio |-> 5, currency |-> 4, duration |-> 3,
                   count |-> 2, dimensionless |-> 1]

(* Two dimensions that cannot describe one measurement.                     *)
dimensionsConflict(a, b) == a # b /\ {a, b} \subseteq {"currency", "percent", "duration"}

PRIORITY == [ratio |-> 1, percent |-> 2, currency |-> 3, duration |-> 4, vague |-> 5, bare |-> 6]

Overlap(h, g) == h.at < g.at + g.len /\ g.at < h.at + h.len

(* ratios(): a match with a zero base, or a numerator above it, is neither. *)
Sound(h) == h.kind = "ratio" => h.d # 0 /\ h.n <= h.d

(* The claiming loop of parseQuantities: the most specific kind of match    *)
(* takes its stretch of text, what overlaps it is not a mention.  Exactly   *)
(* one set of matches is kept: those that meet none kept before them.       *)
claimMatches(raw) ==
  LET sound == {i \in DOMAIN raw : Sound(raw[i])}
      rank(i) == PRIORITY[raw[i].kind]
      before(i, j) == rank(i) < rank(j) \/ (rank(i) = rank(j) /\ i < j)
      claimed(kept, i) == \E k \in kept : before(k, i) /\ Overlap(raw[k], raw[i])
  IN  UNION {kept \in SUBSET sound : \A i \in sound : i \in kept <=> ~claimed(kept, i)}

ValueOf(h) ==
  CASE h.kind = "ratio" -> (h.n * Unit) \div h.d
    [] h.kind = "percent" -> h.n * (Unit \div 100)
    [] h.kind = "vague" -> VAGUE[h.word].value
    [] OTHER -> h.n * Unit

(* A side of a ratio, a makeMagnitude input.                                *)
Magnitude(n, unit, provenance) == [value |-> n, unit |-> unit, provenance |-> provenance]

DimensionOf(h) ==
  CASE h.kind = "vague" -> "ratio"
    [] h.kind = "bare" -> IF h.noun = None THEN "dimensionless" ELSE "count"
    [] OTHER -> h.kind

(* finalise: the mention a match becomes.  The hedge widens the band and    *)
(* leaves the value where it is.                                            *)
finalise(h) ==
  LET v == ValueOf(h)
      lo == IF h.kind = "vague" THEN VAGUE[h.word].lo ELSE v
      hi == IF h.kind = "vague" THEN VAGUE[h.word].hi ELSE v
      ratio == h.kind = "ratio"
  IN  [value |-> v, dimension |-> DimensionOf(h), vague |-> h.kind = "vague",
       band |-> <<(lo * HEDGES[h.hedge][1]) \div 100, (hi * HEDGES[h.hedge][2]) \div 100>>,
       numerator |-> IF ratio THEN {Magnitude(h.n, None, "explicit")} ELSE {},
       denominator |-> IF ratio THEN {Magnitude(h.d, None, "explicit")} ELSE {},
       noun |-> h.noun, suppressed |-> h.mark, at |-> h.at]

(* parseQuantities: the mentions of a sentence.  They do not overlap, so    *)
(* `at' tells where each stands among them.                                 *)
parseQuantities(raw) == {finalise(raw[i]) : i \in claimMatches(raw)}

(* contract.js: what makeQuantity accepts; it throws on anything else.      *)
makeQuantityAccepts(q) ==
  /\ q.dimension \in DOMAIN DIMENSION_RANK
  /\ q.band[1] <= q.value /\ q.value <= q.band[2]

(* pickPrimary: {} or the one main mention, the leftmost of the best        *)
(* dimension among those that are not a date, an ordinal or an enumeration. *)
pickPrimary(qs) ==
  LET live == {q \in qs : q.suppressed = None}
      rank(q) == DIMENSION_RANK[q.dimension]
  IN  {q \in live : \A p \in live : rank(p) < rank(q) \/ (rank(p) = rank(q) /\ q.at <= p.at)}
=============================================================================
