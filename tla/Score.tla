-------------------------------- MODULE Score --------------------------------
(***************************************************************************)
(* packages/align/score.js: how strongly a candidate sentence looks like a  *)
(* restatement of a claim, from three channels: NUM (could these be one     *)
(* measurement), LEX (do the sentences talk about the same thing) and POS   *)
(* (are they at the same place).  Channels are percentages, scores are      *)
(* parts of 10000, square roots and logarithms are those of whole numbers.  *)
(***************************************************************************)
EXTENDS Extract

CONSTANTS Ln100,    \* 100 * ln n, n from 1 to the largest corpus and one more
          StemDice  \* of two units, the Dice of the trigrams of their stems, in percent

ASSUME LnAssumption ==
  /\ Ln100 \in Seq(Nat)
  /\ \A low, high \in DOMAIN Ln100 : low <= high => Ln100[low] <= Ln100[high]

ASSUME DiceAssumption == \A a, b \in DOMAIN Stem : StemDice[<<a, b>>] \in 0..100

ACCEPT == 5200
MARGIN == 700
SUPPORT == 6000

-----------------------------------------------------------------------------
(* NUM *)

DigitSeq[n \in Nat] == IF n < 10 THEN <<n>> ELSE Append(DigitSeq[n \div 10], n % 10)

StripZeros[n \in Nat] == IF n = 0 \/ n % 10 # 0 THEN n ELSE StripZeros[n \div 10]

(* digitsOf: the significant digits of a number, in any order.              *)
digitsOf(n) ==
  LET s == DigitSeq[StripZeros[n]]
  IN  [d \in 0..9 |-> Cardinality({i \in DOMAIN s : s[i] = d})]

(* tier: a is within 1/k of b exactly when |a - b| <= max \div k.           *)
tier(a, b, bandA, bandB) ==
  LET off == AbsDiff(a, b)
      top == Larger(a, b)
  IN  CASE off <= top \div 200 -> 100
        [] off > top \div 200 /\ bandsOverlap(bandA, bandB) -> 92
        [] OTHER -> IF off <= top \div 50 THEN 75
                    ELSE IF off <= top \div 10 THEN 45
                    ELSE IF digitsOf(a) = digitsOf(b) THEN 35 ELSE 0

Scaled(b, f) == <<b[1] * f, b[2] * f>>

(* numericCompat with scaleVariants: a dimensionless number is also read as *)
(* a hundredth and a hundredfold of itself.                                 *)
numericCompat(a, b) ==
  LET face == tier(a.value, b.value, a.band, b.band)
      less == tier(a.value, 100 * b.value, a.band, Scaled(b.band, 100))
      more == tier(100 * a.value, b.value, Scaled(a.band, 100), b.band)
      bare == "dimensionless" \in {a.dimension, b.dimension}
  IN  IF bare THEN Larger(face, Larger(less, more)) ELSE face

-----------------------------------------------------------------------------
(* LEX *)

ISqrt[n \in Nat] ==
  IF n = 0 THEN 0
  ELSE LET r == 2 * ISqrt[n \div 4] IN IF (r + 1) * (r + 1) <= n THEN r + 1 ELSE r

(* buildProfile: how often each content stem occurs, without the unit,      *)
(* which has a channel of its own.                                          *)
Bag(r) ==
  [s \in ToSet(r.words) \ {Stem[u] : u \in r.unit} |-> Cardinality({i \in DOMAIN r.words : r.words[i] = s})]

(* buildIdf: the weight of each stem of the origin claims, and the median   *)
(* for a stem that none of them has: nth(k) is the k-th lightest weight.    *)
buildIdf(bags) ==
  LET stems == UNION {DOMAIN bags[i] : i \in DOMAIN bags}
      df(s) == Cardinality({i \in DOMAIN bags : s \in DOMAIN bags[i]})
      weight == [s \in stems |-> Ln100[Len(bags) + 1] - Ln100[df(s) + 1] + 100]
      n == Cardinality(stems)
      upTo(w) == Cardinality({s \in stems : weight[s] <= w})
      nth(k) == CHOOSE w \in {weight[s] : s \in stems} :
                  k <= upTo(w) /\ \A s \in stems : k <= upTo(weight[s]) => w <= weight[s]
  IN  [weight |-> weight,
       median |-> IF n = 0 THEN 100
                  ELSE (nth((n + 1) \div 2) + nth(n \div 2 + 1)) \div 2]

WeightOf(idf, s) == IF s \in DOMAIN idf.weight THEN idf.weight[s] ELSE idf.median

Dot(bagA, bagB, idf) ==
  LET weight(bag, s) == bag[s] * WeightOf(idf, s)
  IN  SumFunction([s \in DOMAIN bagA \cap DOMAIN bagB |-> weight(bagA, s) * weight(bagB, s)])

cosineIdf(bagA, bagB, idf) ==
  LET norms == ISqrt[Dot(bagA, bagA, idf)] * ISqrt[Dot(bagB, bagB, idf)]
  IN  IF norms = 0 THEN 0 ELSE Smaller(100, (100 * Dot(bagA, bagB, idf)) \div norms)

(* anchorsOf: names, identifiers and the two rarest content stems.          *)
anchorsOf(r, idf) ==
  LET stems == DOMAIN Bag(r)
      first(s) == CHOOSE i \in DOMAIN r.words :
                    r.words[i] = s /\ \A j \in 1..(i - 1) : r.words[j] # s
      rarer(s, t) ==
        \/ WeightOf(idf, s) > WeightOf(idf, t)
        \/ WeightOf(idf, s) = WeightOf(idf, t) /\ first(s) < first(t)
      rank(s) == Cardinality({t \in stems : rarer(t, s)})
  IN  r.names \cup {s \in stems : rank(s) < 2}

dice(A, B) ==
  IF A = {} \/ B = {} THEN 0
  ELSE (200 * Cardinality(A \cap B)) \div (Cardinality(A) + Cardinality(B))

(* unitSim: absent on either side is 0.                                     *)
unitSim(A, B) ==
  LET sim(a, b) == IF Stem[a] = Stem[b] THEN 100 ELSE StemDice[<<a, b>>]
  IN  IF A = {} \/ B = {} THEN 0 ELSE CHOOSE s \in {sim(a, b) : a \in A, b \in B} : TRUE

-----------------------------------------------------------------------------
(* The pair score *)

(* The position of the k-th of n sentences, in percent of the document.     *)
NormOrdinal(k, n) == IF n <= 1 THEN 0 ELSE (100 * (k - 1)) \div (n - 1)

Vetoed(A, B) ==
  \E a \in A.quantity, b \in B.quantity : dimensionsConflict(a.dimension, b.dimension)

Compat(A, B) ==
  IF A.quantity = {} \/ B.quantity = {} THEN 0
  ELSE CHOOSE c \in {numericCompat(a, b) : a \in A.quantity, b \in B.quantity} : TRUE

LexOf(A, B, idf) ==
  (62 * cosineIdf(Bag(A), Bag(B), idf) + 23 * dice(anchorsOf(A, idf), anchorsOf(B, idf))
     + 15 * unitSim(A.unit, B.unit)) \div 100

(* At least one lexical signal has evidence on both sides.                  *)
measurableLex(A, B, idf) ==
  \/ DOMAIN Bag(A) # {} /\ DOMAIN Bag(B) # {}
  \/ anchorsOf(A, idf) # {} /\ anchorsOf(B, idf) # {}
  \/ A.unit # {} /\ B.unit # {}

(* The weighted channels with the agreement bonus, or what the value-drift  *)
(* lane (the number moved, the sentence did not) or the bare-quantity lane  *)
(* (the candidate is nothing but its number) gives, if that is more.        *)
Blended(NUM, LEX, POS, measurable) ==
  LET base == 45 * NUM + 45 * LEX + 10 * POS + (IF NUM >= 80 /\ LEX >= 35 THEN 800 ELSE 0)
      drift == IF NUM < 25 /\ LEX >= 66 THEN 5000 + (4500 * (LEX - 66)) \div 34 ELSE 0
      bare == IF NUM >= 90 /\ ~measurable THEN 5000 + 8 * NUM ELSE 0
  IN  Smaller(10000, Larger(base, Larger(drift, bare)))

(* scorePair, for sentences `distance' percent of a document apart.         *)
scorePair(A, B, distance, idf) ==
  IF Vetoed(A, B) THEN 0
  ELSE Blended(Compat(A, B), LexOf(A, B, idf), 100 - Smaller(100, 2 * distance),
               measurableLex(A, B, idf))
=============================================================================
