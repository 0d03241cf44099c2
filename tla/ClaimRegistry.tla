---------------------------- MODULE ClaimRegistry ----------------------------
(***************************************************************************)
(* The claims minted from one origin document and the two ways the package  *)
(* checks a change of them: the gate on a whole downstream document         *)
(* (packages/align), and signed proposals that pass the replay guard and    *)
(* the equivocation store before a transition decides them                  *)
(* (packages/registry).                                                     *)
(***************************************************************************)
EXTENDS Transitions, ReplayGuard

CONSTANTS Sources,        \* origin documents
          Downstreams,    \* documents of hop 2
          BundleSource,   \* bound: the origin document with signed proposals
          ProposalOf      \* what a bundle proposes, by the name it carries

(* What the parser matches are numbers, words and hedges of its lexicon and *)
(* nouns that have a stem, and the kind of a caveat is one the lexicon      *)
(* gives; the stems of a sentence are listed in order.                      *)
IsMatch(h) ==
  /\ h.kind \in DOMAIN PRIORITY /\ h.word \in DOMAIN VAGUE /\ h.hedge \in DOMAIN HEDGES
  /\ h.n \in Nat /\ h.d \in Nat /\ h.noun \in DOMAIN Stem \cup {None}

IsSentence(s) ==
  /\ s.raw \in Seq(ToSet(s.raw)) /\ \A h \in ToSet(s.raw) : IsMatch(h)
  /\ s.words \in Seq(ToSet(s.words)) /\ IsFiniteSet(s.names)
  /\ s.caveats \in Seq(ToSet(s.caveats)) /\ \A c \in ToSet(s.caveats) : makeCaveatAccepts(c)

IsDocument(doc) ==
  /\ doc \in Seq(ToSet(doc))
  /\ \A paragraph \in ToSet(doc) :
       paragraph \in Seq(ToSet(paragraph)) /\ \A s \in ToSet(paragraph) : IsSentence(s)

ASSUME DocumentAssumption ==
  \A doc \in Sources \cup Downstreams \cup {BundleSource} : IsDocument(doc)

(* The table of logarithms goes as far as the corpora do.                   *)
ASSUME CorpusAssumption ==
  \A doc \in Sources \cup {BundleSource} : Len(mintClaims(doc)) < Len(Ln100)

(* A parsed core: a quantity lies in its band, and the constructors accept  *)
(* it.                                                                      *)
IsQuantity(q) ==
  /\ q.value \in Nat /\ q.band[1] \in Nat /\ q.band[2] \in Nat /\ q.vague \in BOOLEAN
  /\ makeQuantityAccepts(q)

IsCore(r) ==
  /\ IsFiniteSet(r.quantity) /\ \A q \in r.quantity : IsQuantity(q)
  /\ r.words \in Seq(ToSet(r.words)) /\ IsFiniteSet(r.names)
  /\ r.caveats \in Seq(ToSet(r.caveats)) /\ r.unit \subseteq DOMAIN Stem
  /\ validateParsedCore(r)

(* A bundle proposes what a proposal can hold: a candidate, if it has one,  *)
(* that the parser made.                                                    *)
ASSUME ProposalAssumption ==
  /\ \A b \in Bundle : b.proposal \in DOMAIN ProposalOf
  /\ \A p \in DOMAIN ProposalOf :
       /\ IsFiniteSet(ProposalOf[p].candidate)
       /\ \A d \in ProposalOf[p].candidate : IsCore(d.core)

VARIABLES source,   \* the origin document
          claims,   \* the claims minted from it
          hopDoc,   \* {} or the downstream document the gate checked
          result    \* {} or what gate() returned for it

vars == <<source, claims, hopDoc, result, guardVars>>

Init ==
  /\ GuardInit
  /\ source \in (IF sent = {} THEN Sources ELSE {BundleSource})
  /\ claims = mintClaims(source)
  /\ hopDoc = {}
  /\ result = {}

(* gate() on hop 2.                                                         *)
CheckHop(doc) ==
  /\ hopDoc' = {doc}
  /\ result' = {gate(claims, mintCandidates(doc, 2), 2)}
  /\ UNCHANGED <<source, claims, guardVars>>

(* applyProposal on the claims of the origin document.                      *)
Acceptable(p) ==
  \E v \in applyProposal(ProposalOf[p], claims, 2) : v.status \in {"ACCEPT", "CORRECTED"}

(* A checked bundle is accepted when the transition it proposes is.         *)
Decide(b) == IF Acceptable(b.proposal) THEN Accept(b) ELSE Refuse(b)

(* One document per behaviour, and none beside bundles.                     *)
DocumentStep ==
  /\ sent = {} /\ result = {}
  /\ \E doc \in Downstreams \cup {source} : CheckHop(doc)

BundleStep ==
  /\ sent # {}
  /\ UNCHANGED <<source, claims, hopDoc, result>>
  /\ \/ \E b \in sent : Receive(b)
     \/ \E b \in pending : Decide(b)
     \/ Restart
     \/ Tick

Next == DocumentStep \/ BundleStep

Spec == Init /\ [][Next]_vars

-----------------------------------------------------------------------------
CandidatesOf(doc) == mintCandidates(doc, 2)

(* What ReceiptsComplete says of one run of the gate.                       *)
Received(g, C, D) ==
  LET r == g.report
      matched == {a \in r.alignments : a.decision = "matched"}
      ways(j) == Cardinality({a \in r.alignments : a.cid = j})
                   + Cardinality({a \in r.alignments : j \in a.supporting})
                   + Cardinality({u \in r.unaligned : u.cid = j})
  IN  /\ ~g.threw
      /\ \A c \in ToSet(C) : makeClaimAccepts(c)
      /\ \A d \in ToSet(D) : makeCandidateAccepts(d)
      /\ \A x \in ToSet(D) : ways(x.id) = 1
      /\ \A c \in ToSet(C) :
           Cardinality({a \in matched : a.claimId = c.id})
             + Cardinality({d \in r.dropped : d.claimId = c.id}) = 1
      /\ \A u \in r.unaligned :
           /\ \A d \in ToSet(D) : d.id = u.cid => (u.reason = "no_quantity" <=> d.core.quantity = {})
           /\ u.reason = "claim_exhausted" => matched # {}
      /\ \A a \in r.alignments :
           Cardinality({v \in g.verdicts : v.claimId = a.claimId /\ v.cid = a.cid}) = 1

(* align.js:17-20 and contract.js decision 4.  Every candidate leaves the   *)
(* gate exactly once, as an alignment, as a supporting fragment or with a   *)
(* reason, and the reason is true; every claim is matched once or dropped;  *)
(* every alignment has one verdict; and nothing align, diff and gate build  *)
(* is refused by the constructors.                                          *)
ReceiptsComplete ==
  \A g \in result, doc \in hopDoc : Received(g, claims, CandidatesOf(doc))

(* What NothingGuessed says of the alignments matched, by the scores M.     *)
Unguessed(matched, M) ==
  LET held == {a.claimId : a \in matched}
      lead(a, k) == M[a.claimId][a.cid] - M[k][a.cid]
  IN  \A a \in matched :
        /\ a.score = M[a.claimId][a.cid] /\ a.score >= ACCEPT
        /\ \A k \in DOMAIN M \ {a.claimId} :
             \/ lead(a, k) >= MARGIN
             \/ \E h \in matched : h.claimId = k /\ h.score >= M[k][a.cid]
        /\ \A k \in DOMAIN M \ held : lead(a, k) >= MARGIN

(* align.js:12-16, NOT GUESSING.  A claim that stayed free never came       *)
(* within MARGIN of the claim a candidate was matched to, and one that is   *)
(* held is held by a candidate that suits it at least as well: no claim and *)
(* candidate would both rather have each other.                             *)
NothingGuessed ==
  \A g \in result, doc \in hopDoc :
    Unguessed({a \in g.report.alignments : a.decision = "matched"},
              Matrix(claims, CandidatesOf(doc)))

(* contract.js decision 1, one parser.  A verbatim copy of the origin       *)
(* document is never found to have lost or changed anything: what it is     *)
(* refused for, if at all, is that two claims were too alike to tell.       *)
CopyIsNeverCorrupt ==
  \A g \in result : hopDoc = {source} =>
    \A v \in g.verdicts : v.status = "REJECT" => v.reason = "ambiguous_alignment"

(* What an accepted restatement d keeps of a claim c: a base it loses, it   *)
(* does not need, a value it changes stays close, a unit it changes reads   *)
(* like the one before (AlikeUnits), and so on.                             *)
IsRate(q) == q.vague \/ q.dimension \in {"percent", "ratio"}

Faithful(c, d) ==
  /\ \A o \in c.denominator :
       \/ \E b \in d.denominator : /\ SameValue(Unit * o.value, Unit * b.value)
                                   /\ unitCompatible(o.unit, b.unit)
       \/ d.denominator = {} /\ ~\E q \in d.quantity : IsRate(q)
  /\ \A o \in c.quantity, q \in d.quantity :
       \/ o.vague /\ ~q.vague
       \/ bandsOverlap(o.band, q.band)
       \/ ~Material(o.value, q.value)
  /\ \A a \in c.unit, b \in d.unit : unitCompatible(a, b)
  /\ {f \in Families(c) : LossSeverity(f) = "fail"} \subseteq Families(d)

AcceptedFaithfully(g, C, D) ==
  \A v \in g.verdicts : v.status = "ACCEPT" =>
    /\ \E a \in g.report.alignments :
         a.claimId = v.claimId /\ a.cid = v.cid /\ a.decision # "ambiguous"
    /\ \E c \in ToSet(C), d \in ToSet(D) :
         c.id = v.claimId /\ d.id = v.cid /\ Faithful(c.core, d.core)

(* index.js:13-19, "verification failure cannot silently become             *)
(* acceptance", from the documents to the verdict: whatever the gate        *)
(* accepts was matched without ambiguity, and the candidate still has the   *)
(* base, the value and the serious caveats of the claim, and a unit that is *)
(* the claim's or that diff.js takes for it.                                *)
AcceptedIsFaithful ==
  \A g \in result, doc \in hopDoc : AcceptedFaithfully(g, claims, CandidatesOf(doc))

(* align.js:22-27: the report does not depend on the order the caller       *)
(* iterated in.                                                             *)
OrderIndependent ==
  \A g \in result, doc \in hopDoc :
    g = gate(Reverse(claims), Reverse(CandidatesOf(doc)), 2)

(* A restatement that keeps what a claim says, a derivation from claims the *)
(* registry holds, or a correction of one that says why.                    *)
SoundProposal(p) ==
  \/ /\ p.type = "PROPOSE_UPDATE"
     /\ \E c \in ToSet(claims), d \in p.candidate : Faithful(c.core, d.core)
  \/ /\ p.type = "DERIVE"
     /\ ToSet(p.parents) \subseteq {c.id : c \in ToSet(claims)}
     /\ \A d \in p.candidate : d.core.quantity # {}
  \/ /\ p.type = "CORRECT" /\ p.reason # None
     /\ ClaimsNamed(claims, p.target) # {}

(* transitions.js:10-24: what the registry accepted under a signature is a  *)
(* faithful restatement of a claim it holds, a derivation whose parents it  *)
(* holds and that states a figure, or a correction of a claim it holds that *)
(* says why.                                                                *)
AcceptedProposalsAreSound ==
  \A i \in DOMAIN acceptLog : SoundProposal(ProposalOf[acceptLog[i].b.proposal])
=============================================================================
