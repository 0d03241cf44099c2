------------------------------- MODULE MCClaims -------------------------------
(* The documents, the proposals and the bounds of the claims run.           *)
EXTENDS ClaimRegistry

Raw(kind, at, n, noun) ==
  [kind |-> kind, at |-> at, len |-> IF kind = "bare" THEN 1 ELSE 2, n |-> n, d |-> 1,
   word |-> "half", hedge |-> "none", noun |-> noun, mark |-> None]

Sentence(words, raw, caveats) == [words |-> words, names |-> {}, raw |-> raw, caveats |-> caveats]

MCLn100 == <<0, 69, 110, 139, 161>>

(* The head nouns, their stems by lexicon.js, how alike these are, and the  *)
(* units diff.js takes for one.  "dispatches" and "dispatchers" have a Dice *)
(* of 0.8 in either file.                                                   *)
MCStem == [dispatches |-> "dispatch", dispatchers |-> "dispatcher", reviewers |-> "reviewer"]

MCStemDice ==
  [pair \in (DOMAIN MCStem) \X (DOMAIN MCStem) |->
     CASE pair[1] = pair[2] -> 100
       [] {pair[1], pair[2]} = {"dispatches", "dispatchers"} -> 80
       [] {pair[1], pair[2]} = {"dispatchers", "reviewers"} -> 10
       [] {pair[1], pair[2]} = {"dispatches", "reviewers"} -> 0]

MCAlikeUnits == {<<"dispatches", "dispatchers">>, <<"dispatchers", "dispatches">>}

(* A marker of the parser's lexicon.                                        *)
Caveat(term, kind) == [term |-> term, kind |-> kind]
Unverified == Caveat("unverified", "uncertainty")

Failed == <<"dispatch", "fail", "quota", "check">>

(* "44% of the 289 dispatches failed an unverified quota check"             *)
Rate(percent, base) ==
  Sentence(Failed, <<Raw("percent", 1, percent, "dispatches"), Raw("bare", 1, percent, "dispatches"),
                     Raw("bare", 5, base, "dispatches")>>, <<Unverified>>)
(* "60% of dispatches failed the unverified quota check"                    *)
NoBase(percent) ==
  Sentence(Failed, <<Raw("percent", 1, percent, "dispatches"), Raw("bare", 1, percent, "dispatches")>>,
           <<Unverified>>)
(* "44% of the 289 dispatches failed the quota check"                       *)
Certain == Sentence(Failed, Rate(44, 289).raw, <<>>)
(* "44% of the 289 dispatches failed an anecdotal quota check"              *)
Anecdotal == Sentence(Failed, Rate(44, 289).raw, <<Caveat("anecdotal", "uncertainty")>>)
(* "44% of the 289 dispatchers failed an unverified quota check"            *)
Of(noun) == Sentence(<<MCStem[noun], "fail", "quota", "check">>,
           <<Raw("percent", 1, 44, noun), Raw("bare", 1, 44, noun), Raw("bare", 5, 289, noun)>>,
           <<Unverified>>)
(* "nearly half"                                                            *)
Vague == Sentence(<<>>, <<[Raw("vague", 1, 0, None) EXCEPT !.hedge = "nearly"]>>,
           <<Caveat("nearly", "hedge")>>)
(* "2 of 17 reviewers may object"                                           *)
Ratio == Sentence(<<"reviewer", "object">>,
           <<[Raw("ratio", 1, 2, "reviewers") EXCEPT !.d = 17, !.len = 3], Raw("bare", 1, 2, None),
             Raw("bare", 3, 17, "reviewers")>>, <<Caveat("may", "other")>>)
(* "289 dispatches were sent in 2024"                                       *)
Sent(n) == Sentence(<<"dispatch", "sent">>,
           <<Raw("bare", 1, n, "dispatches"), [Raw("bare", 4, 2024, None) EXCEPT !.mark = "date"]>>, <<>>)
Count == Sent(289)
(* "the quota check is described below, unverified"                         *)
Plain == Sentence(<<"quota", "check", "describe">>, <<>>, <<Unverified>>)

Quantified == {Rate(44, 289), Rate(46, 289), NoBase(44), Ratio, Count, Vague}
All == Quantified \cup {Rate(44, 300), NoBase(60), Certain, Anecdotal, Plain}
Few == {Rate(44, 289), NoBase(60), Count, Plain}
Renamed == {Of("dispatchers"), Of("reviewers")}

MCSources ==
  {<<<<a>>>> : a \in Quantified} \cup {<<<<a, b>>>> : a, b \in Quantified}
    \cup {<<<<a>>, <<b>>>> : a, b \in {Count, NoBase(44), Ratio}}
    \cup {<<<<a, Rate(44, 289), Rate(46, 289)>>>> : a \in Quantified}

MCDownstreams ==
  {<<>>} \cup {<<<<a>>>> : a \in All} \cup {<<<<a, b>>>> : a, b \in All}
    \cup {<<<<a>>>> : a \in Renamed} \cup {<<<<a, b>>>> : a \in Renamed, b \in Few}
    \cup {<<<<a, b, c>>>> : a, b, c \in Few}
    \cup {<<<<a, b>>, <<c>>>> : a, b \in Few, c \in Quantified}

MCBundleSource == <<<<Rate(44, 289), Count>>>>

Core(s) == mintCandidates(<<<<s>>>>, 2)[1]

Proposed(type) == [type |-> type, candidate |-> {}, parents |-> <<>>, operation |-> None,
                   target |-> {}, reason |-> None, by |-> None]

MCProposalOf ==
  [restate |-> [Proposed("PROPOSE_UPDATE") EXCEPT !.candidate = {Core(Rate(44, 289))}],
   rename |-> [Proposed("PROPOSE_UPDATE") EXCEPT !.candidate = {Core(Of("dispatchers"))}],
   confuse |-> [Proposed("PROPOSE_UPDATE") EXCEPT !.candidate = {Core(Of("reviewers"))}],
   strip |-> [Proposed("PROPOSE_UPDATE") EXCEPT !.candidate = {Core(NoBase(44))}],
   derive |-> [Proposed("DERIVE") EXCEPT !.candidate = {Core(Sent(245))},
                 !.parents = <<2, 1>>, !.operation = "difference"],
   misderive |-> [Proposed("DERIVE") EXCEPT !.candidate = {Core(Sent(245))},
                    !.parents = <<2, 1>>, !.operation = "sum"],
   correct |-> [Proposed("CORRECT") EXCEPT !.candidate = {Core(NoBase(60))}, !.target = {1},
                 !.reason = "recount"],
   challenge |-> [Proposed("CHALLENGE") EXCEPT !.target = {9}, !.reason = "source", !.by = "key"]]

MCBundle ==
  [claimId: {1}, version: 1..2, issuer: {"k1", "k2"}, nonce: 0..2, issuedAt: {0, 2},
   proposal: DOMAIN MCProposalOf]

(* Two bundles, the first of them under key k1 and in time with any         *)
(* proposal, the second a restatement under either key, or early, or with   *)
(* no nonce, under k1.                                                      *)
MCDeliveries ==
  {{}}
    \cup {{b, c} : b \in {x \in MCBundle : x.nonce = 1 /\ x.issuer = "k1" /\ x.issuedAt = 0},
                  c \in {x \in MCBundle : /\ x.proposal = "restate"
                                           /\ (x.issuer = "k1" \/ x.issuedAt = 0)
                                           /\ (x.nonce = 0 => x.issuer = "k1" /\ x.issuedAt = 0)}}
=============================================================================
