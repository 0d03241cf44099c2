---------------------------- MODULE Enforcement ----------------------------
(***************************************************************************)
(* evaluateAndSlash (stake/policy/index.js): the verdicts of SlashPolicy    *)
(* turned, one transaction at a time, into calls of the contract, while     *)
(* agents stake and withdraw and providers are registered between any two   *)
(* awaits.  A call throws when a lookup fails, when a transaction reverts   *)
(* or cannot be sent, or when a mined transaction's receipt never arrives.  *)
(*                                                                          *)
(* The signer of the arbiter is a key, so an arbiter that is a contract     *)
(* never runs evaluateAndSlash; slashes of other origin are in ContractNext.*)
(***************************************************************************)
EXTENDS AgentStake, SlashPolicy

CONSTANTS
  Provider,
  providerOf,           \* provider of each source
  AddressesOf,          \* addresses each provider may be bound to
  NoAddress, NoSource,
  QualityAmounts,       \* what a quality failure may cost, by severity
  ContradictionAmounts, \* what a contradiction may cost, by its delta
  PossibleClaims        \* the claims the batches of a route may make

ASSUME EnforcementAssumption ==
  /\ providerOf \in [Source -> Provider]
  /\ AddressesOf \in [Provider -> SUBSET Account]
  /\ NoAddress \notin Account /\ NoSource \notin Source
  /\ QualityAmounts \cup ContradictionAmounts \subseteq Nat \ {0}
  /\ PossibleClaims \subseteq Claims

VARIABLES
  registry,      \* the identity registry: an address or none per provider
  bindings,      \* history: every binding ever registered
  verification,  \* what mergeRoute found among the batches of the route
  phase,         \* where the call under way is
  findings,      \* what evaluateBatchOutcome has produced so far
  next,          \* the finding evaluateAndSlash is at
  mined          \* history: findings of this call slashed on chain, in order

callVars == <<phase, findings, next, mined>>
policyVars == <<registry, bindings, verification, callVars>>
vars == <<contractVars, policyVars>>

Finding == [reasonClass : {"quality_failure"}, about : Source, side : Source \cup {NoSource},
            agent : Account \cup {NoAddress}, amount : Nat]
     \cup [reasonClass : {"contradiction"}, about : Entry, side : Source \cup {NoSource},
            agent : Account \cup {NoAddress}, amount : Nat]

lookup(source) == registry[providerOf[source]]
shouldSlash(f) == f.agent # NoAddress

OfClass(class) == {i \in DOMAIN findings : findings[i].reasonClass = class}
correlatedQualityFailures ==
  {findings[i].side : i \in {j \in OfClass("quality_failure") : shouldSlash(findings[j])}}
unjudged == verification.contradictions \ {findings[i].about : i \in OfClass("contradiction")}
Condemned(c) == condemned(c, verification.agreements, correlatedQualityFailures)

register(p, a) ==
  /\ registry[p] # a
  /\ registry' = [registry EXCEPT ![p] = a]
  /\ bindings' = bindings \cup {<<p, a>>}
  /\ UNCHANGED <<contractVars, verification, callVars>>

Verdict(class, about, side, address, amount) ==
  [reasonClass |-> class, about |-> about, side |-> side, agent |-> address,
   amount |-> IF address = NoAddress THEN 0 ELSE amount]

(* A call, up to the answer of its first lookup; e is the batch whose score *)
(* it was given, which is below the threshold, or is not, or is missing.    *)
evaluateQualityFailure(e) ==
  /\ arbiter \notin code
  /\ phase \in {"idle", "returned", "threw"}
  /\ mined' = <<>>
  /\ next' = 1
  /\ \/ /\ e = NoSource
        /\ findings' = <<>>
        /\ phase' = "running"
     \/ /\ e \in Source
        /\ \/ findings' = <<Verdict("quality_failure", e, NoSource, NoAddress, 0)>>
           \/ \E amount \in QualityAmounts :
                findings' = <<Verdict("quality_failure", e, e, lookup(e), amount)>>
        /\ phase' = "running"
     \/ /\ e \in Source
        /\ findings' = <<>>
        /\ phase' = "threw"
  /\ UNCHANGED <<contractVars, registry, bindings, verification>>

(* Faulty variant of evaluateContradiction: it looks up the other side.      *)
evaluateContradictionOfPeer(c) ==
  /\ phase = "running"
  /\ c \in unjudged
  /\ \/ /\ Condemned(c) = {}
        /\ findings' = Append(findings, Verdict("contradiction", c, NoSource, NoAddress, 0))
     \/ \E side \in Condemned(c), amount \in ContradictionAmounts :
          findings' = Append(findings, Verdict("contradiction", c, side, lookup(Peer(c, side)), amount))
  /\ UNCHANGED <<contractVars, registry, bindings, verification, phase, next, mined>>

(* One contradiction of the loop; their order is left open.                  *)
evaluateContradiction(c) ==
  /\ phase = "running"
  /\ c \in unjudged
  /\ \/ /\ Condemned(c) = {}
        /\ findings' = Append(findings, Verdict("contradiction", c, NoSource, NoAddress, 0))
     \/ \E side \in Condemned(c), amount \in ContradictionAmounts :
          findings' = Append(findings, Verdict("contradiction", c, side, lookup(side), amount))
  /\ UNCHANGED <<contractVars, registry, bindings, verification, phase, next, mined>>

(* The loop over the findings passes by those that slash nobody. *)
ahead == {i \in next..Len(findings) : shouldSlash(findings[i])}

Evaluated == phase = "running" /\ unjudged = {}

SubmitSlash ==
  /\ Evaluated
  /\ frames = <<>>
  /\ \E i \in ahead :
       /\ \A j \in ahead : i <= j
       /\ slash(arbiter, findings[i].agent, findings[i].amount)
       /\ mined' = Append(mined, i)
       /\ next' = i + 1
  /\ phase' = "mining"
  /\ UNCHANGED <<registry, bindings, verification, findings>>

Receipt ==
  /\ phase = "mining"
  /\ frames = <<>>
  /\ phase' = "running"
  /\ UNCHANGED <<contractVars, registry, bindings, verification, findings, next, mined>>

(* A lookup fails; a transaction reverts, as when the stake is gone, or      *)
(* cannot be sent; the receipt of a mined transaction never arrives.         *)
MayThrow ==
  \/ phase = "running" /\ \E c \in unjudged : Condemned(c) # {}
  \/ Evaluated /\ ahead # {}
  \/ phase = "mining" /\ frames = <<>>

(* Faulty variant of Throw: a failed submission is passed over.              *)
ThrowNothing ==
  /\ Evaluated
  /\ ahead # {}
  /\ next' = Min(ahead) + 1
  /\ UNCHANGED <<contractVars, registry, bindings, verification, phase, findings, mined>>

Throw ==
  /\ MayThrow
  /\ phase' = "threw"
  /\ UNCHANGED <<contractVars, registry, bindings, verification, findings, next, mined>>

Return ==
  /\ Evaluated
  /\ ahead = {}
  /\ phase' = "returned"
  /\ UNCHANGED <<contractVars, registry, bindings, verification, findings, next, mined>>

Init ==
  /\ ContractInit
  /\ registry = [p \in Provider |-> NoAddress]
  /\ bindings = {}
  /\ \E claims \in PossibleClaims : verification = crossCheckBatches(claims)
  /\ phase = "idle"
  /\ findings = <<>>
  /\ next = 1
  /\ mined = <<>>

Next ==
  \/ ContractNext /\ UNCHANGED policyVars
  \/ \E p \in Provider : \E a \in AddressesOf[p] : register(p, a)
  \/ \E e \in Source \cup {NoSource} : evaluateQualityFailure(e)
  \/ \E c \in verification.contradictions : evaluateContradiction(c)
  \/ SubmitSlash
  \/ Receipt
  \/ Throw
  \/ Return

Spec == Init /\ [][Next]_vars

-----------------------------------------------------------------------------
TypeOK ==
  /\ ContractTypeOK
  /\ registry \in [Provider -> Account \cup {NoAddress}]
  /\ bindings \subseteq Provider \X Account
  /\ verification \in Verification
  /\ phase \in {"idle", "running", "mining", "returned", "threw"}
  /\ findings \in Seq(Finding)
  /\ next \in 1..Len(findings) + 1
  /\ mined \in Seq(DOMAIN findings)

ThirdParties(c, side) ==
  {t \in Source \ c.sides : \E e \in verification.agreements : e.sides = {t, side}}

(* slash-policy.js:188-298: a contradiction costs money only with evidence   *)
(* against one side and none against the other.  The side slashed has no     *)
(* third source that agrees with it, and either a third source agrees with   *)
(* its peer or its own batch failed.                                         *)
SlashedSideStandsAlone ==
  \A i \in OfClass("contradiction") :
    LET f == findings[i] IN
    shouldSlash(f) => /\ ThirdParties(f.about, f.side) = {}
                      /\ \/ ThirdParties(f.about, Peer(f.about, f.side)) # {}
                         \/ f.side \in correlatedQualityFailures

(* index.js:44-58: the transactions of a call are its findings in order,     *)
(* none twice and none passed over, and a call that returns left none out,   *)
(* whatever the agents did to their stakes meanwhile.                        *)
FindingsEnforcedInOrder ==
  LET decided == {i \in DOMAIN findings : shouldSlash(findings[i])}
      done == {mined[k] : k \in DOMAIN mined}
  IN  /\ \A j, k \in DOMAIN mined : j < k => mined[j] < mined[k]
      /\ \A i \in decided : (\E k \in DOMAIN mined : i < mined[k]) => i \in done
      /\ done \subseteq decided
      /\ phase = "returned" => decided = done

(* The money is taken from an address that the provider found wrong was      *)
(* bound to, however the registry changed between lookup and transaction.    *)
SlashHitsTheWrongSide ==
  \A k \in DOMAIN mined :
    LET f == findings[mined[k]] IN f.side \in Source /\ <<providerOf[f.side], f.agent>> \in bindings

(* slash-policy.js:178-180 asks whether the peer's claim has the backing of  *)
(* a third source.  The code asks it of the peer's batch: an agreement on    *)
(* another subject counts.                                                   *)
BackingIsOfTheClaim ==
  \A i \in OfClass("contradiction") :
    LET f == findings[i] IN
    shouldSlash(f) /\ f.side \notin correlatedQualityFailures =>
      \E e \in verification.agreements :
        e.subject = f.about.subject /\ Peer(f.about, f.side) \in e.sides /\ f.side \notin e.sides
=============================================================================
