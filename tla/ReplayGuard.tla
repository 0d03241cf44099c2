----------------------------- MODULE ReplayGuard -----------------------------
(***************************************************************************)
(* Signed bundles on their way to the registry: packages/registry           *)
(* replay.js (nonces, age, version floor) and equivocation.js (two payloads *)
(* signed for one version), in a process that may restart and lose what it  *)
(* remembers.  Bundles arrive in any order, any number of times, late or    *)
(* never.  Who decides a checked bundle is left open: Accept is the call of *)
(* guard.accept.                                                            *)
(*                                                                          *)
(* A bundle is what wrapSigned signed, and so stands for its canonical      *)
(* bytes: [claimId, version, issuer, nonce, issuedAt, proposal].  A signer  *)
(* whose clock is fast issues it in the future; one that binds nothing      *)
(* against replay leaves the nonce out, which is nonce 0.                   *)
(***************************************************************************)
EXTENDS Naturals, Sequences, FiniteSets

CONSTANTS Bundle,      \* the bundles the signers may have signed
          Deliveries,  \* the sets of them that may be on their way
          MaxAge,      \* DEFAULT_MAX_AGE_MS
          Skew,        \* FUTURE_SKEW_TOLERANCE_MS
          MaxNow, MaxRestarts      \* bounds of a behaviour

ASSUME BundleAssumption ==
  /\ \A b \in Bundle : b.version \in Nat \ {0} /\ b.issuedAt \in Nat
  /\ Deliveries \subseteq SUBSET Bundle
ASSUME AgeAssumption == MaxAge \in Nat /\ Skew \in Nat
ASSUME BoundsAssumption == MaxNow \in Nat /\ MaxRestarts \in Nat

VARIABLES now,          \* the clock of the registry
          sent,         \* the bundles on their way, each delivered any number of times
          seenNonces,   \* the Set of the guard
          floor,        \* latestVersion of the guard; 0 where it has no entry
          pending,      \* bundles whose check said no replay, not yet decided
          store,        \* byKey of the equivocation store
          boot,         \* restarts so far
          passLog,      \* history: the checks that said no replay
          acceptLog,    \* history: the calls of guard.accept
          evidence      \* history: the equivocations reported since the start

guardVars == <<now, sent, seenNonces, floor, pending, store, boot, passLog, acceptLog, evidence>>

ClaimId == {b.claimId : b \in Bundle}

GuardInit ==
  /\ now = 0
  /\ sent \in Deliveries
  /\ seenNonces = {}
  /\ floor = [c \in ClaimId |-> 0]
  /\ pending = {}
  /\ store = {}
  /\ boot = 0
  /\ passLog = <<>>
  /\ acceptLog = <<>>
  /\ evidence = {}

(* A faulty IsCurrent: a bundle is judged by its version only.              *)
IsNewer(b) == b.version > floor[b.claimId]

(* The rest of checkReplay: neither stale nor a version that exists.        *)
IsCurrent(b) ==
  /\ now <= b.issuedAt + MaxAge
  /\ b.issuedAt <= now + Skew
  /\ b.version > floor[b.claimId]

(* assertSignedBundleShape with requireReplayFields: check throws on other  *)
(* bundles, before it looks at them; the store asks for less and takes them.*)
HasReplayFields(b) == b.nonce # 0

(* guard.check: the nonce is used up at once, whether the bundle then       *)
(* passes or not.                                                           *)
Check(b) ==
  /\ seenNonces' = IF HasReplayFields(b) THEN seenNonces \cup {b.nonce} ELSE seenNonces
  /\ IF HasReplayFields(b) /\ b.nonce \notin seenNonces /\ IsCurrent(b)
     THEN /\ pending' = pending \cup {b}
          /\ passLog' = Append(passLog, [b |-> b, boot |-> boot, at |-> now,
                                         accepts |-> Len(acceptLog)])
     ELSE UNCHANGED <<pending, passLog>>

(* A faulty rule: only another proposal conflicts, whatever else differs.   *)
ConflictsInProposal(b) ==
  {p \in store : /\ p.claimId = b.claimId /\ p.version = b.version
                 /\ p.issuer = b.issuer /\ p.proposal # b.proposal}

(* detectEquivocation: what the store holds of this claim, version and key  *)
(* with other bytes.                                                        *)
Conflicts(b) ==
  {p \in store : /\ p.claimId = b.claimId
                 /\ p.version = b.version
                 /\ p.issuer = b.issuer
                 /\ p # b}

(* store.record: the bundle is kept in any case.                            *)
Record(b) ==
  /\ store' = store \cup {b}
  /\ evidence' = IF Conflicts(b) = {} THEN evidence ELSE evidence \cup {Conflicts(b) \cup {b}}

(* A delivery: the store and the guard, which share nothing, both see it.   *)
Receive(b) ==
  /\ Record(b)
  /\ Check(b)
  /\ UNCHANGED <<now, sent, floor, boot, acceptLog>>

(* A faulty accept: the floor is the version accepted last.                 *)
LastAccepted(c, v) == [floor EXCEPT ![c] = v]

Raised(c, v) == [floor EXCEPT ![c] = IF v > @ THEN v ELSE @]

(* guard.accept of a bundle that was checked and then accepted.             *)
Accept(b) ==
  /\ floor' = Raised(b.claimId, b.version)
  /\ pending' = pending \ {b}
  /\ acceptLog' = Append(acceptLog, [b |-> b, boot |-> boot])
  /\ UNCHANGED <<now, sent, seenNonces, store, boot, passLog, evidence>>

(* A checked bundle that is not accepted.                                   *)
Refuse(b) ==
  /\ pending' = pending \ {b}
  /\ UNCHANGED <<now, sent, seenNonces, floor, store, boot, passLog, acceptLog, evidence>>

(* The process restarts: all of it was in memory.                           *)
Restart ==
  /\ boot < MaxRestarts
  /\ boot' = boot + 1
  /\ seenNonces' = {}
  /\ floor' = [c \in ClaimId |-> 0]
  /\ pending' = {}
  /\ store' = {}
  /\ evidence' = {}
  /\ UNCHANGED <<now, sent, passLog, acceptLog>>

Tick ==
  /\ now < MaxNow
  /\ now' = now + 1
  /\ UNCHANGED <<sent, seenNonces, floor, pending, store, boot, passLog, acceptLog, evidence>>

GuardNext ==
  \/ \E b \in sent : Receive(b)
  \/ \E b \in pending : Accept(b) \/ Refuse(b)
  \/ Restart
  \/ Tick

GuardSpec == GuardInit /\ [][GuardNext]_guardVars

-----------------------------------------------------------------------------
GuardTypeOK ==
  /\ now \in 0..MaxNow /\ boot \in 0..MaxRestarts
  /\ sent \subseteq Bundle /\ pending \subseteq sent /\ store \subseteq sent
  /\ seenNonces \subseteq {b.nonce : b \in sent}
  /\ floor \in [ClaimId -> Nat]
  /\ passLog \in Seq([b: sent, boot: 0..boot, at: 0..now, accepts: Nat])
  /\ acceptLog \in Seq([b: sent, boot: 0..boot])
  /\ evidence \subseteq SUBSET sent

(* replay.js:57-60: a nonce is single-use the instant it is seen.  A bundle *)
(* gets past the guard a second time only when a restart came between, and  *)
(* only inside its age window: what the guard forgets costs no more than    *)
(* that.                                                                    *)
PassesAgainOnlyAfterRestart ==
  \A i, j \in DOMAIN passLog :
    i < j /\ passLog[i].b.nonce = passLog[j].b.nonce =>
      /\ passLog[i].boot < passLog[j].boot
      /\ passLog[j].at <= passLog[j].b.issuedAt + MaxAge

(* replay.js:109-114: the floor of a claim is the highest version accepted  *)
(* since the process started, in whatever order the acceptances came, and a *)
(* bundle that passed was above every version accepted before its check.    *)
FloorIsHighestAccepted ==
  /\ \A c \in ClaimId :
       LET mine == {i \in DOMAIN acceptLog : acceptLog[i].boot = boot /\ acceptLog[i].b.claimId = c}
       IN  /\ \A i \in mine : acceptLog[i].b.version <= floor[c]
           /\ floor[c] # 0 => \E i \in mine : acceptLog[i].b.version = floor[c]
  /\ \A p \in DOMAIN passLog : \A i \in 1..passLog[p].accepts :
       acceptLog[i].boot = passLog[p].boot /\ acceptLog[i].b.claimId = passLog[p].b.claimId =>
         acceptLog[i].b.version < passLog[p].b.version

(* equivocation.js:18-22, "store both signed statements as evidence": of    *)
(* any two payloads one key signed for one version, both received since the *)
(* start, both are in a report, in whatever order and however often they    *)
(* came; and a report accuses no key of less than that.                     *)
EquivocationIsEvidenced ==
  /\ \A b1, b2 \in store :
       b1 # b2 /\ b1.claimId = b2.claimId /\ b1.version = b2.version /\ b1.issuer = b2.issuer =>
         \E E \in evidence : {b1, b2} \subseteq E
  /\ \A E \in evidence :
       /\ \E b1, b2 \in E : b1 # b2
       /\ \A b1, b2 \in E : /\ b1.claimId = b2.claimId /\ b1.version = b2.version
                            /\ b1.issuer = b2.issuer
=============================================================================
