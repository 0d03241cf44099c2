--------------------------- MODULE RegistryProofs ---------------------------
(***************************************************************************)
(* What the replay guard and the equivocation store promise for every set  *)
(* of bundles, of clocks and of restarts, and that the claim registry,     *)
(* whatever its proposals, only does what the guard allows; that what the  *)
(* gate accepts, of a document's restatement or of a proposal, says what   *)
(* was claimed; and that the alignment guesses nothing and loses nothing,  *)
(* for every document and every restatement.                               *)
(***************************************************************************)
EXTENDS ClaimRegistry, FoldProofs, TLAPS

(* What the guard has let through since the process started, it remembers   *)
(* by its nonce; nothing went through too late; and a check saw no more     *)
(* acceptances than there are.                                              *)
PassesRemembered ==
  \A i \in DOMAIN passLog :
    /\ passLog[i].boot = boot => passLog[i].b.nonce \in seenNonces
    /\ passLog[i].at <= passLog[i].b.issuedAt + MaxAge
    /\ passLog[i].accepts <= Len(acceptLog)

(* The two halves of FloorIsHighestAccepted.                                *)
AcceptedNow(c) == {i \in DOMAIN acceptLog : acceptLog[i].boot = boot /\ acceptLog[i].b.claimId = c}

FloorHolds ==
  \A c \in ClaimId :
    /\ \A i \in AcceptedNow(c) : acceptLog[i].b.version <= floor[c]
    /\ floor[c] # 0 => \E i \in AcceptedNow(c) : acceptLog[i].b.version = floor[c]

PassesAreAbove ==
  \A p \in DOMAIN passLog : \A i \in 1..passLog[p].accepts :
    acceptLog[i].boot = passLog[p].boot /\ acceptLog[i].b.claimId = passLog[p].b.claimId =>
      acceptLog[i].b.version < passLog[p].b.version

LEMMA FloorParts == FloorIsHighestAccepted <=> FloorHolds /\ PassesAreAbove
BY DEF FloorIsHighestAccepted, FloorHolds, PassesAreAbove, AcceptedNow

Pass == [b: sent, boot: 0..boot, at: 0..now, accepts: Nat]
Acceptance == [b: sent, boot: 0..boot]

-----------------------------------------------------------------------------
(* The members of a sequence over a set are in it.                          *)
LEMMA SeqMembers ==
  ASSUME NEW S, NEW s \in Seq(S)
  PROVE  \A i \in DOMAIN s : s[i] \in S
OBVIOUS

(* A sequence over a set is one over a larger set.                          *)
LEMMA SeqOfMore ==
  ASSUME NEW S, NEW T, S \subseteq T, NEW s \in Seq(S)
  PROVE  s \in Seq(T)
<1>1. \A i \in 1..Len(s) : s[i] \in T
  OBVIOUS
<1>2. s = [i \in 1..Len(s) |-> s[i]] /\ Len(s) \in Nat
  OBVIOUS
<1> QED
  BY <1>1, <1>2

(* The fields of a bundle.                                                  *)
LEMMA BundleFields ==
  ASSUME NEW b \in Bundle
  PROVE  b.version \in Nat \ {0} /\ b.issuedAt \in Nat /\ b.claimId \in ClaimId
BY BundleAssumption DEF ClaimId

(* The guard's state keeps its types: versions are numbers, what is pending *)
(* or stored was sent, and the histories speak of the past.                 *)
LEMMA GuardTypeInit == GuardInit => GuardTypeOK
BY BundleAssumption, AgeAssumption, BoundsAssumption DEF GuardInit, GuardTypeOK

LEMMA GuardTypeStep == GuardTypeOK /\ [GuardNext]_guardVars => GuardTypeOK'
<1> SUFFICES ASSUME GuardTypeOK, [GuardNext]_guardVars
             PROVE  GuardTypeOK'
  OBVIOUS
<1> USE BoundsAssumption DEF GuardTypeOK
<1>1. CASE UNCHANGED guardVars
  BY <1>1 DEF guardVars
<1>2. ASSUME NEW b \in sent, Receive(b)
      PROVE  GuardTypeOK'
  <2>1. UNCHANGED <<now, sent, floor, boot, acceptLog>>
    BY <1>2 DEF Receive
  <2>2. store' \subseteq sent /\ evidence' \subseteq SUBSET sent
    BY <1>2 DEF Receive, Record, Conflicts
  <2>3. /\ pending' \subseteq sent /\ seenNonces' \subseteq {x.nonce : x \in sent}
        /\ passLog' \in Seq(Pass)
    <3>1. seenNonces' \subseteq {x.nonce : x \in sent}
      BY <1>2 DEF Receive, Check
    <3>2. pending' \subseteq sent
      BY <1>2 DEF Receive, Check
    <3>3. [b |-> b, boot |-> boot, at |-> now, accepts |-> Len(acceptLog)] \in Pass
      BY DEF Pass
    <3>4. passLog \in Seq(Pass)
      BY DEF Pass
    <3>5. passLog' = passLog \/ passLog' = Append(passLog, [b |-> b, boot |-> boot, at |-> now, accepts |-> Len(acceptLog)])
      BY <1>2 DEF Receive, Check
    <3>6. passLog' \in Seq(Pass)
      <4> HIDE DEF GuardTypeOK
      <4> QED
        BY <3>3, <3>4, <3>5
    <3> QED
      BY <3>1, <3>2, <3>6
  <2> QED
    BY <2>1, <2>2, <2>3 DEF Pass
<1>3. ASSUME NEW b \in pending, Accept(b)
      PROVE  GuardTypeOK'
  <2>1. /\ UNCHANGED <<now, sent, seenNonces, store, boot, passLog, evidence>>
        /\ pending' \subseteq sent
    BY <1>3 DEF Accept
  <2>2. floor' \in [ClaimId -> Nat]
    BY <1>3, BundleFields DEF Accept, Raised
  <2>3. acceptLog' \in Seq(Acceptance)
    BY <1>3 DEF Accept, Acceptance
  <2> QED
    BY <2>1, <2>2, <2>3 DEF Acceptance
<1>4. ASSUME NEW b \in pending, Refuse(b)
      PROVE  GuardTypeOK'
  BY <1>4 DEF Refuse
<1>5. CASE Restart
  <2>1. passLog \in Seq([b: sent, boot: 0..(boot + 1), at: 0..now, accepts: Nat])
    <3>1. Pass \subseteq [b: sent, boot: 0..(boot + 1), at: 0..now, accepts: Nat]
      BY DEF Pass
    <3> QED
      BY <3>1, SeqOfMore DEF Pass
  <2>2. acceptLog \in Seq([b: sent, boot: 0..(boot + 1)])
    <3>1. Acceptance \subseteq [b: sent, boot: 0..(boot + 1)]
      BY DEF Acceptance
    <3> QED
      BY <3>1, SeqOfMore DEF Acceptance
  <2> QED
    BY <1>5, <2>1, <2>2 DEF Restart
<1>6. CASE Tick
  <2>1. passLog \in Seq([b: sent, boot: 0..boot, at: 0..(now + 1), accepts: Nat])
    <3>1. Pass \subseteq [b: sent, boot: 0..boot, at: 0..(now + 1), accepts: Nat]
      BY DEF Pass
    <3> QED
      BY <3>1, SeqOfMore DEF Pass
  <2> QED
    BY <1>6, <2>1 DEF Tick
<1> QED
  BY <1>1, <1>2, <1>3, <1>4, <1>5, <1>6 DEF GuardNext

-----------------------------------------------------------------------------
(* The invariant of the guard, conjunct by conjunct.                        *)
GuardInv ==
  /\ GuardTypeOK
  /\ PassesRemembered
  /\ PassesAgainOnlyAfterRestart
  /\ FloorHolds
  /\ PassesAreAbove
  /\ EquivocationIsEvidenced

LEMMA GuardInvInit == GuardInit => GuardInv
BY GuardTypeInit
   DEF GuardInit, GuardInv, PassesRemembered, PassesAgainOnlyAfterRestart, FloorHolds,
       AcceptedNow, PassesAreAbove, EquivocationIsEvidenced

(* A check that lets a bundle through adds one pass, of a nonce the guard   *)
(* did not remember, in time and above the floor; any other adds none.      *)
LEMMA CheckAdds ==
  ASSUME GuardTypeOK, NEW b \in sent, Receive(b)
  PROVE  /\ seenNonces \subseteq seenNonces'
         /\ \/ passLog' = passLog
            \/ /\ Len(passLog') = Len(passLog) + 1 /\ Len(passLog) \in Nat
               /\ DOMAIN passLog = 1..Len(passLog) /\ DOMAIN passLog' = 1..(Len(passLog) + 1)
               /\ \A i \in 1..Len(passLog) : passLog'[i] = passLog[i]
               /\ passLog'[Len(passLog) + 1].b = b
               /\ passLog'[Len(passLog) + 1].boot = boot
               /\ passLog'[Len(passLog) + 1].at = now
               /\ passLog'[Len(passLog) + 1].accepts = Len(acceptLog)
               /\ b.nonce \notin seenNonces /\ b.nonce \in seenNonces'
               /\ now <= b.issuedAt + MaxAge
               /\ b.version > floor[b.claimId]
<1>1. seenNonces \subseteq seenNonces'
  BY DEF Receive, Check
<1>2. CASE HasReplayFields(b) /\ b.nonce \notin seenNonces /\ IsCurrent(b)
  <2>1. passLog' = Append(passLog, [b |-> b, boot |-> boot, at |-> now, accepts |-> Len(acceptLog)])
    BY <1>2 DEF Receive, Check
  <2>2. passLog \in Seq(Pass)
    BY DEF GuardTypeOK, Pass
  <2>3. b.nonce \in seenNonces'
    BY <1>2 DEF Receive, Check
  <2> QED
    BY <1>1, <1>2, <2>1, <2>2, <2>3 DEF IsCurrent
<1>3. CASE ~(HasReplayFields(b) /\ b.nonce \notin seenNonces /\ IsCurrent(b))
  BY <1>1, <1>3 DEF Receive, Check
<1> QED
  BY <1>2, <1>3

(* What changes neither the guard's memory nor its histories keeps what     *)
(* they say of each other.                                                  *)
LEMMA StutterPreserves ==
  ASSUME GuardInv, UNCHANGED <<seenNonces, floor, store, boot, passLog, acceptLog, evidence>>,
         GuardTypeOK'
  PROVE  GuardInv'
BY DEF GuardInv, PassesRemembered, PassesAgainOnlyAfterRestart, FloorHolds, AcceptedNow,
       PassesAreAbove, EquivocationIsEvidenced

(* A statement recorded next to conflicting ones is reported with all of    *)
(* them, and earlier reports stay.                                          *)
LEMMA RecordReports ==
  ASSUME EquivocationIsEvidenced, NEW b, Record(b)
  PROVE  EquivocationIsEvidenced'
<1> DEFINE Same(x, y) == x.claimId = y.claimId /\ x.version = y.version /\ x.issuer = y.issuer
<1>1. store' = store \cup {b} /\ evidence \subseteq evidence'
  BY DEF Record
<1>2. \A x \in store : x # b /\ Same(x, b) => \E E \in evidence' : {x, b} \subseteq E
  <2> SUFFICES ASSUME NEW x \in store, x # b, Same(x, b)
               PROVE  \E E \in evidence' : {x, b} \subseteq E
    OBVIOUS
  <2>1. x \in Conflicts(b)
    BY DEF Conflicts
  <2>2. Conflicts(b) \cup {b} \in evidence'
    BY <2>1 DEF Record
  <2> QED
    BY <2>1, <2>2
<1>3. \A x, y \in store' : x # y /\ Same(x, y) => \E E \in evidence' : {x, y} \subseteq E
  <2> SUFFICES ASSUME NEW x \in store', NEW y \in store', x # y, Same(x, y)
               PROVE  \E E \in evidence' : {x, y} \subseteq E
    OBVIOUS
  <2>1. CASE x \in store /\ y \in store
    BY <1>1, <2>1 DEF EquivocationIsEvidenced
  <2>2. CASE x = b
    BY <1>1, <1>2, <2>2
  <2>3. CASE y = b
    BY <1>1, <1>2, <2>3
  <2> QED
    BY <1>1, <2>1, <2>2, <2>3
<1>4. \A E \in evidence' : (\E x, y \in E : x # y) /\ \A x, y \in E : Same(x, y)
  <2> SUFFICES ASSUME NEW E \in evidence'
               PROVE  (\E x, y \in E : x # y) /\ \A x, y \in E : Same(x, y)
    OBVIOUS
  <2>1. CASE E \in evidence
    BY <2>1 DEF EquivocationIsEvidenced
  <2>2. CASE E = Conflicts(b) \cup {b} /\ Conflicts(b) # {}
    BY <2>2 DEF Conflicts
  <2> QED
    BY <2>1, <2>2 DEF Record
<1> QED
  BY <1>3, <1>4 DEF EquivocationIsEvidenced

LEMMA ReceivePreserves ==
  ASSUME GuardInv, GuardTypeOK', NEW b \in sent, Receive(b)
  PROVE  GuardInv'
<1>1. GuardTypeOK /\ PassesRemembered /\ PassesAgainOnlyAfterRestart /\ FloorHolds
      /\ PassesAreAbove /\ EquivocationIsEvidenced
  BY DEF GuardInv
<1>2. UNCHANGED <<now, sent, floor, boot, acceptLog>>
  BY DEF Receive
<1> DEFINE n == Len(passLog)
<1>3. /\ n \in Nat /\ DOMAIN passLog = 1..n /\ Len(acceptLog) \in Nat
      /\ DOMAIN acceptLog = 1..Len(acceptLog)
      /\ \A i \in 1..n : passLog[i] \in Pass
      /\ \A i \in 1..Len(acceptLog) : acceptLog[i] \in Acceptance
  <2>1. passLog \in Seq(Pass) /\ acceptLog \in Seq(Acceptance)
    BY <1>1 DEF GuardTypeOK, Pass, Acceptance
  <2> QED
    BY <2>1
<1>4. PassesRemembered'
  BY <1>1, <1>2, <1>3, CheckAdds DEF PassesRemembered
<1>5. PassesAgainOnlyAfterRestart'
  <2>1. CASE passLog' = passLog
    BY <1>1, <2>1 DEF PassesAgainOnlyAfterRestart
  <2>2. CASE passLog' # passLog
    <3>1. /\ DOMAIN passLog' = 1..(n + 1) /\ \A i \in 1..n : passLog'[i] = passLog[i]
          /\ passLog'[n + 1].b = b /\ passLog'[n + 1].boot = boot /\ passLog'[n + 1].at = now
          /\ b.nonce \notin seenNonces /\ now <= b.issuedAt + MaxAge
      BY <1>1, <2>2, CheckAdds
    <3> SUFFICES ASSUME NEW i \in 1..(n + 1), NEW j \in 1..(n + 1), i < j,
                        passLog'[i].b.nonce = passLog'[j].b.nonce
                 PROVE  /\ passLog'[i].boot < passLog'[j].boot
                        /\ passLog'[j].at <= passLog'[j].b.issuedAt + MaxAge
      BY <3>1 DEF PassesAgainOnlyAfterRestart
    <3>2. i \in 1..n
      BY <1>3
    <3>3. CASE j \in 1..n
      BY <1>1, <1>3, <3>1, <3>2, <3>3 DEF PassesAgainOnlyAfterRestart
    <3>4. CASE j = n + 1
      <4>1. passLog[i].boot # boot
        BY <1>1, <1>3, <3>1, <3>2, <3>4 DEF PassesRemembered
      <4>2. passLog[i].boot \in 0..boot /\ boot \in Nat
        BY <1>1, <1>3, <3>2, BoundsAssumption DEF Pass, GuardTypeOK
      <4> QED
        BY <3>1, <3>2, <3>4, <4>1, <4>2
    <3> QED
      BY <1>3, <3>3, <3>4
  <2> QED
    BY <2>1, <2>2
<1>6. FloorHolds'
  BY <1>1, <1>2 DEF FloorHolds, AcceptedNow, ClaimId
<1>7. PassesAreAbove'
  <2>1. CASE passLog' = passLog
    BY <1>1, <1>2, <2>1 DEF PassesAreAbove
  <2>2. CASE passLog' # passLog
    <3>1. /\ DOMAIN passLog' = 1..(n + 1) /\ \A i \in 1..n : passLog'[i] = passLog[i]
          /\ passLog'[n + 1].b = b /\ passLog'[n + 1].boot = boot
          /\ passLog'[n + 1].accepts = Len(acceptLog) /\ b.version > floor[b.claimId]
      BY <1>1, <2>2, CheckAdds
    <3> SUFFICES ASSUME NEW p \in 1..(n + 1), NEW i \in 1..passLog'[p].accepts,
                        acceptLog[i].boot = passLog'[p].boot,
                        acceptLog[i].b.claimId = passLog'[p].b.claimId
                 PROVE  acceptLog[i].b.version < passLog'[p].b.version
      BY <1>2, <3>1 DEF PassesAreAbove
    <3>2. CASE p \in 1..n
      BY <1>1, <1>3, <3>1, <3>2 DEF PassesAreAbove
    <3>3. CASE p = n + 1
      <4>1. b \in Bundle
        BY <1>1 DEF GuardTypeOK
      <4>2. i \in AcceptedNow(b.claimId)
        BY <1>3, <3>1, <3>3 DEF AcceptedNow
      <4>3. acceptLog[i].b.version <= floor[b.claimId]
        BY <1>1, <4>1, <4>2, BundleFields DEF FloorHolds
      <4>4. acceptLog[i].b \in Bundle
        BY <1>1, <1>3, <3>1, <3>3 DEF Acceptance, GuardTypeOK
      <4>5. floor[b.claimId] \in Nat /\ b.version \in Nat /\ acceptLog[i].b.version \in Nat
        BY <1>1, <4>1, <4>4, BundleFields DEF GuardTypeOK
      <4> QED
        BY <3>1, <3>3, <4>3, <4>5
    <3> QED
      BY <1>3, <3>2, <3>3
  <2> QED
    BY <2>1, <2>2
<1>8. EquivocationIsEvidenced'
  BY <1>1, RecordReports DEF Receive
<1> QED
  BY <1>4, <1>5, <1>6, <1>7, <1>8 DEF GuardInv

(* An acceptance raises the floor to the version accepted, or leaves it     *)
(* where a higher one put it.                                               *)
LEMMA AcceptPreserves ==
  ASSUME GuardInv, GuardTypeOK', NEW b \in pending, Accept(b)
  PROVE  GuardInv'
<1>1. GuardTypeOK /\ PassesRemembered /\ PassesAgainOnlyAfterRestart /\ FloorHolds
      /\ PassesAreAbove /\ EquivocationIsEvidenced
  BY DEF GuardInv
<1>2. UNCHANGED <<now, sent, seenNonces, store, boot, passLog, evidence>>
  BY DEF Accept
<1> DEFINE m == Len(acceptLog)
<1>3. /\ m \in Nat /\ DOMAIN acceptLog = 1..m
      /\ DOMAIN acceptLog' = 1..(m + 1) /\ Len(acceptLog') = m + 1
      /\ \A i \in 1..m : acceptLog'[i] = acceptLog[i] /\ acceptLog[i] \in Acceptance
      /\ acceptLog'[m + 1].b = b /\ acceptLog'[m + 1].boot = boot
  <2>1. acceptLog \in Seq(Acceptance)
    BY <1>1 DEF GuardTypeOK, Acceptance
  <2>2. acceptLog' = Append(acceptLog, [b |-> b, boot |-> boot])
    BY DEF Accept
  <2> QED
    BY <2>1, <2>2
<1>4. /\ \A i \in DOMAIN passLog : passLog[i].accepts \in Nat
      /\ b \in Bundle /\ b.claimId \in ClaimId /\ b.version \in Nat \ {0}
      /\ floor \in [ClaimId -> Nat]
      /\ \A i \in 1..m : acceptLog[i].b.version \in Nat
  <2>1. \A i \in DOMAIN passLog : passLog[i].accepts \in Nat
    <3>1. passLog \in Seq(Pass)
      BY <1>1 DEF GuardTypeOK, Pass
    <3>2. \A i \in DOMAIN passLog : passLog[i] \in Pass
      BY <3>1, SeqMembers
    <3> QED
      BY <3>2 DEF Pass
  <2>2. b \in Bundle /\ floor \in [ClaimId -> Nat] /\ sent \subseteq Bundle
    BY <1>1 DEF GuardTypeOK
  <2>3. b.claimId \in ClaimId /\ b.version \in Nat \ {0}
    BY <2>2, BundleFields
  <2>4. \A i \in 1..m : acceptLog[i].b \in sent
    BY <1>3 DEF Acceptance
  <2>5. \A i \in 1..m : acceptLog[i].b.version \in Nat
    BY <2>2, <2>4, BundleFields
  <2> QED
    BY <2>1, <2>2, <2>3, <2>5
<1>5. PassesRemembered'
  BY <1>1, <1>2, <1>3, <1>4 DEF PassesRemembered
<1>6. PassesAgainOnlyAfterRestart'
  BY <1>1, <1>2 DEF PassesAgainOnlyAfterRestart
<1>7. FloorHolds'
  <2> SUFFICES ASSUME NEW c \in ClaimId
               PROVE  /\ \A i \in AcceptedNow(c)' : acceptLog'[i].b.version <= floor'[c]
                      /\ floor'[c] # 0 =>
                           \E i \in AcceptedNow(c)' : acceptLog'[i].b.version = floor'[c]
    BY DEF FloorHolds, ClaimId
  <2>1. CASE c # b.claimId
    <3>1. AcceptedNow(c)' = AcceptedNow(c) /\ floor'[c] = floor[c]
      BY <1>2, <1>3, <1>4, <2>1 DEF AcceptedNow, Accept, Raised
    <3>2. \A i \in AcceptedNow(c) : acceptLog'[i] = acceptLog[i]
      BY <1>3 DEF AcceptedNow
    <3> QED
      BY <1>1, <3>1, <3>2 DEF FloorHolds
  <2>2. CASE c = b.claimId
    <3>1. AcceptedNow(c)' = AcceptedNow(c) \cup {m + 1}
      BY <1>2, <1>3, <2>2 DEF AcceptedNow
    <3>2. \A i \in AcceptedNow(c) : acceptLog'[i] = acceptLog[i] /\ acceptLog[i].b.version \in Nat
      BY <1>3, <1>4 DEF AcceptedNow
    <3>3. floor'[c] = IF b.version > floor[c] THEN b.version ELSE floor[c]
      BY <1>4, <2>2 DEF Accept, Raised
    <3>4. /\ \A i \in AcceptedNow(c) : acceptLog[i].b.version <= floor[c]
          /\ floor[c] # 0 => \E i \in AcceptedNow(c) : acceptLog[i].b.version = floor[c]
          /\ floor[c] \in Nat
      BY <1>1, <1>4 DEF FloorHolds
    <3>5. \A i \in AcceptedNow(c)' : acceptLog'[i].b.version <= floor'[c]
      BY <1>3, <1>4, <3>1, <3>2, <3>3, <3>4
    <3>6. \E i \in AcceptedNow(c)' : acceptLog'[i].b.version = floor'[c]
      BY <1>3, <1>4, <3>1, <3>2, <3>3, <3>4
    <3> QED
      BY <3>5, <3>6
  <2> QED
    BY <2>1, <2>2
<1>8. PassesAreAbove'
  BY <1>1, <1>2, <1>3, <1>4, SMTT(30) DEF PassesAreAbove, PassesRemembered
<1>9. EquivocationIsEvidenced'
  BY <1>1, <1>2 DEF EquivocationIsEvidenced
<1> QED
  BY <1>5, <1>6, <1>7, <1>8, <1>9 DEF GuardInv

(* A restart forgets everything, and what was accepted before it belongs to *)
(* an earlier start.                                                        *)
LEMMA RestartPreserves ==
  ASSUME GuardInv, GuardTypeOK', Restart
  PROVE  GuardInv'
<1>1. GuardTypeOK /\ PassesRemembered /\ PassesAgainOnlyAfterRestart /\ FloorHolds
      /\ PassesAreAbove /\ EquivocationIsEvidenced
  BY DEF GuardInv
<1>2. /\ UNCHANGED <<now, sent, passLog, acceptLog>> /\ boot' = boot + 1 /\ boot \in Nat
      /\ floor' = [c \in ClaimId |-> 0] /\ store' = {} /\ evidence' = {}
  BY <1>1, BoundsAssumption DEF Restart, GuardTypeOK
<1>3. /\ \A i \in DOMAIN passLog : passLog[i].boot \in 0..boot
      /\ \A i \in DOMAIN acceptLog : acceptLog[i].boot \in 0..boot
  <2>1. passLog \in Seq(Pass) /\ acceptLog \in Seq(Acceptance)
    BY <1>1 DEF GuardTypeOK, Pass, Acceptance
  <2>2. /\ \A i \in DOMAIN passLog : passLog[i] \in Pass
        /\ \A i \in DOMAIN acceptLog : acceptLog[i] \in Acceptance
    BY <2>1, SeqMembers
  <2> QED
    BY <2>2 DEF Pass, Acceptance
<1>4. PassesRemembered' /\ PassesAgainOnlyAfterRestart' /\ PassesAreAbove'
  BY <1>1, <1>2, <1>3 DEF PassesRemembered, PassesAgainOnlyAfterRestart, PassesAreAbove
<1>5. FloorHolds'
  <2>1. \A c : AcceptedNow(c)' = {}
    BY <1>2, <1>3 DEF AcceptedNow
  <2> QED
    BY <1>2, <2>1 DEF FloorHolds, ClaimId
<1>6. EquivocationIsEvidenced'
  BY <1>2 DEF EquivocationIsEvidenced
<1> QED
  BY <1>4, <1>5, <1>6 DEF GuardInv

LEMMA GuardInvStep == GuardInv /\ [GuardNext]_guardVars => GuardInv'
<1> SUFFICES ASSUME GuardInv, [GuardNext]_guardVars
             PROVE  GuardInv'
  OBVIOUS
<1>1. GuardTypeOK'
  BY GuardTypeStep DEF GuardInv
<1>2. CASE UNCHANGED guardVars
  BY <1>1, <1>2, StutterPreserves DEF guardVars
<1>3. ASSUME NEW b \in sent, Receive(b)
      PROVE  GuardInv'
  BY <1>1, <1>3, ReceivePreserves
<1>4. ASSUME NEW b \in pending, Accept(b)
      PROVE  GuardInv'
  BY <1>1, <1>4, AcceptPreserves
<1>5. ASSUME NEW b \in pending, Refuse(b)
      PROVE  GuardInv'
  BY <1>1, <1>5, StutterPreserves DEF Refuse
<1>6. CASE Restart
  BY <1>1, <1>6, RestartPreserves
<1>7. CASE Tick
  BY <1>1, <1>7, StutterPreserves DEF Tick
<1> QED
  BY <1>2, <1>3, <1>4, <1>5, <1>6, <1>7 DEF GuardNext

-----------------------------------------------------------------------------
(* transitions.js and replay.js: whatever the proposals are and however     *)
(* they are judged, the registry does to the guard only what GuardSpec      *)
(* allows: a delivery, a decision on what passed, a restart.                *)
THEOREM RegistryObeysGuard == Spec => GuardSpec
<1>1. Init => GuardInit
  BY DEF Init
<1>2. [Next]_vars => [GuardNext]_guardVars
  <2>1. ASSUME DocumentStep
        PROVE  UNCHANGED guardVars
    BY <2>1 DEF DocumentStep, CheckHop
  <2>2. ASSUME BundleStep
        PROVE  GuardNext
    BY <2>2 DEF BundleStep, Decide, GuardNext
  <2>3. UNCHANGED vars => UNCHANGED guardVars
    BY DEF vars
  <2> QED
    BY <2>1, <2>2, <2>3 DEF Next
<1> QED
  BY <1>1, <1>2, PTL DEF Spec, GuardSpec

(* replay.js and equivocation.js: what the guard and the store remember is  *)
(* in step with what was received, passed and accepted.                     *)
THEOREM GuardInvariant == GuardSpec => []GuardInv
BY GuardInvInit, GuardInvStep, PTL DEF GuardSpec

(* replay.js:57-60: a nonce passes the guard a second time only after a     *)
(* restart, and only inside the age window of its bundle.                   *)
THEOREM NoncesPassOnce == Spec => []PassesAgainOnlyAfterRestart
<1>1. GuardInv => PassesAgainOnlyAfterRestart
  BY DEF GuardInv
<1> QED
  BY <1>1, RegistryObeysGuard, GuardInvariant, PTL

(* replay.js:109-114: the floor of a claim is the highest version accepted  *)
(* since the start, in whatever order acceptances follow their checks.      *)
THEOREM FloorsAreHighest == Spec => []FloorIsHighestAccepted
<1>1. GuardInv => FloorIsHighestAccepted
  BY FloorParts DEF GuardInv
<1> QED
  BY <1>1, RegistryObeysGuard, GuardInvariant, PTL

(* equivocation.js:18-22: any two payloads of one key for one version that  *)
(* were received since the start are together in a report, and no report    *)
(* accuses a key of less.                                                   *)
THEOREM EquivocationsAreEvidenced == Spec => []EquivocationIsEvidenced
<1>1. GuardInv => EquivocationIsEvidenced
  BY DEF GuardInv
<1> QED
  BY <1>1, RegistryObeysGuard, GuardInvariant, PTL

-----------------------------------------------------------------------------
(* The parser: whatever the text, a quantity lies in its band.              *)

LEMMA Quotient ==
  ASSUME NEW a \in Nat, NEW b \in Nat \ {0}
  PROVE  a \div b \in Nat
OBVIOUS

(* The vocabularies: a hedge allows a band around what it hedges, and the   *)
(* value of a vague word is in the middle of its own.                       *)
LEMMA HedgesAre ==
  /\ \A x \in DOMAIN HEDGES : HEDGES[x][1] \in 0..100 /\ HEDGES[x][2] \in 100..150
  /\ \A w \in DOMAIN VAGUE :
       /\ VAGUE[w].lo \in Nat /\ VAGUE[w].value \in Nat /\ VAGUE[w].hi \in Nat
       /\ VAGUE[w].lo <= VAGUE[w].value /\ VAGUE[w].value <= VAGUE[w].hi
  <1>1. DOMAIN HEDGES = {"none", "about", "nearly", "over"} BY DEF HEDGES
  <1>2. DOMAIN VAGUE = {"half", "third", "most"} BY DEF VAGUE
  <1>3. \A x \in DOMAIN HEDGES : HEDGES[x][1] \in 0..100 /\ HEDGES[x][2] \in 100..150
    BY <1>1 DEF HEDGES
  <1>4. ASSUME NEW w \in DOMAIN VAGUE
        PROVE  /\ VAGUE[w].lo \in Nat /\ VAGUE[w].value \in Nat /\ VAGUE[w].hi \in Nat
               /\ VAGUE[w].lo <= VAGUE[w].value /\ VAGUE[w].value <= VAGUE[w].hi
    BY <1>2, <1>4 DEF VAGUE
  <1> QED BY <1>3, <1>4

LEMMA BandAround ==
  ASSUME NEW v \in Nat, NEW lo \in Nat, NEW hi \in Nat, lo <= v, v <= hi,
         NEW p \in 0..100, NEW q \in 100..150
  PROVE  /\ (lo * p) \div 100 \in Nat /\ (lo * p) \div 100 <= v
         /\ (hi * q) \div 100 \in Nat /\ v <= (hi * q) \div 100
  <1>1. lo * p \in Nat /\ lo * p <= 100 * lo OBVIOUS
  <1>2. hi * q \in Nat /\ hi * q >= 100 * hi OBVIOUS
  <1> DEFINE a == lo * p
             b == hi * q
  <1>3. a \in Nat /\ a <= 100 * lo /\ b \in Nat /\ b >= 100 * hi BY <1>1, <1>2
  <1> HIDE DEF a, b
  <1>4. a \div 100 \in Nat /\ a \div 100 <= v /\ b \div 100 \in Nat /\ v <= b \div 100 BY <1>3
  <1> QED BY <1>4 DEF a, b

LEMMA ValueIs ==
  ASSUME NEW h, IsMatch(h), Sound(h)
  PROVE  ValueOf(h) \in Nat /\ (h.kind = "vague" => ValueOf(h) = VAGUE[h.word].value)
  <1>1. h.kind \in {"ratio", "percent", "currency", "duration", "vague", "bare"}
    BY DEF IsMatch, PRIORITY
  <1>2. CASE h.kind = "ratio"
    <2>1. h.n * Unit \in Nat /\ h.d \in Nat \ {0} BY <1>2 DEF IsMatch, Sound, Unit
    <2>2. (h.n * Unit) \div h.d \in Nat BY <2>1, Quotient
    <2> QED BY <1>2, <2>2 DEF ValueOf
  <1>3. CASE h.kind = "percent"
    <2>1. Unit \div 100 = 10 BY DEF Unit
    <2>2. ValueOf(h) = h.n * 10 BY <1>3, <2>1 DEF ValueOf
    <2> QED BY <1>3, <2>2 DEF IsMatch
  <1>4. CASE h.kind = "vague" BY <1>4, HedgesAre DEF ValueOf, IsMatch
  <1>5. CASE h.kind \in {"currency", "duration", "bare"}
    <2>1. ValueOf(h) = h.n * Unit BY <1>5 DEF ValueOf
    <2> QED BY <1>5, <2>1 DEF IsMatch, Unit
  <1> QED BY <1>1, <1>2, <1>3, <1>4, <1>5

LEMMA FinalisedIsQuantity ==
  ASSUME NEW h, IsMatch(h), Sound(h)
  PROVE  IsQuantity(finalise(h))
  <1> DEFINE v == ValueOf(h)
             lo == IF h.kind = "vague" THEN VAGUE[h.word].lo ELSE v
             hi == IF h.kind = "vague" THEN VAGUE[h.word].hi ELSE v
             p == HEDGES[h.hedge][1]
             q == HEDGES[h.hedge][2]
  <1>0. finalise(h).dimension \in DOMAIN DIMENSION_RANK
    <2>1. h.kind \in {"ratio", "percent", "currency", "duration", "vague", "bare"}
      BY DEF IsMatch, PRIORITY
    <2>2. DimensionOf(h) \in DOMAIN DIMENSION_RANK BY <2>1 DEF DimensionOf, DIMENSION_RANK
    <2> QED BY <2>2 DEF finalise
  <1>1. /\ v \in Nat /\ lo \in Nat /\ hi \in Nat /\ lo <= v /\ v <= hi
    BY ValueIs, HedgesAre DEF IsMatch
  <1>2. p \in 0..100 /\ q \in 100..150 BY HedgesAre DEF IsMatch
  <1>3. /\ finalise(h).value = v /\ finalise(h).vague = (h.kind = "vague")
        /\ finalise(h).band = <<(lo * p) \div 100, (hi * q) \div 100>>
    BY SMTT(30) DEF finalise
  <1> HIDE DEF v, lo, hi, p, q
  <1>4. /\ (lo * p) \div 100 \in Nat /\ (lo * p) \div 100 <= v
        /\ (hi * q) \div 100 \in Nat /\ v <= (hi * q) \div 100
    BY <1>1, <1>2, BandAround
  <1>5. PICK low, high : low = (lo * p) \div 100 /\ high = (hi * q) \div 100 OBVIOUS
  <1>6. low \in Nat /\ high \in Nat /\ low <= v /\ v <= high BY <1>4, <1>5
  <1>7. finalise(h).band = <<low, high>> BY <1>3, <1>5
  <1> QED BY <1>0, <1>1, <1>3, <1>6, <1>7 DEF IsQuantity, makeQuantityAccepts

(* The sides of a mention say where they come from ...                      *)
Sided(q) == \A m \in q.numerator \cup q.denominator : makeMagnitudeAccepts(m)

LEMMA FinalisedIsSided ==
  ASSUME NEW h
  PROVE  Sided(finalise(h))
BY DEF Sided, finalise, Magnitude, makeMagnitudeAccepts, PROVENANCE

(* ... and so do those found for it in the sentence and its paragraph.      *)
LEMMA ResolvedAreSided ==
  ASSUME NEW q, NEW qs, NEW earlier, Sided(q), \A p \in qs : Sided(p)
  PROVE  Sided(resolveMagnitudes(q, qs, earlier))
  <1> DEFINE others == {p \in qs : p # q /\ p.suppressed = None}
             ratios == LeftmostOf({p \in others : p.numerator # {} /\ p.denominator # {}})
             counts == LeftmostOf({p \in others : Counts(p)})
             near == {i \in DOMAIN earlier :
                        \E p \in earlier[i] : Counts(p) /\ unitsCompatible(q.noun, p.noun)}
             nearest == {i \in near : \A j \in near : j <= i}
             none == [numerator |-> {}, denominator |-> {}]
             own == [numerator |-> q.numerator, denominator |-> WithUnit(q.denominator, q.noun)]
             ratio == [numerator |-> UNION {p.numerator : p \in ratios},
                       denominator |-> UNION {WithUnit(p.denominator, p.noun) : p \in ratios}]
             count == [none EXCEPT !.denominator = UNION {Base(p, p.noun, "derived") : p \in counts}]
             past == [none EXCEPT !.denominator =
                        UNION {Base(p, p.noun, "inherited") : p \in UNION {earlier[i] : i \in nearest}}]
  <1>1. resolveMagnitudes(q, qs, earlier) \in {none, own, ratio, count, past}
    BY DEF resolveMagnitudes
  <1>2. ASSUME NEW p, Sided(p), NEW noun, NEW m \in WithUnit(p.denominator, noun)
        PROVE  makeMagnitudeAccepts(m)
    <2>1. PICK o \in p.denominator : m = IF o.unit = None THEN [o EXCEPT !.unit = noun] ELSE o
      BY <1>2 DEF WithUnit
    <2>2. makeMagnitudeAccepts(o) BY <1>2 DEF Sided
    <2>3. m.provenance = o.provenance BY <2>1
    <2> QED BY <2>2, <2>3 DEF makeMagnitudeAccepts
  <1>3. ratios \subseteq qs BY DEF LeftmostOf
  <1>4. \A p, noun : \A m \in Base(p, noun, "derived") \cup Base(p, noun, "inherited") :
          makeMagnitudeAccepts(m)
    BY DEF Base, Magnitude, makeMagnitudeAccepts, PROVENANCE
  <1> HIDE DEF ratios, counts, nearest
  <1>5. Sided(none) BY DEF Sided
  <1>6. Sided(own) BY <1>2 DEF Sided
  <1>7. Sided(ratio)
    <2>1. ASSUME NEW m \in ratio.numerator PROVE makeMagnitudeAccepts(m)
      <3>1. PICK p \in ratios : m \in p.numerator BY <2>1
      <3> QED BY <1>3, <3>1 DEF Sided
    <2>2. ASSUME NEW m \in ratio.denominator PROVE makeMagnitudeAccepts(m)
      <3>1. PICK p \in ratios : m \in WithUnit(p.denominator, p.noun) BY <2>2
      <3>2. Sided(p) BY <1>3, <3>1
      <3> QED BY <1>2, <3>1, <3>2
    <2> HIDE DEF ratio
    <2> QED BY <2>1, <2>2 DEF Sided
  <1>8. Sided(count) BY <1>4 DEF Sided
  <1>9. Sided(past) BY <1>4 DEF Sided
  <1> HIDE DEF none, own, ratio, count, past
  <1> QED BY <1>1, <1>5, <1>6, <1>7, <1>8, <1>9

LEMMA OnceIs ==
  ASSUME NEW S, NEW s \in Seq(S)
  PROVE  Once(s) = s
BY DEF Once

(* The primary mention of a sentence.                                       *)
LEMMA PrimaryIsQuantity ==
  ASSUME NEW s, IsSentence(s)
  PROVE  /\ IsFiniteSet(pickPrimary(parseQuantities(s.raw)))
         /\ \A q \in pickPrimary(parseQuantities(s.raw)) : IsQuantity(q)
         /\ pickPrimary(parseQuantities(s.raw)) \subseteq parseQuantities(s.raw)
         /\ \A q \in parseQuantities(s.raw) : Sided(q) /\ q.noun \in DOMAIN Stem \cup {None}
  <1> DEFINE raw == s.raw
             kept == claimMatches(raw)
             P == pickPrimary(parseQuantities(raw))
  <1>1. kept \subseteq DOMAIN raw /\ \A i \in kept : Sound(raw[i]) BY DEF claimMatches
  <1>2. raw \in Seq(ToSet(raw)) /\ \A i \in DOMAIN raw : IsMatch(raw[i])
    BY DEF IsSentence, ToSet
  <1>3. P \subseteq parseQuantities(raw) BY DEF pickPrimary
  <1> HIDE DEF kept, P
  <1>4. parseQuantities(raw) = {finalise(raw[i]) : i \in kept} BY DEF parseQuantities, kept
  <1>5. \A q \in P : IsQuantity(q) BY <1>1, <1>2, <1>3, <1>4, FinalisedIsQuantity
  <1>6. IsFiniteSet(kept)
    <2>1. DOMAIN raw = 1..Len(raw) /\ Len(raw) \in Nat BY <1>2
    <2>2. IsFiniteSet(DOMAIN raw) BY <2>1, FS_Interval
    <2> QED BY <1>1, <2>2, FS_Subset
  <1>7. IsFiniteSet(parseQuantities(raw))
    <2> DEFINE f == [i \in kept |-> finalise(raw[i])]
    <2>1. f \in Surjection(kept, parseQuantities(raw)) BY <1>4 DEF Surjection
    <2> QED BY <1>6, <2>1, FS_Surjection
  <1>8. IsFiniteSet(P) BY <1>3, <1>7, FS_Subset
  <1>9. \A q \in parseQuantities(raw) : Sided(q) BY <1>4, FinalisedIsSided
  <1>10. \A q \in parseQuantities(raw) : q.noun \in DOMAIN Stem \cup {None}
    <2>1. \A i \in kept : raw[i].noun \in DOMAIN Stem \cup {None} BY <1>1, <1>2 DEF IsMatch
    <2>2. \A h : finalise(h).noun = h.noun BY DEF finalise
    <2> QED BY <1>4, <2>1, <2>2
  <1> QED BY <1>3, <1>5, <1>8, <1>9, <1>10 DEF P

(* The records of a paragraph ...                                           *)
LEMMA ParagraphIs ==
  ASSUME NEW P, P \in Seq(ToSet(P)), \A s \in ToSet(P) : IsSentence(s)
  PROVE  LET R == ParagraphRecords(P)
         IN  R = [i \in 1..Len(P) |-> R[i]] /\ \A i \in 1..Len(P) : IsCore(R[i])
  <1> DEFINE mention == [i \in DOMAIN P |-> parseQuantities(P[i].raw)]
             Primary(m) == [i \in DOMAIN P |-> pickPrimary(m[i])]
             Records(m, f) ==
               [i \in DOMAIN P |->
                  Parsed(P[i], f[i], {resolveMagnitudes(q, m[i], SubSeq(f, 1, i - 1)) : q \in f[i]})]
             R == Records(mention, Primary(mention))
  <1>1. Len(P) \in Nat /\ DOMAIN P = 1..Len(P) /\ \A i \in 1..Len(P) : IsSentence(P[i])
    BY DEF ToSet
  <1>2. ASSUME NEW f, f = [i \in DOMAIN P |-> f[i]] PROVE Once(f) = f
    <2>1. f \in Seq({f[i] : i \in 1..Len(P)}) BY <1>1, <1>2
    <2> QED BY <2>1, OnceIs
  <1>3. ParagraphRecords(P) = Once(Records(Once(mention), Once(Primary(Once(mention)))))
    BY DEF ParagraphRecords
  <1>4. mention = [i \in DOMAIN P |-> mention[i]] OBVIOUS
  <1>5. \A m : Primary(m) = [i \in DOMAIN P |-> Primary(m)[i]] OBVIOUS
  <1>6. \A m, f : Records(m, f) = [i \in DOMAIN P |-> Records(m, f)[i]] OBVIOUS
  <1>7. ASSUME NEW i \in 1..Len(P) PROVE IsCore(R[i])
    <2> DEFINE primary == pickPrimary(parseQuantities(P[i].raw))
               all == parseQuantities(P[i].raw)
               before == SubSeq(Primary(mention), 1, i - 1)
               sides == {resolveMagnitudes(q, all, before) : q \in primary}
    <2>1. /\ R[i].quantity = primary /\ R[i].caveats = P[i].caveats
          /\ R[i].words = P[i].words /\ R[i].names = P[i].names
          /\ R[i].unit = {q.noun : q \in primary} \ {None}
          /\ R[i].numerator = UNION {m.numerator : m \in sides}
          /\ R[i].denominator = UNION {m.denominator : m \in sides}
      BY <1>1 DEF Parsed
    <2>2. IsFiniteSet(primary) /\ \A q \in primary : IsQuantity(q)
      BY <1>1, PrimaryIsQuantity
    <2>3. /\ P[i].caveats \in Seq(ToSet(P[i].caveats))
          /\ \A c \in ToSet(P[i].caveats) : makeCaveatAccepts(c)
          /\ P[i].words \in Seq(ToSet(P[i].words)) /\ IsFiniteSet(P[i].names)
      BY <1>1 DEF IsSentence
    <2>4. /\ primary \subseteq all
          /\ \A q \in all : Sided(q) /\ q.noun \in DOMAIN Stem \cup {None}
      BY <1>1, PrimaryIsQuantity
    <2> HIDE DEF R, primary, all, before
    <2>5. \A q \in primary : Sided(resolveMagnitudes(q, all, before))
      BY <2>4, ResolvedAreSided
    <2>6. \A m \in sides : Sided(m) BY <2>5
    <2> HIDE DEF sides
    <2>7. \A m \in R[i].numerator \cup R[i].denominator : makeMagnitudeAccepts(m)
      BY <2>1, <2>6 DEF Sided
    <2>8. validateParsedCore(R[i])
      BY <2>1, <2>2, <2>3, <2>7 DEF validateParsedCore, IsQuantity
    <2>9. R[i].unit \subseteq DOMAIN Stem BY <2>1, <2>4
    <2> QED BY <2>1, <2>2, <2>3, <2>8, <2>9 DEF IsCore
  <1> HIDE DEF mention, Primary, Records
  <1>8. Once(mention) = mention BY <1>2, <1>4
  <1>9. Once(Primary(mention)) = Primary(mention) BY <1>2, <1>5
  <1>10. Once(R) = R
    <2>1. R = [i \in DOMAIN P |-> R[i]] BY <1>6
    <2> QED BY <1>2, <2>1
  <1>11. ParagraphRecords(P) = R BY <1>3, <1>8, <1>9, <1>10
  <1>12. R = [i \in 1..Len(P) |-> R[i]] BY <1>1, <1>6
  <1> QED BY <1>7, <1>11, <1>12

(* ... and of a document are parsed cores, whatever it says.                *)
LEMMA RecordsAreCores ==
  ASSUME NEW doc, IsDocument(doc)
  PROVE  \E S : buildSentenceRecords(doc) \in Seq(S) /\ \A r \in S : IsCore(r)
  <1> DEFINE R(p) == ParagraphRecords(doc[p])
             S == UNION {{R(p)[i] : i \in 1..Len(doc[p])} : p \in 1..Len(doc)}
             all == [p \in 1..Len(doc) |-> R(p)]
  <1>1. Len(doc) \in Nat /\ DOMAIN doc = 1..Len(doc) BY DEF IsDocument
  <1>2. ASSUME NEW p \in 1..Len(doc)
        PROVE  R(p) \in Seq(S) /\ \A i \in 1..Len(doc[p]) : IsCore(R(p)[i])
    <2>1. doc[p] \in Seq(ToSet(doc[p])) /\ \A s \in ToSet(doc[p]) : IsSentence(s)
      BY <1>1 DEF IsDocument, ToSet
    <2> DEFINE n == Len(doc[p])
               r == R(p)
    <2>2. r = [i \in 1..n |-> r[i]] /\ \A i \in 1..n : IsCore(r[i])
      BY <2>1, ParagraphIs
    <2>3. n \in Nat BY <2>1
    <2>4. \A i \in 1..n : r[i] \in S OBVIOUS
    <2> HIDE DEF r, n, S
    <2>5. r \in Seq(S) BY <2>2, <2>3, <2>4
    <2> QED BY <2>2, <2>5 DEF r, n
  <1>3. \A r \in S : IsCore(r) BY <1>2
  <1> HIDE DEF R, S
  <1>4. all \in Seq(Seq(S)) BY <1>1, <1>2
  <1>5. buildSentenceRecords(doc) = FlattenSeq(all)
    <2>1. Once(all) = all BY <1>4, OnceIs
    <2> QED BY <1>1, <2>1 DEF buildSentenceRecords, R
  <1>6. buildSentenceRecords(doc) \in Seq(S) BY <1>4, <1>5, FlattenType
  <1> QED BY <1>3, <1>6

(* What the parser numbers: a sequence whose elements carry their place.    *)
IsNumbered(xs) ==
  /\ xs \in Seq(ToSet(xs))
  /\ \A i \in 1..Len(xs) : xs[i].id = i

LEMMA NumberedAre ==
  ASSUME NEW S, NEW records \in Seq(S), \A r \in S : IsCore(r), NEW hop
  PROVE  /\ IsNumbered(Numbered(records, hop))
         /\ \A x \in ToSet(Numbered(records, hop)) : IsCore(x.core) /\ x.core \in S /\ x.hop = hop
         /\ Len(Numbered(records, hop)) = Len(records)
         /\ \A i \in 1..Len(records) : Numbered(records, hop)[i].core = records[i]
  <1> DEFINE T == {[id |-> i, hop |-> hop, core |-> records[i]] : i \in 1..Len(records)}
             f == [i \in 1..Len(records) |-> [id |-> i, hop |-> hop, core |-> records[i]]]
  <1>1. Len(records) \in Nat /\ DOMAIN records = 1..Len(records) OBVIOUS
  <1>2. f \in Seq(T) /\ Len(f) = Len(records) BY <1>1
  <1>3. Numbered(records, hop) = f
    <2>1. Once(f) = f
      <3> HIDE DEF f, T
      <3> QED BY <1>2, OnceIs
    <2> QED BY <1>1, <2>1 DEF Numbered
  <1>4. \A i \in 1..Len(records) : records[i] \in S OBVIOUS
  <1>5. \A i \in 1..Len(records) :
          /\ f[i].id = i /\ IsCore(f[i].core) /\ f[i].core \in S /\ f[i].hop = hop
          /\ f[i].core = records[i]
    BY <1>4
  <1>6. f = [i \in 1..Len(records) |-> f[i]] OBVIOUS
  <1> HIDE DEF f
  <1>7. \A i \in 1..Len(records) : f[i] \in ToSet(f) BY <1>6 DEF ToSet
  <1>8. f \in Seq(ToSet(f)) BY <1>1, <1>6, <1>7
  <1>9. \A x \in ToSet(f) : IsCore(x.core) /\ x.core \in S /\ x.hop = hop
    BY <1>5, <1>6 DEF ToSet
  <1> QED BY <1>2, <1>3, <1>5, <1>8, <1>9 DEF IsNumbered

(* So are those of the claims and the candidates made of a document, which  *)
(* are numbered.                                                            *)
LEMMA MintedAre ==
  ASSUME NEW doc, IsDocument(doc)
  PROVE  /\ IsNumbered(mintClaims(doc)) /\ IsNumbered(mintCandidates(doc, 2))
         /\ \A x \in ToSet(mintClaims(doc)) :
              IsCore(x.core) /\ x.hop = 1 /\ x.core.quantity # {}
         /\ \A x \in ToSet(mintCandidates(doc, 2)) : IsCore(x.core) /\ x.hop = 2
  <1> DEFINE records == buildSentenceRecords(doc)
             some == [i \in DOMAIN records |->
                        IF records[i].quantity = {} THEN <<>> ELSE <<records[i]>>]
  <1>1. PICK S : records \in Seq(S) /\ \A r \in S : IsCore(r) BY RecordsAreCores
  <1>2. mintClaims(doc) = Numbered(FlattenSeq(some), 1) BY DEF mintClaims
  <1>3. mintCandidates(doc, 2) = Numbered(records, 2) BY DEF mintCandidates
  <1> HIDE DEF records
  <1> DEFINE Q == {r \in S : r.quantity # {}}
  <1>4. some \in Seq(Seq(Q))
    <2>1. Len(records) \in Nat /\ DOMAIN records = 1..Len(records) BY <1>1
    <2>2. \A i \in 1..Len(records) : records[i] \in S BY <1>1
    <2>3. \A r \in Q : <<r>> \in Seq(Q) OBVIOUS
    <2>4. <<>> \in Seq(Q) OBVIOUS
    <2>5. \A i \in 1..Len(records) : some[i] \in Seq(Q) BY <2>1, <2>2, <2>3, <2>4
    <2>6. some = [i \in 1..Len(records) |-> some[i]] BY <2>1
    <2> HIDE DEF some
    <2> QED BY <2>1, <2>5, <2>6
  <1> HIDE DEF some
  <1>5. FlattenSeq(some) \in Seq(Q) BY <1>4, FlattenType
  <1>6. \A r \in Q : IsCore(r) /\ r.quantity # {} BY <1>1
  <1> HIDE DEF Q
  <1>7. /\ IsNumbered(mintClaims(doc))
        /\ \A x \in ToSet(mintClaims(doc)) : IsCore(x.core) /\ x.core \in Q /\ x.hop = 1
    BY <1>2, <1>5, <1>6, NumberedAre
  <1>8. /\ IsNumbered(mintCandidates(doc, 2))
        /\ \A x \in ToSet(mintCandidates(doc, 2)) : IsCore(x.core) /\ x.hop = 2
    BY <1>1, <1>3, NumberedAre
  <1> QED BY <1>6, <1>7, <1>8

-----------------------------------------------------------------------------
(* What a comparison that finds no failure says: the deltas it builds are   *)
(* ones the constructor accepts, and none is lost on the way.               *)

HasFail(deltas) == \E i \in 1..Len(deltas) : deltas[i].severity = "fail"

IsDeltas(s) == s \in Seq(ToSet(s)) /\ \A d \in ToSet(s) : makeDeltaAccepts(d)

(* The deltas of a part are among those of the whole.                       *)
LEMMA DeltasOfBoth ==
  ASSUME NEW s, NEW t, IsDeltas(s), IsDeltas(t)
  PROVE  /\ IsDeltas(s \o t)
         /\ HasFail(s) \/ HasFail(t) => HasFail(s \o t)
  <1> DEFINE S == ToSet(s) \cup ToSet(t)
  <1>1. s \in Seq(S) /\ t \in Seq(S) BY SeqOfMore DEF IsDeltas
  <1>0. \A d \in S : makeDeltaAccepts(d) BY DEF IsDeltas
  <1> HIDE DEF S
  <1>2. /\ s \o t \in Seq(S) /\ Len(s \o t) = Len(s) + Len(t)
        /\ Len(s) \in Nat /\ Len(t) \in Nat
    BY <1>1
  <1>3. IsDeltas(s \o t)
    <2> DEFINE u == s \o t
    <2>1. u \in Seq(S) BY <1>2
    <2> HIDE DEF u
    <2>2. /\ u = [i \in 1..Len(u) |-> u[i]] /\ Len(u) \in Nat
          /\ \A i \in 1..Len(u) : u[i] \in ToSet(u)
      BY <2>1 DEF ToSet
    <2>3. u \in Seq(ToSet(u)) BY <2>2
    <2>4. ToSet(u) \subseteq S BY <2>1 DEF ToSet
    <2> QED BY <1>0, <2>3, <2>4 DEF u, IsDeltas
  <1>4. ASSUME NEW i \in 1..Len(s), s[i].severity = "fail" PROVE HasFail(s \o t)
    <2>1. i \in 1..Len(s \o t) /\ (s \o t)[i] = s[i] BY <1>1, <1>2
    <2> QED BY <1>4, <2>1 DEF HasFail
  <1>5. ASSUME NEW i \in 1..Len(t), t[i].severity = "fail" PROVE HasFail(s \o t)
    <2>1. Len(s) + i \in 1..Len(s \o t) /\ (s \o t)[Len(s) + i] = t[i] BY <1>1, <1>2
    <2> QED BY <1>5, <2>1 DEF HasFail
  <1> QED BY <1>3, <1>4, <1>5 DEF HasFail

LEMMA DeltasOfParts ==
  ASSUME NEW S, NEW s \in Seq(Seq(S)), \A d \in S : makeDeltaAccepts(d)
  PROVE  /\ IsDeltas(FlattenSeq(s))
         /\ \A i \in 1..Len(s) : HasFail(s[i]) => HasFail(FlattenSeq(s))
  <1>1. FlattenSeq(s) \in Seq(S) BY FlattenType
  <1>2. IsDeltas(FlattenSeq(s))
    <2> DEFINE u == FlattenSeq(s)
    <2> HIDE DEF u
    <2>1. /\ u = [i \in 1..Len(u) |-> u[i]] /\ Len(u) \in Nat
          /\ \A i \in 1..Len(u) : u[i] \in ToSet(u)
      BY <1>1 DEF ToSet, u
    <2>2. u \in Seq(ToSet(u)) BY <2>1
    <2>3. ToSet(u) \subseteq S BY <1>1 DEF u, ToSet
    <2> QED BY <2>2, <2>3 DEF u, IsDeltas
  <1>3. ASSUME NEW i \in 1..Len(s), NEW k \in 1..Len(s[i]), s[i][k].severity = "fail"
        PROVE  HasFail(FlattenSeq(s))
    <2>1. PICK m \in 1..Len(FlattenSeq(s)) : FlattenSeq(s)[m] = s[i][k] BY FlattenKeeps
    <2> QED BY <1>3, <2>1 DEF HasFail
  <1> QED BY <1>2, <1>3 DEF HasFail

LEMMA DeltaIs ==
  ASSUME NEW class \in DELTA_CLASSES, NEW subtype, NEW severity \in SEVERITIES
  PROVE  /\ IsDeltas(Delta(class, subtype, severity))
         /\ severity = "fail" => HasFail(Delta(class, subtype, severity))
  <1> DEFINE r == [class |-> class, subtype |-> subtype, severity |-> severity]
  <1>1. r.severity = severity /\ Delta(class, subtype, severity) = <<r>> BY DEF Delta
  <1> HIDE DEF r
  <1>2. <<r>> \in Seq(ToSet(<<r>>)) /\ Len(<<r>>) = 1 /\ <<r>>[1] = r
    <2>1. Len(<<r>>) = 1 /\ <<r>>[1] = r /\ 1 \in DOMAIN <<r>> OBVIOUS
    <2>2. r \in ToSet(<<r>>) BY <2>1 DEF ToSet
    <2>3. <<r>> \in Seq(ToSet(<<r>>)) BY <2>2
    <2> QED BY <2>1, <2>3
  <1>3. makeDeltaAccepts(r) BY DEF r, makeDeltaAccepts
  <1>4. ToSet(<<r>>) = {r} BY <1>2 DEF ToSet
  <1> QED BY <1>1, <1>2, <1>3, <1>4 DEF IsDeltas, HasFail

LEMMA NoDelta == IsDeltas(<<>>)
BY DEF IsDeltas, ToSet

(* diffDenominator: a base that is lost or changed fails, unless no rate    *)
(* needs it.                                                                *)
LEMMA BaseKept ==
  ASSUME NEW c, NEW d
  PROVE  /\ IsDeltas(diffDenominator(c, d))
         /\ \/ HasFail(diffDenominator(c, d))
            \/ \A o \in c.denominator :
                 \/ \E b \in d.denominator :
                      SameValue(Unit * o.value, Unit * b.value) /\ unitCompatible(o.unit, b.unit)
                 \/ d.denominator = {} /\ ~\E q \in d.quantity : IsRate(q)
  <1> DEFINE deltas == diffDenominator(c, d)
             lost == c.denominator # {} /\ d.denominator = {}
             rate == \E q \in d.quantity : q.dimension \in {"percent", "ratio"} \/ q.vague
             altered == \E o \in c.denominator, b \in d.denominator :
                          ~SameValue(Unit * o.value, Unit * b.value)
             rebased == \E o \in c.denominator, b \in d.denominator :
                          ~unitCompatible(o.unit, b.unit)
             dropped == Delta("denominator_loss", "dropped_rate_survives", "fail")
             counted == Delta("denominator_loss", "dropped_count_only", "warn")
             other == Delta("denominator_loss", "altered", "fail")
             follows == Delta("value_drift", "consequential_on_denominator", "warn")
             moved == Delta("denominator_loss", "rebased", "fail")
             rest == IF arithmeticallyConsistent(d) THEN follows ELSE <<>>
  <1>1. deltas = IF lost /\ rate THEN dropped ELSE IF lost THEN counted
                 ELSE IF altered THEN other \o rest
                 ELSE IF rebased THEN moved ELSE <<>>
    BY DEF diffDenominator
  <1>2. /\ IsDeltas(dropped) /\ HasFail(dropped) /\ IsDeltas(counted)
        /\ IsDeltas(other) /\ HasFail(other) /\ IsDeltas(rest)
        /\ IsDeltas(moved) /\ HasFail(moved) /\ IsDeltas(<<>>)
    BY DeltaIs, NoDelta DEF DELTA_CLASSES, SEVERITIES
  <1>3. IsDeltas(other \o rest) /\ HasFail(other \o rest)
    <2> HIDE DEF other, rest
    <2> QED BY <1>2, DeltasOfBoth
  <1> HIDE DEF deltas, dropped, counted, other, follows, moved, rest
  <1>4. IsDeltas(deltas)
    <2> HIDE DEF lost, rate, altered, rebased
    <2> QED BY <1>1, <1>2, <1>3
  <1>5. HasFail(deltas) \/ ~(lost /\ rate)
    <2> HIDE DEF lost, rate, altered, rebased
    <2> QED BY <1>1, <1>2
  <1>6. HasFail(deltas) \/ lost \/ (~altered /\ ~rebased)
    <2> HIDE DEF lost, rate, altered, rebased
    <2> QED BY <1>1, <1>2, <1>3
  <1>7. rate <=> \E q \in d.quantity : IsRate(q) BY DEF IsRate
  <1>8. ASSUME ~HasFail(deltas), NEW o \in c.denominator
        PROVE  \/ \E b \in d.denominator :
                    SameValue(Unit * o.value, Unit * b.value) /\ unitCompatible(o.unit, b.unit)
               \/ d.denominator = {} /\ ~\E q \in d.quantity : IsRate(q)
    <2>1. CASE d.denominator = {}
      <3>1. lost BY <2>1
      <3> QED BY <1>5, <1>7, <1>8, <2>1, <3>1
    <2>2. CASE d.denominator # {}
      <3>1. ~altered /\ ~rebased BY <1>6, <1>8, <2>2
      <3>2. PICK b \in d.denominator : TRUE BY <2>2
      <3>3. SameValue(Unit * o.value, Unit * b.value) /\ unitCompatible(o.unit, b.unit) BY <3>1
      <3> QED BY <3>3
    <2> QED BY <2>1, <2>2
  <1> QED BY <1>4, <1>8 DEF deltas

(* diffValue: a value out of the band it had fails, unless it is close.     *)
LEMMA CloseIsNotMaterial ==
  ASSUME NEW a \in Nat, NEW b \in Nat, SameValue(a, b)
  PROVE  ~Material(a, b)
BY DEF SameValue, Material, AbsDiff, Larger

LEMMA QuantityKept ==
  ASSUME NEW o, NEW q, IsQuantity(o), IsQuantity(q)
  PROVE  /\ IsDeltas(DiffQuantities(o, q))
         /\ \/ HasFail(DiffQuantities(o, q))
            \/ o.vague /\ ~q.vague
            \/ bandsOverlap(o.band, q.band)
            \/ ~Material(o.value, q.value)
  <1> DEFINE rounded == Delta("value_drift", "rounding", "note")
             drifted == Delta("value_drift", "material", IF Material(o.value, q.value) THEN "fail" ELSE "warn")
             blurred == Delta("value_drift", "precision_loss", "note")
             out == Delta("value_drift", "material", "fail")
  <1>1. /\ IsDeltas(rounded) /\ IsDeltas(drifted) /\ IsDeltas(blurred) /\ IsDeltas(out)
        /\ HasFail(out) /\ (Material(o.value, q.value) => HasFail(drifted)) /\ IsDeltas(<<>>)
    BY DeltaIs, NoDelta DEF DELTA_CLASSES, SEVERITIES
  <1>2. DiffQuantities(o, q) =
          IF ~o.vague /\ ~q.vague
          THEN IF SameValue(o.value, q.value) THEN <<>>
               ELSE IF bandsOverlap(o.band, q.band) THEN rounded ELSE drifted
          ELSE IF q.vague THEN IF inBand(o.value, q.band) THEN blurred ELSE out
          ELSE <<>>
    BY DEF DiffQuantities
  <1>3. SameValue(o.value, q.value) => ~Material(o.value, q.value)
    BY CloseIsNotMaterial DEF IsQuantity
  <1>4. inBand(o.value, q.band) => bandsOverlap(o.band, q.band)
    BY DEF IsQuantity, makeQuantityAccepts, inBand, bandsOverlap
  <1>5. o.vague \in BOOLEAN /\ q.vague \in BOOLEAN BY DEF IsQuantity
  <1> HIDE DEF rounded, drifted, blurred, out
  <1> QED BY <1>1, <1>2, <1>3, <1>4, <1>5

LEMMA ValueKept ==
  ASSUME NEW c, NEW d, IsCore(c), IsCore(d)
  PROVE  /\ IsDeltas(diffValue(c, d))
         /\ \A o \in c.quantity, q \in d.quantity :
              HasFail(DiffQuantities(o, q)) => HasFail(diffValue(c, d))
  <1> DEFINE V == {DiffQuantities(o, q) : o \in c.quantity, q \in d.quantity}
             S == UNION {ToSet(v) : v \in V}
             list == SetToSeq(V)
  <1>1. IsFiniteSet(V)
    <2> DEFINE f == [p \in c.quantity \X d.quantity |-> DiffQuantities(p[1], p[2])]
    <2>1. IsFiniteSet(c.quantity \X d.quantity) BY FS_Product DEF IsCore
    <2>2. f \in Surjection(c.quantity \X d.quantity, V)
      <3>1. f \in [c.quantity \X d.quantity -> V] OBVIOUS
      <3>2. ASSUME NEW v \in V PROVE \E p \in c.quantity \X d.quantity : f[p] = v
        <4>1. PICK o \in c.quantity, q \in d.quantity : v = DiffQuantities(o, q) OBVIOUS
        <4>2. <<o, q>> \in c.quantity \X d.quantity /\ f[<<o, q>>] = v BY <4>1
        <4> QED BY <4>2
      <3> HIDE DEF f, V
      <3> QED BY <3>1, <3>2 DEF Surjection
    <2> HIDE DEF V, f
    <2> QED BY <2>1, <2>2, FS_Surjection
  <1>2. \A v \in V : IsDeltas(v) BY QuantityKept DEF IsCore
  <1>3. \A o \in c.quantity, q \in d.quantity : DiffQuantities(o, q) \in V OBVIOUS
  <1>4. diffValue(c, d) = FlattenSeq(list) BY DEF diffValue
  <1> HIDE DEF V
  <1>5. list \in Seq(V) /\ \A v \in V : \E k \in 1..Len(list) : list[k] = v BY <1>1, SetListed
  <1>6. V \subseteq Seq(S)
    <2>1. ASSUME NEW v \in V PROVE v \in Seq(S)
      <3>1. v \in Seq(ToSet(v)) /\ ToSet(v) \subseteq S BY <1>2 DEF IsDeltas
      <3> QED BY <3>1, SeqOfMore
    <2> QED BY <2>1
  <1>10. \A x \in S : makeDeltaAccepts(x) BY <1>2 DEF IsDeltas
  <1> HIDE DEF list, S
  <1>7. list \in Seq(Seq(S)) BY <1>5, <1>6, SeqOfMore
  <1>8. /\ IsDeltas(FlattenSeq(list))
        /\ \A i \in 1..Len(list) : HasFail(list[i]) => HasFail(FlattenSeq(list))
    BY <1>7, <1>10, DeltasOfParts
  <1>9. ASSUME NEW o \in c.quantity, NEW q \in d.quantity, HasFail(DiffQuantities(o, q))
        PROVE  HasFail(FlattenSeq(list))
    <2>1. PICK k \in 1..Len(list) : list[k] = DiffQuantities(o, q) BY <1>3, <1>5
    <2> QED BY <1>8, <1>9, <2>1
  <1> QED BY <1>4, <1>8, <1>9

(* diffUnit: a unit that is not alike fails.                                *)
LEMMA UnitKept ==
  ASSUME NEW c, NEW d
  PROVE  /\ IsDeltas(diffUnit(c, d))
         /\ HasFail(diffUnit(c, d)) \/ \A a \in c.unit, b \in d.unit : unitCompatible(a, b)
  <1> DEFINE left == Delta("unit_drift", "unit_dropped", "note")
             other == Delta("unit_drift", "measure_confusion", "fail")
  <1>1. IsDeltas(left) /\ IsDeltas(other) /\ HasFail(other) /\ IsDeltas(<<>>)
    BY DeltaIs, NoDelta DEF DELTA_CLASSES, SEVERITIES
  <1>2. diffUnit(c, d) =
          IF c.unit # {} /\ d.unit = {} THEN left
          ELSE IF \E a \in c.unit, b \in d.unit : ~unitCompatible(a, b) THEN other ELSE <<>>
    BY DEF diffUnit
  <1> HIDE DEF left, other
  <1> QED BY <1>1, <1>2

(* diffCaveats: a serious caveat that is gone fails.                        *)
LEMMA CaveatsKept ==
  ASSUME NEW c, NEW d, IsCore(c), IsCore(d)
  PROVE  /\ IsDeltas(diffCaveats(c, d))
         /\ \/ HasFail(diffCaveats(c, d))
            \/ {f \in Families(c) : LossSeverity(f) = "fail"} \subseteq Families(d)
  <1> DEFINE G == Families(c) \ Families(d)
             A == Families(d) \ Families(c)
             gone == SetToSeq(G)
             added == SetToSeq(A)
             lost(f) == Delta("caveat_loss", f, LossSeverity(f))
             gained(f) == Delta("caveat_loss", "added_" \o f, "note")
             losses == [i \in DOMAIN gone |-> lost(gone[i])]
             gains == [i \in DOMAIN added |-> gained(added[i])]
  <1>1. ASSUME NEW r, IsCore(r) PROVE IsFiniteSet(Families(r))
    <2> DEFINE n == Len(r.caveats)
               f == [i \in 1..n |-> classifyCaveat(r.caveats[i])]
    <2>1. n \in Nat /\ DOMAIN r.caveats = 1..n BY <1>1 DEF IsCore
    <2>2. IsFiniteSet(1..n) BY <2>1, FS_Interval
    <2>3. f \in Surjection(1..n, Families(r))
      <3>1. \A x \in Families(r) : \E i \in 1..n : x = f[i] BY <2>1 DEF Families, ToSet
      <3>2. \A i \in 1..n : f[i] \in Families(r) BY <2>1 DEF Families, ToSet
      <3>3. f = [i \in 1..n |-> f[i]] OBVIOUS
      <3> HIDE DEF f
      <3> QED BY <3>1, <3>2, <3>3 DEF Surjection
    <2> HIDE DEF f, n
    <2> QED BY <2>2, <2>3, FS_Surjection
  <1>2. IsFiniteSet(G) /\ IsFiniteSet(A) BY <1>1, FS_Difference
  <1>3. diffCaveats(c, d) = FlattenSeq(losses) \o FlattenSeq(gains) BY DEF diffCaveats
  <1>4. \A f : IsDeltas(lost(f)) /\ IsDeltas(gained(f))
    BY DeltaIs DEF LossSeverity, DELTA_CLASSES, SEVERITIES
  <1>5. \A f : LossSeverity(f) = "fail" => HasFail(lost(f))
    BY DeltaIs DEF DELTA_CLASSES, SEVERITIES
  <1> HIDE DEF lost, gained, G, A
  <1>6. /\ gone \in Seq(G) /\ \A f \in G : \E k \in 1..Len(gone) : gone[k] = f
        /\ added \in Seq(A)
    BY <1>2, SetListed
  <1> HIDE DEF gone, added
  <1>7. losses \in Seq(Seq(UNION {ToSet(lost(f)) : f \in G}))
        /\ \A x \in UNION {ToSet(lost(f)) : f \in G} : makeDeltaAccepts(x)
    <2> DEFINE S == UNION {ToSet(lost(f)) : f \in G}
    <2>1. \A f \in G : lost(f) \in Seq(ToSet(lost(f))) /\ ToSet(lost(f)) \subseteq S
      BY <1>4 DEF IsDeltas
    <2>5. \A x \in S : makeDeltaAccepts(x) BY <1>4 DEF IsDeltas
    <2> HIDE DEF S
    <2>2. \A f \in G : lost(f) \in Seq(S) BY <2>1, SeqOfMore
    <2>3. Len(gone) \in Nat /\ DOMAIN gone = 1..Len(gone) /\ \A i \in 1..Len(gone) : gone[i] \in G
      BY <1>6
    <2>4. losses \in Seq(Seq(S)) BY <2>2, <2>3
    <2> QED BY <2>4, <2>5 DEF S
  <1>8. gains \in Seq(Seq(UNION {ToSet(gained(f)) : f \in A}))
        /\ \A x \in UNION {ToSet(gained(f)) : f \in A} : makeDeltaAccepts(x)
    <2> DEFINE S == UNION {ToSet(gained(f)) : f \in A}
    <2>1. \A f \in A : gained(f) \in Seq(ToSet(gained(f))) /\ ToSet(gained(f)) \subseteq S
      BY <1>4 DEF IsDeltas
    <2>5. \A x \in S : makeDeltaAccepts(x) BY <1>4 DEF IsDeltas
    <2> HIDE DEF S
    <2>2. \A f \in A : gained(f) \in Seq(S) BY <2>1, SeqOfMore
    <2>3. Len(added) \in Nat /\ DOMAIN added = 1..Len(added) /\ \A i \in 1..Len(added) : added[i] \in A
      BY <1>6
    <2>4. gains \in Seq(Seq(S)) BY <2>2, <2>3
    <2> QED BY <2>4, <2>5 DEF S
  <1>9. DOMAIN losses = 1..Len(gone) /\ Len(losses) = Len(gone)
        /\ \A k \in 1..Len(gone) : losses[k] = lost(gone[k])
    BY <1>6
  <1> HIDE DEF losses, gains
  <1>10. IsDeltas(FlattenSeq(losses)) /\ IsDeltas(FlattenSeq(gains))
    BY <1>7, <1>8, DeltasOfParts
  <1>11. ASSUME NEW f \in G, LossSeverity(f) = "fail" PROVE HasFail(diffCaveats(c, d))
    <2>1. PICK k \in 1..Len(gone) : gone[k] = f BY <1>6
    <2>2. HasFail(losses[k]) BY <1>5, <1>9, <1>11, <2>1
    <2>3. HasFail(FlattenSeq(losses)) BY <1>7, <1>9, <2>2, DeltasOfParts
    <2> QED BY <1>3, <1>10, <2>3, DeltasOfBoth
  <1>12. IsDeltas(diffCaveats(c, d)) BY <1>3, <1>10, DeltasOfBoth
  <1> QED BY <1>11, <1>12 DEF G

(* diffClaim: the deltas of the four parts.                                 *)
LEMMA DeltasOfClaim ==
  ASSUME NEW c, NEW d, IsCore(c), IsCore(d)
  PROVE  /\ IsDeltas(diffClaim(c, d))
         /\ HasFail(diffDenominator(c, d)) => HasFail(diffClaim(c, d))
         /\ HasFail(diffValue(c, d)) => HasFail(diffClaim(c, d))
         /\ HasFail(diffUnit(c, d)) => HasFail(diffClaim(c, d))
         /\ HasFail(diffCaveats(c, d)) => HasFail(diffClaim(c, d))
  <1> DEFINE den == diffDenominator(c, d)
             val == diffValue(c, d)
             uni == diffUnit(c, d)
             cav == diffCaveats(c, d)
  <1>1. IsDeltas(den) /\ IsDeltas(val) /\ IsDeltas(uni) /\ IsDeltas(cav)
    BY BaseKept, ValueKept, UnitKept, CaveatsKept
  <1>2. diffClaim(c, d) = ((den \o val) \o uni) \o cav BY DEF diffClaim
  <1> HIDE DEF den, val, uni, cav
  <1>3. IsDeltas(den \o val) /\ (HasFail(den) \/ HasFail(val) => HasFail(den \o val))
    BY <1>1, DeltasOfBoth
  <1>4. /\ IsDeltas((den \o val) \o uni)
        /\ HasFail(den \o val) \/ HasFail(uni) => HasFail((den \o val) \o uni)
    BY <1>1, <1>3, DeltasOfBoth
  <1>5. /\ IsDeltas(((den \o val) \o uni) \o cav)
        /\ HasFail((den \o val) \o uni) \/ HasFail(cav) => HasFail(((den \o val) \o uni) \o cav)
    BY <1>1, <1>4, DeltasOfBoth
  <1> QED BY <1>2, <1>3, <1>4, <1>5 DEF den, val, uni, cav

(* diff.js as a whole: a comparison of two parsed sentences that finds no   *)
(* failure is one of a claim and a faithful restatement of it.              *)
THEOREM DiffIsFaithful ==
  ASSUME NEW c, NEW d, IsCore(c), IsCore(d), ~HasFail(diffClaim(c, d))
  PROVE  Faithful(c, d)
  <1>1. /\ ~HasFail(diffDenominator(c, d)) /\ ~HasFail(diffValue(c, d))
        /\ ~HasFail(diffUnit(c, d)) /\ ~HasFail(diffCaveats(c, d))
    BY DeltasOfClaim
  <1>2. \A o \in c.denominator :
          \/ \E b \in d.denominator : SameValue(Unit * o.value, Unit * b.value) /\ unitCompatible(o.unit, b.unit)
          \/ d.denominator = {} /\ ~\E q \in d.quantity : IsRate(q)
    BY <1>1, BaseKept
  <1>3. ASSUME NEW o \in c.quantity, NEW q \in d.quantity
        PROVE  \/ o.vague /\ ~q.vague
               \/ bandsOverlap(o.band, q.band)
               \/ ~Material(o.value, q.value)
    <2>1. ~HasFail(DiffQuantities(o, q)) BY <1>1, ValueKept
    <2> QED BY <2>1, QuantityKept DEF IsCore
  <1>4. \A a \in c.unit, b \in d.unit : unitCompatible(a, b) BY <1>1, UnitKept
  <1>5. {f \in Families(c) : LossSeverity(f) = "fail"} \subseteq Families(d) BY <1>1, CaveatsKept
  <1> QED BY <1>2, <1>3, <1>4, <1>5 DEF Faithful

-----------------------------------------------------------------------------
(* The gate.                                                                *)

(* A delta that fails is found, wherever it is.                             *)
LEMMA FailsAreFound ==
  ASSUME NEW deltas, IsDeltas(deltas), FailClass(deltas) = {}
  PROVE  ~HasFail(deltas)
  <1> DEFINE fails == {i \in DOMAIN deltas : deltas[i].severity = "fail"}
  <1>1. SUFFICES ASSUME HasFail(deltas) PROVE FALSE OBVIOUS
  <1>2. Len(deltas) \in Nat /\ DOMAIN deltas = 1..Len(deltas) BY DEF IsDeltas
  <1>3. fails \in SUBSET Nat /\ fails # {} BY <1>1, <1>2 DEF HasFail
  <1>4. FailClass(deltas) = {deltas[i].class : i \in {k \in fails : \A j \in fails : k <= j}}
    BY DEF FailClass
  <1> HIDE DEF fails
  <1>5. PICK k \in fails : \A j \in fails : k <= j BY <1>3, LeastNatural
  <1>6. deltas[k].class \in FailClass(deltas) BY <1>4, <1>5
  <1> QED BY <1>6

LEMMA FoundIsOne ==
  ASSUME NEW xs, NEW id, NEW x \in findById(xs, id)
  PROVE  x \in ToSet(xs) /\ x.id = id
BY DEF findById, ToSet

LEMMA VerdictIs ==
  ASSUME NEW a, NEW deltas, NEW reasons
  PROVE  LET v == VerdictFor(a, deltas, reasons)
         IN  /\ v.claimId = a.claimId /\ v.cid = a.cid
             /\ v.status \in {"ACCEPT", "REJECT"}
             /\ v.status = "ACCEPT" => reasons = {}
BY DEF VerdictFor

(* index.js: what the gate accepts restates a claim faithfully, whatever    *)
(* the alignment reports.                                                   *)
THEOREM GateAcceptsFaithful ==
  ASSUME NEW C, NEW D, NEW hop,
         \A c \in ToSet(C) : IsCore(c.core), \A d \in ToSet(D) : IsCore(d.core)
  PROVE  /\ AcceptedFaithfully(gate(C, D, hop), C, D)
         /\ \A v \in gate(C, D, hop).verdicts : v.status \in {"ACCEPT", "REJECT"}
  <1> DEFINE report == align(C, D)
             verdicts == UNION {VerdictsOn(C, D, a) : a \in report.alignments}
  <1>1. gate(C, D, hop).report = report /\ gate(C, D, hop).verdicts = verdicts BY DEF gate
  <1>2. ASSUME NEW a, NEW v \in VerdictsOn(C, D, a)
        PROVE  /\ v.claimId = a.claimId /\ v.cid = a.cid /\ v.status \in {"ACCEPT", "REJECT"}
               /\ v.status = "ACCEPT" =>
                    /\ a.decision # "ambiguous"
                    /\ \E c \in ToSet(C), d \in ToSet(D) :
                         c.id = v.claimId /\ d.id = v.cid /\ Faithful(c.core, d.core)
    <2>1. CASE a.decision = "ambiguous"
      <3>1. v = VerdictFor(a, <<>>, {"ambiguous_alignment"}) BY <1>2, <2>1 DEF VerdictsOn
      <3> QED BY <3>1, VerdictIs
    <2>2. CASE a.decision # "ambiguous"
      <3>1. PICK c \in findById(C, a.claimId), d \in findById(D, a.cid) :
              v = VerdictFor(a, diffClaim(c.core, d.core), FailClass(diffClaim(c.core, d.core)))
        BY <1>2, <2>2 DEF VerdictsOn
      <3>2. c \in ToSet(C) /\ c.id = a.claimId /\ d \in ToSet(D) /\ d.id = a.cid BY FoundIsOne
      <3>3. /\ v.claimId = a.claimId /\ v.cid = a.cid /\ v.status \in {"ACCEPT", "REJECT"}
            /\ v.status = "ACCEPT" => FailClass(diffClaim(c.core, d.core)) = {}
        BY <3>1, VerdictIs
      <3>4. ASSUME v.status = "ACCEPT" PROVE Faithful(c.core, d.core)
        <4>1. ~HasFail(diffClaim(c.core, d.core))
          BY <3>2, <3>3, <3>4, FailsAreFound, DeltasOfClaim
        <4> QED BY <3>2, <4>1, DiffIsFaithful
      <3> QED BY <2>2, <3>2, <3>3, <3>4
    <2> QED BY <2>1, <2>2
  <1> HIDE DEF report
  <1>3. \A v \in verdicts : \E a \in report.alignments : v \in VerdictsOn(C, D, a) OBVIOUS
  <1> HIDE DEF verdicts
  <1> QED BY <1>1, <1>2, <1>3 DEF AcceptedFaithfully

(* transitions.js: what applyProposal accepts, of claims the parser made.   *)
LEMMA AcceptableIsSound ==
  ASSUME \A c \in ToSet(claims) : IsCore(c.core),
         NEW b \in Bundle, Acceptable(b.proposal)
  PROVE  SoundProposal(ProposalOf[b.proposal])
  <1> DEFINE p == ProposalOf[b.proposal]
  <1>1. IsFiniteSet(p.candidate) /\ \A d \in p.candidate : IsCore(d.core)
    BY ProposalAssumption
  <1>2. PICK v \in applyProposal(p, claims, 2) : v.status \in {"ACCEPT", "CORRECTED"}
    BY DEF Acceptable
  <1> HIDE DEF p
  <1>3. makeProposalAccepts(p) BY <1>2 DEF applyProposal
  <1>4. p.type \in {"PROPOSE_UPDATE", "DERIVE", "CORRECT", "CHALLENGE", "ATTEST"}
    BY <1>3 DEF makeProposalAccepts, TRANSITION_TYPES
  <1>5. ASSUME NEW status, NEW reason, NEW state, NEW id, v \in Verdict(p, id, status, reason, state)
        PROVE  v.status = status
    BY <1>5 DEF Verdict
  <1>6. CASE p.type = "PROPOSE_UPDATE"
    <2> DEFINE D == SetToSeq(p.candidate)
    <2>1. v \in applyProposeUpdate(p, claims, 2) BY <1>2, <1>3, <1>6 DEF applyProposal
    <2>2. PICK w \in gate(claims, D, 2).verdicts :
            v \in Verdict(p, {w.claimId}, w.status, w.reason, w.canonical)
      <3>1. \A g : (IF g.threw THEN {} ELSE g.verdicts) \subseteq g.verdicts OBVIOUS
      <3> QED BY <2>1, <3>1 DEF applyProposeUpdate
    <2>3. ToSet(D) \subseteq p.candidate BY <1>1, SetListed DEF ToSet
    <2>4. AcceptedFaithfully(gate(claims, D, 2), claims, D) /\ w.status \in {"ACCEPT", "REJECT"}
      BY <1>1, <2>3, GateAcceptsFaithful
    <2>5. w.status = "ACCEPT" BY <1>2, <1>5, <2>2, <2>4
    <2>6. \E c \in ToSet(claims), d \in ToSet(D) : Faithful(c.core, d.core)
      BY <2>2, <2>4, <2>5 DEF AcceptedFaithfully
    <2> QED BY <1>6, <2>3, <2>6 DEF SoundProposal, p
  <1>7. CASE p.type = "DERIVE"
    <2>1. v \in applyDerive(p, claims) BY <1>2, <1>3, <1>7 DEF applyProposal
    <2>2. verifyDerivation(p, claims) = None BY <1>2, <1>5, <2>1 DEF applyDerive
    <2>3. \A k \in DOMAIN p.parents : ClaimsNamed(claims, {p.parents[k]}) # {}
      BY <2>2 DEF verifyDerivation, None
    <2>4. \A d \in p.candidate : d.core.quantity # {}
      <3>1. ASSUME NEW d \in p.candidate, d.core.quantity = {} PROVE FALSE
        <4>1. verifyDerivation(p, claims) \in
                {"missing_parent", "parent_missing_quantity", "derived_missing_quantity"}
          BY <3>1 DEF verifyDerivation
        <4> QED BY <2>2, <4>1 DEF None
      <3> QED BY <3>1
    <2>5. ToSet(p.parents) \subseteq {c.id : c \in ToSet(claims)}
      BY <2>3 DEF ClaimsNamed, ToSet
    <2> QED BY <1>7, <2>4, <2>5 DEF SoundProposal, p
  <1>8. CASE p.type = "CORRECT"
    <2>1. v \in applyCorrect(p, claims) BY <1>2, <1>3, <1>8 DEF applyProposal
    <2>2. ClaimsNamed(claims, p.target) # {} BY <1>2, <1>5, <2>1 DEF applyCorrect, NotFound
    <2>3. p.reason # None BY <1>3, <1>8 DEF makeProposalAccepts
    <2> QED BY <1>8, <2>2, <2>3 DEF SoundProposal, p
  <1>9. p.type # "CHALLENGE"
    <2>1. SUFFICES ASSUME p.type = "CHALLENGE" PROVE FALSE OBVIOUS
    <2>2. v \in applyChallenge(p, claims) BY <1>2, <1>3, <2>1 DEF applyProposal
    <2>3. v.status \in {"INVALID", "CHALLENGED"} BY <1>5, <2>2 DEF applyChallenge, NotFound
    <2> QED BY <1>2, <2>3
  <1>10. p.type # "ATTEST"
    <2>1. SUFFICES ASSUME p.type = "ATTEST" PROVE FALSE OBVIOUS
    <2>2. v \in applyAttest(p, claims) BY <1>2, <1>3, <2>1 DEF applyProposal
    <2>3. v.status \in {"INVALID", "ATTESTED"} BY <1>5, <2>2 DEF applyAttest, NotFound
    <2> QED BY <1>2, <2>3
  <1> QED BY <1>4, <1>6, <1>7, <1>8, <1>9, <1>10

-----------------------------------------------------------------------------
(* The order of the arguments.                                              *)

LEMMA ReverseIs ==
  ASSUME NEW xs, IsNumbered(xs)
  PROVE  LET n == Len(xs)
             rs == Reverse(xs)
         IN  /\ n \in Nat /\ DOMAIN xs = 1..n /\ DOMAIN rs = 1..n /\ Len(rs) = n
             /\ \A i \in 1..n : n - i + 1 \in 1..n /\ rs[i] = xs[n - i + 1]
             /\ ToSet(rs) = ToSet(xs)
  <1> DEFINE n == Len(xs)
             rs == Reverse(xs)
  <1>1. n \in Nat /\ DOMAIN xs = 1..n BY DEF IsNumbered
  <1>2. rs = [i \in 1..n |-> xs[(n - i) + 1]] BY DEF Reverse
  <1> HIDE DEF n, rs
  <1>3. DOMAIN rs = 1..n /\ Len(rs) = n BY <1>1, <1>2
  <1>4. \A i \in 1..n : (n - i) + 1 \in 1..n /\ n - ((n - i) + 1) + 1 = i BY <1>1
  <1>5. \A i \in 1..n : rs[i] = xs[(n - i) + 1] BY <1>2
  <1>6. ASSUME NEW i \in 1..n PROVE rs[i] \in ToSet(xs) /\ xs[i] \in ToSet(rs)
    <2>1. PICK j \in 1..n : j = (n - i) + 1 /\ (n - j) + 1 = i BY <1>1
    <2>2. rs[i] = xs[j] /\ rs[j] = xs[i] BY <1>5, <2>1
    <2> QED BY <1>1, <1>3, <2>2 DEF ToSet
  <1>7. ToSet(rs) = ToSet(xs) BY <1>1, <1>3, <1>6 DEF ToSet
  <1> QED BY <1>1, <1>3, <1>4, <1>5, <1>7 DEF n, rs

(* canonical finds the order of the ids, from either end.                   *)
Shuffles(ys, xs) ==
  /\ DOMAIN ys = 1..Len(xs)
  /\ \A i \in 1..Len(xs) : \E k \in 1..Len(xs) : ys[i] = xs[k]
  /\ \A k \in 1..Len(xs) : \E i \in 1..Len(xs) : ys[i] = xs[k]
  /\ \A i \in 1..Len(xs) : Cardinality({j \in 1..Len(xs) : ys[j].id <= ys[i].id}) = ys[i].id

LEMMA PlacedByIds ==
  ASSUME NEW xs, IsNumbered(xs), NEW ys, Shuffles(ys, xs)
  PROVE  canonical(ys) = xs
  <1> DEFINE n == Len(xs)
             place(i) == Cardinality({j \in DOMAIN ys : ys[j].id <= ys[i].id})
             pick(k) == CHOOSE i \in DOMAIN ys : place(i) = k
             f == [k \in DOMAIN ys |-> ys[pick(k)]]
  <1>1. n \in Nat /\ DOMAIN xs = 1..n /\ xs \in Seq(ToSet(xs)) /\ \A k \in 1..n : xs[k].id = k
    BY DEF IsNumbered
  <1>2. DOMAIN ys = 1..n /\ \A i \in 1..n : place(i) = ys[i].id BY DEF Shuffles
  <1> HIDE DEF place
  <1>3. ASSUME NEW k \in 1..n PROVE ys[pick(k)] = xs[k]
    <2>1. PICK i \in 1..n : ys[i] = xs[k] BY DEF Shuffles
    <2>2. i \in DOMAIN ys /\ place(i) = k BY <1>1, <1>2, <2>1
    <2>3. pick(k) \in DOMAIN ys /\ place(pick(k)) = k BY <2>2
    <2> HIDE DEF pick
    <2>4. pick(k) \in 1..n /\ ys[pick(k)].id = k BY <1>2, <2>3
    <2>5. PICK m \in 1..n : ys[pick(k)] = xs[m] BY <2>4 DEF Shuffles
    <2> QED BY <1>1, <2>4, <2>5
  <1> HIDE DEF pick
  <1>4. f = xs
    <2>1. f = [k \in 1..n |-> f[k]] BY <1>2
    <2>2. \A k \in 1..n : f[k] = xs[k] BY <1>2, <1>3
    <2>3. xs = [k \in 1..n |-> xs[k]] BY <1>1
    <2> HIDE DEF f
    <2> QED BY <2>1, <2>2, <2>3
  <1>5. canonical(ys) = Once(f) BY DEF canonical, place, pick
  <1> HIDE DEF f
  <1> QED BY <1>1, <1>4, <1>5, OnceIs

LEMMA CanonicalIs ==
  ASSUME NEW xs, IsNumbered(xs)
  PROVE  canonical(xs) = xs /\ canonical(Reverse(xs)) = xs
  <1> DEFINE n == Len(xs)
             rs == Reverse(xs)
  <1>1. n \in Nat /\ DOMAIN xs = 1..n /\ \A k \in 1..n : xs[k].id = k BY DEF IsNumbered
  <1>2. /\ DOMAIN rs = 1..n /\ ToSet(rs) = ToSet(xs)
        /\ \A i \in 1..n : n - i + 1 \in 1..n /\ rs[i] = xs[n - i + 1]
    BY ReverseIs
  <1> HIDE DEF n, rs
  <1>3. canonical(xs) = xs
    <2>1. ASSUME NEW i \in 1..n
          PROVE  Cardinality({j \in 1..n : xs[j].id <= xs[i].id}) = xs[i].id
      <3>1. {j \in 1..n : xs[j].id <= xs[i].id} = 1..i BY <1>1
      <3>2. Cardinality(1..i) = i BY FS_Interval
      <3> QED BY <1>1, <3>1, <3>2
    <2>2. Shuffles(xs, xs) BY <1>1, <2>1 DEF Shuffles, n
    <2> QED BY <2>2, PlacedByIds
  <1>4. canonical(rs) = xs
    <2>1. \A i \in 1..n : rs[i].id = n - i + 1 BY <1>1, <1>2
    <2>2. ASSUME NEW i \in 1..n
          PROVE  Cardinality({j \in 1..n : rs[j].id <= rs[i].id}) = rs[i].id
      <3>1. {j \in 1..n : rs[j].id <= rs[i].id} = i..n BY <1>1, <2>1
      <3>2. Cardinality(i..n) = n - i + 1 BY <1>1, FS_Interval
      <3> QED BY <2>1, <3>1, <3>2
    <2>3. ASSUME NEW k \in 1..n PROVE \E i \in 1..n : rs[i] = xs[k]
      <3>1. PICK i \in 1..n : n - i + 1 = k BY <1>1
      <3> QED BY <1>2, <3>1
    <2>4. Shuffles(rs, xs) BY <1>2, <2>2, <2>3 DEF Shuffles, n
    <2> QED BY <2>4, PlacedByIds
  <1> QED BY <1>3, <1>4 DEF rs

(* Who is found does not depend on the order either.                        *)
LEMMA FoundIs ==
  ASSUME NEW xs, IsNumbered(xs), NEW id
  PROVE  /\ findById(xs, id) = {x \in ToSet(xs) : x.id = id}
         /\ findById(Reverse(xs), id) = {x \in ToSet(xs) : x.id = id}
  <1> DEFINE n == Len(xs)
             rs == Reverse(xs)
  <1>1. n \in Nat /\ DOMAIN xs = 1..n /\ \A k \in 1..n : xs[k].id = k BY DEF IsNumbered
  <1>2. /\ DOMAIN rs = 1..n /\ ToSet(rs) = ToSet(xs)
        /\ \A i \in 1..n : n - i + 1 \in 1..n /\ rs[i] = xs[n - i + 1]
    BY ReverseIs
  <1> HIDE DEF n, rs
  <1>3. findById(xs, id) = {x \in ToSet(xs) : x.id = id}
    <2>1. ASSUME NEW k \in 1..n, NEW j \in 1..(k - 1) PROVE xs[j].id # xs[k].id
      BY <1>1
    <2> QED BY <1>1, <2>1 DEF findById, ToSet
  <1>4. findById(rs, id) = {x \in ToSet(rs) : x.id = id}
    <2>1. ASSUME NEW k \in 1..n, NEW j \in 1..(k - 1) PROVE rs[j].id # rs[k].id
      <3>1. j \in 1..n /\ j # k BY <1>1
      <3>2. rs[j].id = n - j + 1 /\ rs[k].id = n - k + 1 BY <1>1, <1>2, <3>1
      <3> QED BY <1>1, <3>1, <3>2
    <2>2. PICK found : found = {l \in 1..n : rs[l].id = id} OBVIOUS
    <2>3. {k \in DOMAIN rs : rs[k].id = id /\ \A j \in 1..(k - 1) : rs[j].id # id} = found
      BY <1>2, <2>1, <2>2
    <2>4. findById(rs, id) = {rs[k] : k \in found} BY <2>3, Zenon DEF findById
    <2> QED BY <1>2, <2>2, <2>4 DEF ToSet
  <1> QED BY <1>2, <1>3, <1>4 DEF rs

(* index.js and align.js: gate() does not depend on the order in which the  *)
(* caller lists claims and candidates.                                      *)
THEOREM GateIgnoresOrder ==
  ASSUME NEW C, NEW D, NEW hop, IsNumbered(C), IsNumbered(D)
  PROVE  gate(Reverse(C), Reverse(D), hop) = gate(C, D, hop)
  <1> DEFINE RC == Reverse(C)
             RD == Reverse(D)
             report == align(C, D)
             verdicts(X, Y) == UNION {VerdictsOn(X, Y, a) : a \in report.alignments}
  <1>1. align(RC, RD) = report BY CanonicalIs DEF align
  <1>2. \A id : findById(RC, id) = findById(C, id) /\ findById(RD, id) = findById(D, id)
    BY FoundIs
  <1>3. ToSet(RD) = ToSet(D) BY ReverseIs
  <1> HIDE DEF RC, RD, report
  <1>4. ASSUME NEW a PROVE VerdictsOn(RC, RD, a) = VerdictsOn(C, D, a)
    <2> DEFINE compared(deltas) == VerdictFor(a, deltas, FailClass(deltas))
               On(X, Y) == IF a.decision = "ambiguous"
                           THEN {VerdictFor(a, <<>>, {"ambiguous_alignment"})}
                           ELSE {compared(diffClaim(c.core, d.core)) : c \in X, d \in Y}
    <2>1. \A X, Y : VerdictsOn(X, Y, a) = On(findById(X, a.claimId), findById(Y, a.cid))
      BY DEF VerdictsOn
    <2> HIDE DEF On
    <2> QED BY <1>2, <2>1
  <1>5. verdicts(RC, RD) = verdicts(C, D) BY <1>4
  <1> HIDE DEF verdicts
  <1>6. \A vs : Throws(RC, RD, hop, report, vs) = Throws(C, D, hop, report, vs)
    BY <1>2, <1>3 DEF Throws
  <1>7. gate(C, D, hop) = [threw |-> Throws(C, D, hop, report, verdicts(C, D)),
                           report |-> report, verdicts |-> verdicts(C, D)]
    BY DEF gate, report, verdicts
  <1>8. gate(RC, RD, hop) = [threw |-> Throws(RC, RD, hop, report, verdicts(RC, RD)),
                             report |-> report, verdicts |-> verdicts(RC, RD)]
    BY <1>1 DEF gate, verdicts
  <1> QED BY <1>5, <1>6, <1>7, <1>8 DEF RC, RD

-----------------------------------------------------------------------------
(* The claims are those of the origin document, the result is what the gate *)
(* said of the downstream document, and what was accepted was acceptable.   *)
RegistryInv ==
  /\ source \in Sources \cup {BundleSource}
  /\ claims = mintClaims(source)
  /\ result # {} =>
       \E doc \in Downstreams \cup {source} :
         hopDoc = {doc} /\ result = {gate(claims, CandidatesOf(doc), 2)}
  /\ AcceptedProposalsAreSound

LEMMA SourceIsDocument ==
  RegistryInv => IsDocument(source) /\ \A c \in ToSet(claims) : IsCore(c.core)
  <1> SUFFICES ASSUME RegistryInv PROVE IsDocument(source) /\ \A c \in ToSet(claims) : IsCore(c.core)
    OBVIOUS
  <1>1. IsDocument(source) BY DocumentAssumption DEF RegistryInv
  <1> QED BY <1>1, MintedAre DEF RegistryInv

LEMMA RegistryInvInit == Init => RegistryInv
BY DEF Init, GuardInit, RegistryInv, AcceptedProposalsAreSound

(* A decision: what is accepted now joins what was accepted before.         *)
LEMMA AcceptKeepsSound ==
  ASSUME RegistryInv, GuardTypeOK, NEW b \in pending, Acceptable(b.proposal), Accept(b),
         UNCHANGED claims
  PROVE  AcceptedProposalsAreSound'
  <1>1. b \in Bundle BY DEF GuardTypeOK
  <1>2. SoundProposal(ProposalOf[b.proposal]) BY <1>1, SourceIsDocument, AcceptableIsSound
  <1> DEFINE e == [b |-> b, boot |-> boot]
  <1>3. acceptLog' = Append(acceptLog, e) /\ e.b = b BY DEF Accept
  <1>4. acceptLog \in Seq([b: sent, boot: 0..boot]) BY DEF GuardTypeOK
  <1> HIDE DEF e
  <1>5. \A i \in DOMAIN acceptLog' :
          acceptLog'[i] = e \/ (i \in DOMAIN acceptLog /\ acceptLog'[i] = acceptLog[i])
    BY <1>3, <1>4
  <1>6. \A p : SoundProposal(p) => SoundProposal(p)' BY DEF SoundProposal
  <1>7. ASSUME NEW i \in DOMAIN acceptLog' PROVE SoundProposal(ProposalOf[acceptLog'[i].b.proposal])
    BY <1>2, <1>3, <1>5 DEF RegistryInv, AcceptedProposalsAreSound
  <1> QED BY <1>7 DEF AcceptedProposalsAreSound, SoundProposal

LEMMA RegistryInvStep == GuardTypeOK /\ RegistryInv /\ [Next]_vars => RegistryInv'
<1> SUFFICES ASSUME GuardTypeOK, RegistryInv, [Next]_vars
             PROVE  RegistryInv'
  OBVIOUS
<1>1. ASSUME UNCHANGED <<source, claims, hopDoc, result>>, AcceptedProposalsAreSound'
      PROVE  RegistryInv'
  BY <1>1 DEF RegistryInv, CandidatesOf
<1>2. ASSUME UNCHANGED <<claims, acceptLog>>
      PROVE  AcceptedProposalsAreSound'
  BY <1>2 DEF RegistryInv, AcceptedProposalsAreSound, SoundProposal
<1>3. CASE DocumentStep
  <2>1. PICK doc \in Downstreams \cup {source} : CheckHop(doc) BY <1>3 DEF DocumentStep
  <2>2. /\ hopDoc' = {doc} /\ result' = {gate(claims, CandidatesOf(doc), 2)}
        /\ source' = source /\ claims' = claims /\ acceptLog' = acceptLog
    BY <2>1 DEF CheckHop, guardVars, CandidatesOf
  <2>3. AcceptedProposalsAreSound' BY <1>2, <2>2
  <2>4. \E d \in Downstreams \cup {source'} :
          hopDoc' = {d} /\ result' = {gate(claims', CandidatesOf(d), 2)}
    BY <2>2
  <2> QED BY <2>2, <2>3, <2>4 DEF RegistryInv, CandidatesOf
<1>4. CASE BundleStep
  <2>1. source' = source /\ claims' = claims /\ hopDoc' = hopDoc /\ result' = result
    BY <1>4 DEF BundleStep
  <2>2. ASSUME NEW b \in sent, Receive(b) PROVE AcceptedProposalsAreSound'
    BY <1>2, <2>1, <2>2 DEF Receive
  <2>3. ASSUME NEW b \in pending, Decide(b) PROVE AcceptedProposalsAreSound'
    <3>1. CASE Acceptable(b.proposal)
      <4>1. Accept(b) BY <2>3, <3>1 DEF Decide
      <4> QED BY <2>1, <3>1, <4>1, AcceptKeepsSound
    <3>2. CASE ~Acceptable(b.proposal)
      <4>1. Refuse(b) BY <2>3, <3>2 DEF Decide
      <4> QED BY <1>2, <2>1, <4>1 DEF Refuse
    <3> QED BY <3>1, <3>2
  <2>4. Restart => AcceptedProposalsAreSound' BY <1>2, <2>1 DEF Restart
  <2>5. Tick => AcceptedProposalsAreSound' BY <1>2, <2>1 DEF Tick
  <2>6. AcceptedProposalsAreSound' BY <1>4, <2>2, <2>3, <2>4, <2>5 DEF BundleStep
  <2> QED BY <1>1, <2>1, <2>6
<1>5. CASE UNCHANGED vars
  <2>1. UNCHANGED <<source, claims, hopDoc, result>> /\ UNCHANGED <<claims, acceptLog>>
    BY <1>5 DEF vars, guardVars
  <2> QED BY <1>1, <1>2, <2>1
<1> QED
  BY <1>3, <1>4, <1>5 DEF Next

LEMMA AlwaysRegistry == Spec => []RegistryInv
<1>1. GuardInv => GuardTypeOK
  BY DEF GuardInv
<1> QED
  BY <1>1, RegistryInvInit, RegistryInvStep, RegistryObeysGuard, GuardInvariant, PTL DEF Spec

(* index.js:13-19: for any documents, whatever the gate accepts keeps the   *)
(* base, the value, the unit and the serious caveats of the claim.          *)
THEOREM AcceptedAreFaithful == Spec => []AcceptedIsFaithful
<1>1. RegistryInv => AcceptedIsFaithful
  <2> SUFFICES ASSUME RegistryInv, NEW g \in result, NEW doc \in hopDoc
               PROVE  AcceptedFaithfully(g, claims, CandidatesOf(doc))
    BY DEF AcceptedIsFaithful
  <2>1. PICK d \in Downstreams \cup {source} :
          hopDoc = {d} /\ result = {gate(claims, CandidatesOf(d), 2)}
    BY DEF RegistryInv
  <2>2. doc = d /\ g = gate(claims, CandidatesOf(doc), 2) BY <2>1
  <2>3. IsDocument(doc) BY <2>1, <2>2, SourceIsDocument, DocumentAssumption
  <2>4. \A x \in ToSet(CandidatesOf(doc)) : IsCore(x.core)
    BY <2>3, MintedAre DEF CandidatesOf
  <2> QED BY <2>2, <2>4, SourceIsDocument, GateAcceptsFaithful
<1> QED
  BY <1>1, AlwaysRegistry, PTL

(* align.js:22-27: for any documents, the report does not depend on the     *)
(* order the caller iterated in.                                            *)
THEOREM OrderIsIgnored == Spec => []OrderIndependent
<1>1. RegistryInv => OrderIndependent
  <2> SUFFICES ASSUME RegistryInv, NEW g \in result, NEW doc \in hopDoc
               PROVE  g = gate(Reverse(claims), Reverse(CandidatesOf(doc)), 2)
    BY DEF OrderIndependent
  <2>1. PICK d \in Downstreams \cup {source} :
          hopDoc = {d} /\ result = {gate(claims, CandidatesOf(d), 2)}
    BY DEF RegistryInv
  <2>2. doc = d /\ g = gate(claims, CandidatesOf(doc), 2) BY <2>1
  <2>3. IsDocument(source) /\ IsDocument(doc)
    BY <2>1, <2>2, SourceIsDocument, DocumentAssumption
  <2>4. IsNumbered(claims) /\ IsNumbered(CandidatesOf(doc))
    BY <2>3, MintedAre DEF CandidatesOf, RegistryInv
  <2> QED BY <2>2, <2>4, GateIgnoresOrder
<1> QED
  BY <1>1, AlwaysRegistry, PTL

(* transitions.js:10-24: for any proposals and any order of their delivery, *)
(* what the registry accepted is a faithful restatement, a derivation from  *)
(* claims it holds, or a correction that says why.                          *)
THEOREM AcceptedAreSound == Spec => []AcceptedProposalsAreSound
<1>1. RegistryInv => AcceptedProposalsAreSound
  BY DEF RegistryInv
<1> QED
  BY <1>1, AlwaysRegistry, PTL

-----------------------------------------------------------------------------
(* The walk: the pairs from the best score down, each decided after those    *)
(* before it.                                                               *)

(* The best score there is.                                                 *)
Full == 10000

(* A matrix of the scores of n claims and m candidates.                     *)
IsMatrix(M, n, m) ==
  /\ n \in Nat /\ m \in Nat /\ DOMAIN M = 1..n /\ \A i \in 1..n : DOMAIN M[i] = 1..m
  /\ \A i \in 1..n, j \in 1..m : M[i][j] \in Nat /\ M[i][j] <= Full

(* The pairs of a matrix.                                                   *)
LEMMA PairsAre ==
  ASSUME NEW M, NEW n, NEW m, IsMatrix(M, n, m)
  PROVE  /\ IsFiniteSet(Pairs(M))
         /\ \A p \in Pairs(M) : /\ p[1] \in 1..n /\ p[2] \in 1..m /\ p = <<p[1], p[2]>>
                                /\ M[p[1]][p[2]] \in Nat /\ M[p[1]][p[2]] >= ACCEPT
         /\ \A i \in 1..n, j \in 1..m : M[i][j] >= ACCEPT => <<i, j>> \in Pairs(M)
         /\ \A i \in 1..n, j \in 1..m : M[i][j] \in Nat /\ M[i][j] <= Full
  <1>1. n \in Nat /\ m \in Nat /\ DOMAIN M = 1..n /\ \A i \in 1..n : DOMAIN M[i] = 1..m
    BY DEF IsMatrix
  <1>2. \A i \in 1..n, j \in 1..m : M[i][j] \in Nat /\ M[i][j] <= Full BY DEF IsMatrix
  <1>3. Pairs(M) \subseteq (1..n) \X (1..m) BY <1>1 DEF Pairs
  <1>4. IsFiniteSet((1..n) \X (1..m))
    <2>1. 1 \in Int /\ n \in Int /\ m \in Int BY <1>1
    <2>2. IsFiniteSet(1..n) /\ IsFiniteSet(1..m) BY <2>1, FS_Interval
    <2> QED BY <2>2, FS_Product
  <1>5. IsFiniteSet(Pairs(M)) BY <1>3, <1>4, FS_Subset
  <1>6. \A i \in 1..n, j \in 1..m : M[i][j] >= ACCEPT => <<i, j>> \in Pairs(M)
    BY <1>1 DEF Pairs
  <1>7. \A p \in Pairs(M) : p[1] \in 1..n /\ p[2] \in 1..m /\ p = <<p[1], p[2]>> BY <1>3
  <1>8. \A p \in Pairs(M) : M[p[1]][p[2]] >= ACCEPT BY DEF Pairs
  <1>9. \A p \in Pairs(M) : M[p[1]][p[2]] \in Nat BY <1>2, <1>7
  <1> QED BY <1>5, <1>6, <1>7, <1>8, <1>9, <1>2

(* The order of the walk is strict and total, and it goes down.             *)
LEMMA WalkOrder ==
  ASSUME NEW M, NEW n, NEW m, IsMatrix(M, n, m)
  PROVE  \A p, q \in Pairs(M) :
           /\ ~(Precedes(M, p, q) /\ Precedes(M, q, p))
           /\ p = q \/ Precedes(M, p, q) \/ Precedes(M, q, p)
           /\ Precedes(M, p, q) => M[p[1]][p[2]] >= M[q[1]][q[2]]
           /\ M[p[1]][p[2]] > M[q[1]][q[2]] => Precedes(M, p, q)
           /\ \A r \in Pairs(M) : Precedes(M, p, q) /\ Precedes(M, q, r) => Precedes(M, p, r)
  <1>0. \A p \in Pairs(M) :
          p[1] \in Nat /\ p[2] \in Nat /\ p = <<p[1], p[2]>> /\ M[p[1]][p[2]] \in Nat
    <2>1. \A p \in Pairs(M) :
            p[1] \in 1..n /\ p[2] \in 1..m /\ p = <<p[1], p[2]>> /\ M[p[1]][p[2]] \in Nat
      BY PairsAre
    <2>2. \A i : (i \in 1..n => i \in Nat) /\ (i \in 1..m => i \in Nat)
      BY DEF IsMatrix
    <2> QED BY <2>1, <2>2
  <1>1. ASSUME NEW p \in Pairs(M), NEW q \in Pairs(M)
        PROVE  /\ ~(Precedes(M, p, q) /\ Precedes(M, q, p))
               /\ p = q \/ Precedes(M, p, q) \/ Precedes(M, q, p)
               /\ Precedes(M, p, q) => M[p[1]][p[2]] >= M[q[1]][q[2]]
               /\ M[p[1]][p[2]] > M[q[1]][q[2]] => Precedes(M, p, q)
    <2>1. /\ p[1] \in Nat /\ p[2] \in Nat /\ p = <<p[1], p[2]>> /\ M[p[1]][p[2]] \in Nat
          /\ q[1] \in Nat /\ q[2] \in Nat /\ q = <<q[1], q[2]>> /\ M[q[1]][q[2]] \in Nat
      BY <1>0
    <2> QED BY <2>1 DEF Precedes
  <1>2. ASSUME NEW p \in Pairs(M), NEW q \in Pairs(M), NEW r \in Pairs(M),
               Precedes(M, p, q), Precedes(M, q, r)
        PROVE  Precedes(M, p, r)
    <2>1. /\ p[1] \in Nat /\ p[2] \in Nat /\ M[p[1]][p[2]] \in Nat
          /\ q[1] \in Nat /\ q[2] \in Nat /\ M[q[1]][q[2]] \in Nat
          /\ r[1] \in Nat /\ r[2] \in Nat /\ M[r[1]][r[2]] \in Nat
      BY <1>0
    <2> QED BY <2>1, <1>2 DEF Precedes
  <1> QED BY <1>1, <1>2

(* What a walk over W decides last.                                         *)
IsLast(M, W, p) == p \in W /\ \A q \in W : q = p \/ Precedes(M, q, p)

LEMMA LastExists ==
  ASSUME NEW M, NEW n, NEW m, IsMatrix(M, n, m), NEW W \in SUBSET Pairs(M), W # {}
  PROVE  IsLast(M, W, LastOf(M, W))
  <1> DEFINE P == Pairs(M)
             Bad == {c \in Nat : \E V \in SUBSET P : /\ V # {} /\ Cardinality(V) = c
                                                     /\ ~\E p \in V : IsLast(M, V, p)}
  <1>0. IsFiniteSet(P) BY PairsAre
  <1> HIDE DEF P
  <1>1. \A V \in SUBSET P : IsFiniteSet(V) /\ Cardinality(V) \in Nat
    BY <1>0, FS_Subset, FS_CardinalityType
  <1> USE DEF P
  <1>2. SUFFICES Bad = {}
    <2>1. \E p \in W : IsLast(M, W, p)
      <3>1. Cardinality(W) \in Nat /\ Cardinality(W) \notin Bad BY <1>1, <1>2
      <3> QED BY <3>1
    <2>2. \E p \in W : \A q \in W : q = p \/ Precedes(M, q, p) BY <2>1 DEF IsLast
    <2> QED BY <2>2 DEF LastOf, IsLast
  <1>3. SUFFICES ASSUME Bad # {} PROVE FALSE OBVIOUS
  <1>4. Bad \in SUBSET Nat OBVIOUS
  <1> HIDE DEF Bad
  <1>5. PICK c \in Bad : \A d \in Bad : c <= d BY <1>3, <1>4, LeastNatural
  <1>6. PICK V \in SUBSET P : V # {} /\ Cardinality(V) = c /\ ~\E p \in V : IsLast(M, V, p)
    BY <1>5 DEF Bad
  <1>7. PICK x : x \in V BY <1>6
  <1> DEFINE U == V \ {x}
  <1>8. c \in Nat /\ U \in SUBSET P /\ Cardinality(U) = c - 1 /\ Cardinality(U) \in Nat
    BY <1>1, <1>6, <1>7, FS_RemoveElement
  <1>9. U # {}
    <2>1. U = {} => IsLast(M, V, x) BY <1>7 DEF IsLast
    <2> QED BY <1>6, <1>7, <2>1
  <1>10. \E p \in U : IsLast(M, U, p)
    <2> HIDE DEF U
    <2>1. Cardinality(U) \notin Bad BY <1>5, <1>8
    <2> QED BY <1>8, <1>9, <2>1 DEF Bad
  <1>11. PICK y \in U : IsLast(M, U, y) BY <1>10
  <1>12. x \in P /\ y \in P /\ y \in V BY <1>7, <1>11
  <1>13. CASE Precedes(M, x, y)
    <2>1. IsLast(M, V, y) BY <1>11, <1>12, <1>13 DEF IsLast
    <2> QED BY <1>6, <1>12, <2>1
  <1>14. CASE Precedes(M, y, x)
    <2>1. ASSUME NEW q \in V, q # x PROVE Precedes(M, q, x)
      <3>1. q = y \/ Precedes(M, q, y) BY <1>11, <2>1 DEF IsLast
      <3> QED BY <1>12, <1>14, <3>1, WalkOrder
    <2>2. IsLast(M, V, x) BY <1>7, <2>1 DEF IsLast
    <2> QED BY <1>6, <1>7, <2>2
  <1> QED BY <1>11, <1>12, <1>13, <1>14, WalkOrder

(* h gives, for every set of pairs in T, the rows of a walk over it.        *)
Walks(h, M, T) ==
  \A W \in T : h[W] = IF W = {} THEN {} ELSE DecidePair(M, h[W \ {LastOf(M, W)}], LastOf(M, W))

LEMMA WalkedExists ==
  ASSUME NEW M, NEW n, NEW m, IsMatrix(M, n, m)
  PROVE  \E h : h = [W \in SUBSET Pairs(M) |-> h[W]] /\ Walks(h, M, SUBSET Pairs(M))
  <1> DEFINE D == Pairs(M)
             N == Cardinality(D)
             Does(k) == \E h : h = [W \in SUBSET D |-> h[W]] /\ Walks(h, M, UpTo(D, k))
             Bad == {k \in 0..N : ~Does(k)}
  <1>0. IsFiniteSet(D)
    <2>1. IsFiniteSet(Pairs(M)) BY PairsAre
    <2> QED BY <2>1
  <1>1. N \in Nat BY <1>0, FS_CardinalityType
  <1>2. UpTo(D, N) = SUBSET D
    <2>1. \A s \in SUBSET D : Cardinality(s) <= N BY <1>0, FS_Subset
    <2> QED BY <2>1 DEF UpTo
  <1>3. SUFFICES ASSUME Bad # {} PROVE FALSE
    <2>1. N \in 0..N BY <1>1
    <2> HIDE DEF N, Does
    <2>2. N \notin Bad => Does(N) BY <2>1
    <2> HIDE DEF Bad
    <2>3. Does(N) BY <1>3, <2>2
    <2> QED BY <1>2, <2>3 DEF Does
  <1> HIDE DEF N
  <1>4. Bad \in SUBSET Nat BY <1>1
  <1> HIDE DEF Bad
  <1>5. PICK k \in Bad : \A l \in Bad : k <= l BY <1>3, <1>4, LeastNatural
  <1>6. k \in 0..N /\ ~Does(k) BY <1>5 DEF Bad
  <1> DEFINE next(h, W) == IF W = {} THEN {} ELSE DecidePair(M, h[W \ {LastOf(M, W)}], LastOf(M, W))
  <1>7. ASSUME NEW W \in SUBSET D, W # {}
        PROVE  /\ W \ {LastOf(M, W)} \in SUBSET D
               /\ Cardinality(W \ {LastOf(M, W)}) = Cardinality(W) - 1
               /\ Cardinality(W) \in Nat \ {0}
    <2>1. LastOf(M, W) \in W BY <1>7, LastExists DEF IsLast
    <2>2. IsFiniteSet(W) BY <1>0, FS_Subset
    <2> QED BY <1>7, <2>1, <2>2, FS_RemoveElement, FS_CardinalityType, FS_EmptySet
  <1>8. CASE k = 0
    <2> DEFINE h == [W \in SUBSET D |-> {}]
    <2>1. ASSUME NEW W \in UpTo(D, k) PROVE W = {} /\ h[W] = {}
      <3>1. W \in SUBSET D /\ Cardinality(W) <= 0 BY <2>1, <1>8 DEF UpTo
      <3>2. W # {} => Cardinality(W) \in Nat \ {0} BY <3>1, <1>7
      <3>3. W = {} BY <3>1, <3>2
      <3> QED BY <3>1, <3>3
    <2>2. h = [W \in SUBSET D |-> h[W]] OBVIOUS
    <2> HIDE DEF h
    <2>3. Walks(h, M, UpTo(D, k)) BY <2>1 DEF Walks
    <2> QED BY <1>6, <2>2, <2>3
  <1>9. CASE k # 0
    <2>1. k - 1 \in 0..N /\ k - 1 \notin Bad BY <1>1, <1>5, <1>6, <1>9
    <2>2. Does(k - 1) BY <2>1 DEF Bad
    <2>3. PICK h : h = [W \in SUBSET D |-> h[W]] /\ Walks(h, M, UpTo(D, k - 1)) BY <2>2
    <2> DEFINE g == [W \in SUBSET D |-> next(h, W)]
    <2>4. g = [W \in SUBSET D |-> g[W]] OBVIOUS
    <2>5. \A W \in SUBSET D : g[W] = next(h, W) OBVIOUS
    <2>6. ASSUME NEW W \in UpTo(D, k - 1) PROVE g[W] = h[W]
      BY <2>3, <2>5, <2>6 DEF UpTo, Walks
    <2> HIDE DEF g
    <2>7. ASSUME NEW W \in UpTo(D, k) PROVE g[W] = next(g, W)
      <3>1. W \in SUBSET D /\ Cardinality(W) <= k BY <2>7 DEF UpTo
      <3>2. CASE W = {} BY <3>1, <3>2, <2>5
      <3>3. CASE W # {}
        <4>1. W \ {LastOf(M, W)} \in UpTo(D, k - 1) BY <1>6, <1>7, <3>1, <3>3 DEF UpTo
        <4> QED BY <3>1, <3>3, <4>1, <2>5, <2>6
      <3> QED BY <3>2, <3>3
    <2>8. Walks(g, M, UpTo(D, k)) BY <2>7 DEF Walks
    <2> QED BY <1>6, <2>4, <2>8
  <1> QED BY <1>8, <1>9

LEMMA WalkIs ==
  ASSUME NEW M, NEW n, NEW m, IsMatrix(M, n, m)
  PROVE  \E h : Walks(h, M, SUBSET Pairs(M)) /\ Walk(M) = h[Pairs(M)]
  <1> DEFINE P(h) == h = [W \in SUBSET Pairs(M) |->
               IF W = {} THEN {} ELSE DecidePair(M, h[W \ {LastOf(M, W)}], LastOf(M, W))]
             F == CHOOSE h : P(h)
  <1>1. PICK h : h = [W \in SUBSET Pairs(M) |-> h[W]] /\ Walks(h, M, SUBSET Pairs(M))
    BY WalkedExists
  <1>2. P(h) BY <1>1 DEF Walks
  <1>3. P(F)
    <2> HIDE DEF P
    <2> QED BY <1>2
  <1>4. Walk(M) = F[Pairs(M)] BY DEF Walk
  <1> HIDE DEF F
  <1>5. Walks(F, M, SUBSET Pairs(M)) BY <1>3 DEF Walks
  <1> QED BY <1>4, <1>5

-----------------------------------------------------------------------------
(* What holds of the rows R after a walk over W, a set of pairs with every  *)
(* pair that precedes one of them.                                          *)
Downward(M, W) == \A p \in Pairs(M), q \in W : Precedes(M, p, q) => p \in W

(* Claim k is held by a candidate that suits it as well as score s.         *)
HeldFor(R, k, s) == \E h \in Matched(R) : h.claim = k /\ h.score >= s

RowsAre(M, n, m, W, R) ==
  \A r \in R :
    /\ r.claim \in 1..n /\ r.cand \in 1..m /\ <<r.claim, r.cand>> \in W
    /\ r.score = M[r.claim][r.cand] /\ r.decision \in {"matched", "ambiguous"}
    /\ r.margin \in Nat
    /\ \A k \in r.runnerUp : k \in 1..n /\ M[k][r.cand] <= r.score

OneRowEach(R) ==
  /\ \A r, s \in R : r.cand = s.cand => r = s
  /\ \A r, s \in Matched(R) : r.claim = s.claim => r = s

Decided(M, n, m, W, R) ==
  \A k \in 1..n, j \in 1..m :
    <<k, j>> \in W /\ j \notin CandUsed(R) => HeldFor(R, k, M[k][j])

Leads(M, n, R) ==
  \A r \in Matched(R) : \A k \in 1..n :
    k # r.claim =>
      /\ r.score - M[k][r.cand] >= MARGIN \/ HeldFor(R, k, M[k][r.cand])
      /\ k \notin ClaimUsed(R) => r.score - M[k][r.cand] >= MARGIN

WalkInv(M, n, m, W, R) ==
  /\ RowsAre(M, n, m, W, R) /\ OneRowEach(R)
  /\ Decided(M, n, m, W, R) /\ Leads(M, n, R)

(* The best of the claims in I for candidate j: there is one if there are   *)
(* claims at all.                                                           *)
LEMMA BestExists ==
  ASSUME NEW M, NEW n, NEW m, IsMatrix(M, n, m), NEW I \in SUBSET (1..n), NEW j \in 1..m
  PROVE  /\ BestClaim(M, I, j) \subseteq I
         /\ I # {} => BestClaim(M, I, j) # {}
         /\ \A i \in BestClaim(M, I, j), k \in I : M[k][j] <= M[i][j]
         /\ \A i, k \in BestClaim(M, I, j) : i = k
  <1>1. \A i \in 1..n : i \in Nat /\ M[i][j] \in Nat /\ M[i][j] <= Full
    BY PairsAre
  <1>2. \A i \in I : i \in Nat /\ M[i][j] \in Nat /\ M[i][j] <= Full BY <1>1
  <1> DEFINE best(i) == \A k \in I : M[k][j] < M[i][j] \/ (M[k][j] = M[i][j] /\ i <= k)
  <1>0. Full \in Nat BY DEF Full
  <1>3. BestClaim(M, I, j) = {i \in I : best(i)} BY DEF BestClaim
  <1>4. ASSUME I # {} PROVE \E i \in I : best(i)
    <2> DEFINE gaps == {Full - M[i][j] : i \in I}
    <2>1. \A i \in I : Full - M[i][j] \in Nat BY <1>0, <1>2
    <2>2. \A i \in I : Full - M[i][j] \in gaps OBVIOUS
    <2>3. \A g \in gaps : \E i \in I : g = Full - M[i][j] OBVIOUS
    <2> HIDE DEF gaps
    <2>0. gaps \in SUBSET Nat /\ gaps # {}
      <3>1. ASSUME NEW g \in gaps PROVE g \in Nat
        <4>1. PICK i \in I : g = Full - M[i][j] BY <2>3
        <4> QED BY <2>1, <4>1
      <3>2. PICK i \in I : TRUE BY <1>4
      <3>3. Full - M[i][j] \in gaps BY <2>2, <3>2
      <3> QED BY <3>1, <3>3
    <2>4. PICK g \in gaps : \A h \in gaps : g <= h BY <2>0, LeastNatural
    <2> DEFINE tops == {i \in I : Full - M[i][j] = g}
    <2>6. \A i \in I : i \in tops <=> Full - M[i][j] = g OBVIOUS
    <2>7. tops \subseteq I OBVIOUS
    <2> HIDE DEF tops
    <2>5. tops \in SUBSET Nat /\ tops # {}
      <3>1. I \subseteq Nat BY <1>2
      <3>2. PICK i \in I : g = Full - M[i][j] BY <2>3, <2>4
      <3>3. i \in tops BY <2>6, <3>2
      <3> QED BY <2>7, <3>1, <3>3
    <2>8. PICK i \in tops : \A k \in tops : i <= k BY <2>5, LeastNatural
    <2>9. i \in I /\ Full - M[i][j] = g BY <2>6, <2>7, <2>8
    <2>10. ASSUME NEW k \in I PROVE M[k][j] < M[i][j] \/ (M[k][j] = M[i][j] /\ i <= k)
      <3>1. M[k][j] \in Nat /\ M[i][j] \in Nat /\ Full \in Nat BY <1>0, <1>2, <2>9
      <3>2. g <= Full - M[k][j] BY <2>2, <2>4
      <3>3. CASE M[k][j] = M[i][j]
        <4>1. k \in tops BY <2>6, <2>9, <3>3
        <4> QED BY <2>8, <3>3, <4>1
      <3>4. CASE M[k][j] # M[i][j]
        <4>1. Full - M[i][j] <= Full - M[k][j] BY <2>9, <3>2
        <4> QED BY <3>1, <3>4, <4>1
      <3> QED BY <3>3, <3>4
    <2>11. best(i) BY <2>10
    <2> HIDE DEF best
    <2> QED BY <2>9, <2>11
  <1>5. ASSUME NEW i \in I, best(i), NEW k \in I PROVE M[k][j] <= M[i][j]
    BY <1>2, <1>5
  <1>6. ASSUME NEW i \in I, best(i), NEW k \in I, best(k) PROVE i = k
    <2>1. M[k][j] < M[i][j] \/ (M[k][j] = M[i][j] /\ i <= k) BY <1>6
    <2>2. M[i][j] < M[k][j] \/ (M[i][j] = M[k][j] /\ k <= i) BY <1>6
    <2>3. i \in Nat /\ k \in Nat /\ M[k][j] \in Nat /\ M[i][j] \in Nat BY <1>2
    <2> QED BY <2>1, <2>2, <2>3
  <1> HIDE DEF best
  <1> QED BY <1>3, <1>4, <1>5, <1>6

(* The row of a pair, and the lead it reports.                              *)
LEMMA RowIs ==
  ASSUME NEW M, NEW i, NEW j, NEW runner
  PROVE  LET row == RowOf(M, i, j, runner)
         IN  /\ row.claim = i /\ row.cand = j /\ row.score = M[i][j] /\ row.runnerUp = runner
             /\ row.decision \in {"matched", "ambiguous"}
             /\ runner = {} => row.margin = M[i][j] - 0 /\ row.decision = "matched"
             /\ runner # {} =>
                  \E k \in runner :
                    /\ row.margin = M[i][j] - M[k][j]
                    /\ row.decision = "matched" <=> ~(M[i][j] - M[k][j] < MARGIN)
  <1> DEFINE scores == {M[k][j] : k \in runner}
             top == CHOOSE s \in scores : TRUE
  <1>1. CASE runner = {} BY <1>1 DEF RowOf
  <1>2. CASE runner # {}
    <2>1. top \in scores BY <1>2
    <2>2. PICK k \in runner : top = M[k][j] BY <2>1
    <2> HIDE DEF top, scores
    <2>3. RowOf(M, i, j, runner) =
            [claim |-> i, cand |-> j, score |-> M[i][j], margin |-> M[i][j] - top,
             runnerUp |-> runner,
             decision |-> IF runner # {} /\ M[i][j] - top < MARGIN THEN "ambiguous" ELSE "matched"]
      BY <1>2 DEF RowOf, top, scores
    <2> QED BY <1>2, <2>2, <2>3
  <1> QED BY <1>1, <1>2

(* One pair more.                                                           *)
LEMMA WalkStep ==
  ASSUME NEW M, NEW n, NEW m, IsMatrix(M, n, m), NEW W \in SUBSET Pairs(M), W # {},
         Downward(M, W), NEW R, WalkInv(M, n, m, W \ {LastOf(M, W)}, R)
  PROVE  WalkInv(M, n, m, W, DecidePair(M, R, LastOf(M, W)))
  <1> DEFINE p == LastOf(M, W)
             V == W \ {p}
  <1>1. p \in W /\ \A q \in V : Precedes(M, q, p) BY LastExists DEF IsLast
  <1>2. PICK i \in 1..n, j \in 1..m : p = <<i, j>> /\ p[1] = i /\ p[2] = j
    <2>1. p[1] \in 1..n /\ p[2] \in 1..m /\ p = <<p[1], p[2]>> BY <1>1, PairsAre
    <2> QED BY <2>1
  <1> HIDE DEF p
  <1>3. p \in Pairs(M) /\ M[i][j] \in Nat /\ M[i][j] <= Full /\ M[i][j] >= ACCEPT
    BY <1>1, <1>2, PairsAre
  <1>4. /\ RowsAre(M, n, m, V, R) /\ OneRowEach(R) /\ Decided(M, n, m, V, R) /\ Leads(M, n, R)
    BY DEF WalkInv, p
  <1>5. V \subseteq W /\ \A q \in W : q \in V \/ q = p OBVIOUS
  <1>6. \A k \in 1..n, l \in 1..m : M[k][l] \in Nat /\ M[k][l] <= Full BY PairsAre
  (* Every row so far has a score at least that of the pair. *)
  <1>7. ASSUME NEW r \in R
        PROVE  /\ r.claim \in 1..n /\ r.cand \in 1..m /\ r.score = M[r.claim][r.cand]
               /\ r.score \in Nat /\ r.score >= M[i][j]
    <2>1. /\ r.claim \in 1..n /\ r.cand \in 1..m /\ r.score = M[r.claim][r.cand]
          /\ <<r.claim, r.cand>> \in V
      BY <1>4 DEF RowsAre
    <2> DEFINE q == <<r.claim, r.cand>>
    <2>2. q \in Pairs(M) /\ q[1] = r.claim /\ q[2] = r.cand /\ Precedes(M, q, p)
      BY <1>1, <2>1
    <2> HIDE DEF q
    <2>3. M[q[1]][q[2]] >= M[p[1]][p[2]] BY <1>3, <2>2, WalkOrder
    <2> QED BY <1>2, <1>6, <2>1, <2>2, <2>3
  (* A pair that scores more for the candidate came before. *)
  <1>8. ASSUME NEW k \in 1..n, M[k][j] > M[i][j], j \notin CandUsed(R)
        PROVE  HeldFor(R, k, M[k][j])
    <2> DEFINE q == <<k, j>>
    <2>1. q[1] = k /\ q[2] = j OBVIOUS
    <2>2. M[k][j] >= ACCEPT BY <1>3, <1>6, <1>8 DEF ACCEPT
    <2>3. q \in Pairs(M) BY <2>2, PairsAre
    <2> HIDE DEF q
    <2>4. Precedes(M, q, p) BY <1>2, <1>3, <1>8, <2>1, <2>3, WalkOrder
    <2>5. q \in W BY <1>1, <2>3, <2>4 DEF Downward
    <2>6. q # p BY <1>3, <2>4, WalkOrder
    <2>7. <<k, j>> \in V BY <2>5, <2>6 DEF q
    <2> QED BY <1>4, <1>8, <2>7 DEF Decided
  <1>9. CASE i \in ClaimUsed(R) \/ j \in CandUsed(R)
    <2>1. DecidePair(M, R, p) = R BY <1>2, <1>9 DEF DecidePair
    <2>2. RowsAre(M, n, m, W, R) BY <1>4, <1>5 DEF RowsAre
    <2>3. ASSUME NEW k \in 1..n, NEW l \in 1..m, <<k, l>> \in W, l \notin CandUsed(R)
          PROVE  HeldFor(R, k, M[k][l])
      <3>1. CASE <<k, l>> \in V BY <1>4, <2>3, <3>1 DEF Decided
      <3>2. CASE <<k, l>> = p
        <4>1. k = i /\ l = j BY <1>2, <3>2
        <4>2. i \in ClaimUsed(R) BY <1>9, <2>3, <4>1
        <4>3. PICK h \in Matched(R) : h.claim = i BY <4>2 DEF ClaimUsed
        <4>4. h.score >= M[i][j] BY <1>7, <4>3 DEF Matched
        <4> QED BY <4>1, <4>3, <4>4 DEF HeldFor
      <3> QED BY <1>5, <2>3, <3>1, <3>2
    <2>4. Decided(M, n, m, W, R) BY <2>3 DEF Decided
    <2> QED BY <1>4, <2>1, <2>2, <2>4 DEF WalkInv, p
  <1>10. CASE i \notin ClaimUsed(R) /\ j \notin CandUsed(R)
    <2> DEFINE free == (1..n) \ ({i} \cup ClaimUsed(R))
               runner == bestOtherClaim(M, i, j, ClaimUsed(R))
               row == RowOf(M, i, j, runner)
               S == R \cup {row}
    <2>1. DecidePair(M, R, p) = S BY <1>2, <1>10 DEF DecidePair
    <2>2. /\ runner \subseteq free
          /\ free # {} => runner # {}
          /\ \A x \in runner, k \in free : M[k][j] <= M[x][j]
      <3>1. runner = BestClaim(M, free, j) BY DEF bestOtherClaim, IsMatrix
      <3>2. free \in SUBSET (1..n) OBVIOUS
      <3> HIDE DEF free, runner
      <3> QED BY <3>1, <3>2, BestExists
    <2>3. \A k \in 1..n : k \in free <=> k # i /\ k \notin ClaimUsed(R) OBVIOUS
    <2>4. free \subseteq 1..n OBVIOUS
    <2>5. /\ row.claim = i /\ row.cand = j /\ row.score = M[i][j] /\ row.runnerUp = runner
          /\ row.decision \in {"matched", "ambiguous"}
          /\ runner = {} => row.margin = M[i][j] - 0 /\ row.decision = "matched"
          /\ runner # {} => \E k \in runner :
                              /\ row.margin = M[i][j] - M[k][j]
                              /\ row.decision = "matched" <=> ~(M[i][j] - M[k][j] < MARGIN)
      BY RowIs
    <2> HIDE DEF free, runner, row
    <2>6. \A k \in free : M[k][j] <= M[i][j]
      <3>1. ASSUME NEW k \in free, M[k][j] > M[i][j] PROVE FALSE
        <4>1. k \in 1..n BY <2>4
        <4>2. HeldFor(R, k, M[k][j]) BY <1>8, <1>10, <3>1, <4>1
        <4>3. k \in ClaimUsed(R) BY <4>2 DEF HeldFor, ClaimUsed
        <4> QED BY <2>3, <4>1, <4>3
      <3>2. \A k \in free : M[k][j] \in Nat /\ M[i][j] \in Nat BY <1>3, <1>6, <2>4
      <3>3. \A x, y \in Nat : x <= y \/ x > y OBVIOUS
      <3> QED BY <3>1, <3>2, <3>3
    <2>7. row.margin \in Nat
      <3>1. CASE runner = {} BY <1>3, <2>5, <3>1
      <3>2. CASE runner # {}
        <4>1. PICK k \in runner : row.margin = M[i][j] - M[k][j] BY <2>5, <3>2
        <4>2. M[k][j] \in Nat /\ M[k][j] <= M[i][j] BY <1>6, <2>2, <2>4, <2>6
        <4> QED BY <1>3, <4>1, <4>2
      <3> QED BY <3>1, <3>2
    <2>8. S = R \cup {row} OBVIOUS
    <2> HIDE DEF S
    <2>9. RowsAre(M, n, m, W, S)
      <3>1. ASSUME NEW r \in S
            PROVE  /\ r.claim \in 1..n /\ r.cand \in 1..m /\ <<r.claim, r.cand>> \in W
                   /\ r.score = M[r.claim][r.cand] /\ r.decision \in {"matched", "ambiguous"}
                   /\ r.margin \in Nat
                   /\ \A k \in r.runnerUp : k \in 1..n /\ M[k][r.cand] <= r.score
        <4>1. CASE r \in R BY <1>4, <1>5, <4>1 DEF RowsAre
        <4>2. CASE r = row
          <5>1. \A k \in runner : k \in 1..n /\ M[k][j] <= M[i][j] BY <2>2, <2>4, <2>6
          <5> QED BY <1>1, <1>2, <2>5, <2>7, <4>2, <5>1
        <4> QED BY <2>8, <3>1, <4>1, <4>2
      <3> QED BY <3>1 DEF RowsAre
    <2>10. \A r \in R : r.cand # j BY <1>10 DEF CandUsed
    <2>11. \A r \in Matched(R) : r.claim # i BY <1>10 DEF ClaimUsed
    <2>12. /\ \A r \in S : r \in R \/ r = row
           /\ \A r \in Matched(S) : r \in Matched(R) \/ r = row
           /\ \A r \in Matched(R) : r \in Matched(S)
      BY <2>8 DEF Matched
    <2>13. OneRowEach(S)
      <3>1. \A r, s \in S : r.cand = s.cand => r = s
        BY <1>4, <2>5, <2>10, <2>12 DEF OneRowEach
      <3>2. \A r, s \in Matched(S) : r.claim = s.claim => r = s
        BY <1>4, <2>5, <2>11, <2>12 DEF OneRowEach
      <3> QED BY <3>1, <3>2 DEF OneRowEach
    <2>14. \A k, s : HeldFor(R, k, s) => HeldFor(S, k, s) BY <2>12 DEF HeldFor
    <2>15. j \in CandUsed(S) /\ \A l : l \in CandUsed(R) => l \in CandUsed(S)
      BY <2>5, <2>8 DEF CandUsed
    <2>16. Decided(M, n, m, W, S)
      <3>1. ASSUME NEW k \in 1..n, NEW l \in 1..m, <<k, l>> \in W, l \notin CandUsed(S)
            PROVE  HeldFor(S, k, M[k][l])
        <4>1. l # j /\ l \notin CandUsed(R) BY <2>15, <3>1
        <4>2. <<k, l>> # p BY <1>2, <4>1
        <4>3. <<k, l>> \in V BY <1>5, <3>1, <4>2
        <4>4. HeldFor(R, k, M[k][l]) BY <1>4, <4>1, <4>3 DEF Decided
        <4> QED BY <2>14, <4>4
      <3> QED BY <3>1 DEF Decided
    <2>17. \A k : k \in ClaimUsed(R) => k \in ClaimUsed(S) BY <2>12 DEF ClaimUsed
    <2>18. Leads(M, n, S)
      <3>1. ASSUME NEW r \in Matched(S), NEW k \in 1..n, k # r.claim
            PROVE  /\ r.score - M[k][r.cand] >= MARGIN \/ HeldFor(S, k, M[k][r.cand])
                   /\ k \notin ClaimUsed(S) => r.score - M[k][r.cand] >= MARGIN
        <4>1. CASE r \in Matched(R)
          <5>1. /\ r.score - M[k][r.cand] >= MARGIN \/ HeldFor(R, k, M[k][r.cand])
                /\ k \notin ClaimUsed(R) => r.score - M[k][r.cand] >= MARGIN
            BY <1>4, <3>1, <4>1 DEF Leads
          <5> QED BY <2>14, <2>17, <5>1
        <4>2. CASE r = row
          <5>1. r.claim = i /\ r.cand = j /\ r.score = M[i][j] /\ r.decision = "matched"
            BY <2>5, <3>1, <4>2 DEF Matched
          <5>2. CASE k \in ClaimUsed(R)
            <6>1. CASE M[k][j] > M[i][j]
              <7>1. HeldFor(R, k, M[k][j]) BY <1>8, <1>10, <6>1
              <7> QED BY <2>14, <2>17, <5>1, <5>2, <7>1
            <6>2. CASE ~(M[k][j] > M[i][j])
              <7>1. PICK h \in Matched(R) : h.claim = k BY <5>2 DEF ClaimUsed
              <7>2. h.score \in Nat /\ h.score >= M[i][j] BY <1>7, <7>1 DEF Matched
              <7>3. h.score >= M[k][j] BY <1>3, <1>6, <6>2, <7>2
              <7>4. HeldFor(R, k, M[k][j]) BY <7>1, <7>3 DEF HeldFor
              <7> QED BY <2>14, <2>17, <5>1, <5>2, <7>4
            <6> QED BY <6>1, <6>2
          <5>3. CASE k \notin ClaimUsed(R)
            <6>1. k \in free BY <2>3, <3>1, <5>1, <5>3
            <6>2. runner # {} BY <2>2, <6>1
            <6>3. PICK x \in runner : ~(M[i][j] - M[x][j] < MARGIN) BY <2>5, <4>2, <5>1, <6>2
            <6>4. M[k][j] <= M[x][j] /\ M[k][j] \in Nat /\ M[x][j] \in Nat
              BY <1>6, <2>2, <2>4, <6>1, <6>3
            <6>5. M[i][j] - M[k][j] >= MARGIN BY <1>3, <6>3, <6>4 DEF MARGIN
            <6> QED BY <5>1, <6>5
          <5> QED BY <5>2, <5>3
        <4> QED BY <2>12, <3>1, <4>1, <4>2
      <3> QED BY <3>1 DEF Leads
    <2> QED BY <2>1, <2>9, <2>13, <2>16, <2>18 DEF WalkInv, p
  <1> QED BY <1>9, <1>10

(* What the walk leaves: every pair was decided.                            *)
LEMMA WalkLeaves ==
  ASSUME NEW M, NEW n, NEW m, IsMatrix(M, n, m)
  PROVE  WalkInv(M, n, m, Pairs(M), Walk(M))
  <1> DEFINE D == Pairs(M)
  <1>0. IsFiniteSet(Pairs(M)) BY PairsAre
  <1>1. PICK h : Walks(h, M, SUBSET Pairs(M)) /\ Walk(M) = h[Pairs(M)] BY WalkIs
  <1> DEFINE Right(W) == WalkInv(M, n, m, W, h[W])
             Bad == {k \in Nat : \E W \in SUBSET D : Downward(M, W) /\ Cardinality(W) = k /\ ~Right(W)}
  <1>2. \A W \in SUBSET D : IsFiniteSet(W) /\ Cardinality(W) \in Nat
    BY <1>0, FS_Subset, FS_CardinalityType
  <1>3. SUFFICES ASSUME Bad # {} PROVE FALSE
    <2>1. Downward(M, D) BY DEF Downward
    <2> HIDE DEF Right
    <2>2. Right(D) BY <1>2, <1>3, <2>1
    <2> QED BY <1>1, <2>2 DEF Right
  <1>4. Bad \in SUBSET Nat OBVIOUS
  <1> HIDE DEF Right, Bad
  <1>5. PICK k \in Bad : \A l \in Bad : k <= l BY <1>3, <1>4, LeastNatural
  <1>6. PICK W \in SUBSET D : Downward(M, W) /\ Cardinality(W) = k /\ ~Right(W) BY <1>5 DEF Bad
  <1>7. W # {}
    <2>1. h[{}] = {} BY <1>1 DEF Walks
    <2>2. WalkInv(M, n, m, {}, {})
      BY DEF WalkInv, RowsAre, OneRowEach, Decided, Leads, Matched
    <2> QED BY <1>6, <2>1, <2>2 DEF Right
  <1> DEFINE p == LastOf(M, W)
             V == W \ {p}
  <1>8. p \in W /\ \A q \in V : Precedes(M, q, p) BY <1>7, LastExists DEF IsLast
  <1>9. h[W] = DecidePair(M, h[V], p) BY <1>1, <1>7 DEF Walks
  <1>10. V \in SUBSET D /\ Cardinality(V) = k - 1 /\ Cardinality(V) \in Nat /\ k \in Nat
    BY <1>2, <1>6, <1>8, FS_RemoveElement
  <1>11. Downward(M, V)
    <2>1. ASSUME NEW x \in Pairs(M), NEW q \in V, Precedes(M, x, q) PROVE x \in V
      <3>1. x \in W BY <1>6, <2>1 DEF Downward
      <3>2. x # p
        <4>1. Precedes(M, q, p) /\ q \in Pairs(M) BY <1>8
        <4> QED BY <2>1, <4>1, WalkOrder
      <3> QED BY <3>1, <3>2
    <2> HIDE DEF V
    <2> QED BY <2>1 DEF Downward
  <1>12. Right(V)
    <2> HIDE DEF V
    <2>1. Cardinality(V) \notin Bad BY <1>5, <1>10
    <2> QED BY <1>10, <1>11, <2>1 DEF Bad
  <1>13. WalkInv(M, n, m, W, DecidePair(M, h[V], p))
    BY <1>6, <1>7, <1>12, WalkStep DEF Right
  <1> QED BY <1>6, <1>9, <1>13 DEF Right

-----------------------------------------------------------------------------
(* The scores.                                                              *)

(* The square root of a whole number: the recursion defines a natural       *)
(* number for every one.                                                    *)
RootStep(h, k) ==
  IF k = 0 THEN 0
  ELSE LET r == 2 * h[k \div 4] IN IF (r + 1) * (r + 1) <= k THEN r + 1 ELSE r

Roots(h, N) == \A k \in 0..N : h[k] = RootStep(h, k)

LEMMA RootStepType ==
  ASSUME NEW h, NEW k \in Nat, k # 0 => h[k \div 4] \in Nat
  PROVE  RootStep(h, k) \in Nat
  <1>1. CASE k = 0 BY <1>1 DEF RootStep
  <1>2. CASE k # 0
    <2> DEFINE r == 2 * h[k \div 4]
    <2>1. r \in Nat BY <1>2
    <2>2. RootStep(h, k) = r + 1 \/ RootStep(h, k) = r BY <1>2 DEF RootStep
    <2> HIDE DEF r
    <2> QED BY <2>1, <2>2
  <1> QED BY <1>1, <1>2

LEMMA QuarterIsLess ==
  ASSUME NEW k \in Nat, k # 0
  PROVE  k \div 4 \in 0..(k - 1)
OBVIOUS

LEMMA RootsExist ==
  ASSUME NEW N \in Nat
  PROVE  \E h \in [Nat -> Nat] : Roots(h, N)
  <1> DEFINE Bad == {K \in Nat : ~\E h \in [Nat -> Nat] : Roots(h, K)}
  <1>1. SUFFICES ASSUME Bad # {} PROVE FALSE OBVIOUS
  <1>2. Bad \in SUBSET Nat OBVIOUS
  <1> HIDE DEF Bad
  <1>3. PICK K \in Bad : \A L \in Bad : K <= L BY <1>1, <1>2, LeastNatural
  <1>4. K \in Nat /\ ~\E h \in [Nat -> Nat] : Roots(h, K) BY <1>3 DEF Bad
  <1>5. K # 0
    <2> DEFINE h == [k \in Nat |-> 0]
    <2>1. h \in [Nat -> Nat] OBVIOUS
    <2>2. ASSUME K = 0 PROVE Roots(h, K)
      <3>1. \A k \in 0..K : k = 0 /\ k \in Nat BY <2>2
      <3> QED BY <3>1 DEF Roots, RootStep
    <2> HIDE DEF h
    <2> QED BY <1>4, <2>1, <2>2
  <1>6. K - 1 \in Nat /\ ~(K <= K - 1) BY <1>4, <1>5
  <1>7. PICK h \in [Nat -> Nat] : Roots(h, K - 1)
    <2>1. K - 1 \notin Bad BY <1>3, <1>6
    <2> QED BY <1>6, <2>1 DEF Bad
  <1> DEFINE x == RootStep(h, K)
             g == [h EXCEPT ![K] = x]
  <1>8. x \in Nat
    <2>1. K \div 4 \in Nat BY <1>4, Quotient
    <2>2. h[K \div 4] \in Nat BY <2>1
    <2> QED BY <1>4, <2>2, RootStepType
  <1> HIDE DEF x
  <1>9. g \in [Nat -> Nat] /\ g[K] = x /\ \A k \in 0..(K - 1) : g[k] = h[k] BY <1>4, <1>8
  <1> HIDE DEF g
  <1>10. ASSUME NEW k \in 0..K PROVE g[k] = RootStep(g, k)
    <2>1. k \in Nat OBVIOUS
    <2>2. CASE k = 0
      <3>1. g[k] = h[k] /\ h[k] = RootStep(h, k) BY <1>5, <1>6, <1>7, <1>9, <2>2 DEF Roots
      <3> QED BY <2>2, <3>1 DEF RootStep
    <2>3. CASE k # 0
      <3>1. k \div 4 \in 0..(k - 1) BY <2>1, <2>3, QuarterIsLess
      <3>2. k \div 4 \in 0..(K - 1) BY <1>4, <3>1
      <3>3. g[k \div 4] = h[k \div 4] BY <1>9, <3>2
      <3>4. RootStep(g, k) = RootStep(h, k) BY <3>3 DEF RootStep
      <3>5. CASE k = K BY <1>9, <3>4, <3>5 DEF x
      <3>6. CASE k # K
        <4>1. k \in 0..(K - 1) BY <1>4, <3>6
        <4> QED BY <1>7, <1>9, <3>4, <4>1 DEF Roots
      <3> QED BY <3>5, <3>6
    <2> QED BY <2>2, <2>3
  <1>11. Roots(g, K) BY <1>10 DEF Roots
  <1> QED BY <1>4, <1>9, <1>11

LEMMA RootsUnique ==
  ASSUME NEW N \in Nat, NEW g, NEW h, Roots(g, N), Roots(h, N)
  PROVE  \A k \in 0..N : g[k] = h[k]
  <1> DEFINE Bad == {k \in 0..N : g[k] # h[k]}
  <1>1. SUFFICES ASSUME Bad # {} PROVE FALSE OBVIOUS
  <1>2. Bad \in SUBSET Nat OBVIOUS
  <1> HIDE DEF Bad
  <1>3. PICK k \in Bad : \A l \in Bad : k <= l BY <1>1, <1>2, LeastNatural
  <1>4. k \in 0..N /\ k \in Nat /\ g[k] # h[k] BY <1>3 DEF Bad
  <1>5. g[k] = RootStep(g, k) /\ h[k] = RootStep(h, k) BY <1>4 DEF Roots
  <1>6. k # 0 BY <1>4, <1>5 DEF RootStep
  <1>7. k \div 4 \in 0..(k - 1) BY <1>4, <1>6, QuarterIsLess
  <1>8. k \div 4 \in 0..N /\ ~(k <= k \div 4) BY <1>4, <1>7
  <1>9. k \div 4 \notin Bad BY <1>3, <1>8
  <1>10. g[k \div 4] = h[k \div 4] BY <1>8, <1>9 DEF Bad
  <1> QED BY <1>4, <1>5, <1>10 DEF RootStep

LEMMA SquareRoots == \A k \in Nat : ISqrt[k] \in Nat
  <1> DEFINE P(h) == h = [k \in Nat |-> RootStep(h, k)]
             H(k) == CHOOSE h \in [Nat -> Nat] : Roots(h, k)
             F == [k \in Nat |-> H(k)[k]]
  <1>1. ASSUME NEW k \in Nat PROVE H(k) \in [Nat -> Nat] /\ Roots(H(k), k)
    BY RootsExist
  <1> HIDE DEF H
  <1>2. ASSUME NEW k \in Nat PROVE F[k] = RootStep(F, k)
    <2>1. F[k] = RootStep(H(k), k)
      <3>1. k \in 0..k OBVIOUS
      <3>2. H(k)[k] = RootStep(H(k), k) BY <1>1, <3>1 DEF Roots
      <3> QED BY <3>2
    <2>2. CASE k = 0 BY <2>1, <2>2 DEF RootStep
    <2>3. CASE k # 0
      <3> DEFINE l == k \div 4
      <3>1. l \in 0..(k - 1) BY <2>3, QuarterIsLess
      <3> HIDE DEF l
      <3>2. l \in Nat /\ l <= k /\ l \in 0..l BY <3>1
      <3>3. Roots(H(k), l)
        <4>1. \A x \in 0..l : x \in 0..k BY <3>2
        <4> QED BY <1>1, <4>1 DEF Roots
      <3>4. H(k)[l] = H(l)[l] BY <1>1, <3>2, <3>3, RootsUnique
      <3>5. F[l] = H(k)[l] BY <3>2, <3>4
      <3> HIDE DEF F
      <3> QED BY <2>1, <2>3, <3>5 DEF RootStep, l
    <2> QED BY <2>2, <2>3
  <1>3. P(F)
    <2> DEFINE G == [k \in Nat |-> RootStep(F, k)]
    <2>1. \A k \in Nat : F[k] = G[k] BY <1>2
    <2>2. F = [k \in Nat |-> F[k]] OBVIOUS
    <2>3. G = [k \in Nat |-> G[k]] OBVIOUS
    <2> HIDE DEF F
    <2> HIDE DEF G
    <2>4. F = G BY <2>1, <2>2, <2>3
    <2> QED BY <2>4 DEF G
  <1>4. P(CHOOSE h : P(h))
    <2> HIDE DEF P
    <2> QED BY <1>3
  <1>5. ISqrt = CHOOSE h : P(h) BY DEF ISqrt, RootStep
  <1>6. \A k \in Nat : ISqrt[k] = RootStep(ISqrt, k) BY <1>4, <1>5
  <1> DEFINE Bad == {k \in Nat : ISqrt[k] \notin Nat}
  <1>7. SUFFICES ASSUME Bad # {} PROVE FALSE OBVIOUS
  <1>8. Bad \in SUBSET Nat OBVIOUS
  <1> HIDE DEF Bad
  <1>9. PICK k \in Bad : \A l \in Bad : k <= l BY <1>7, <1>8, LeastNatural
  <1>10. k \in Nat /\ ISqrt[k] \notin Nat BY <1>9 DEF Bad
  <1>11. k # 0 => ISqrt[k \div 4] \in Nat
    <2> SUFFICES ASSUME k # 0 PROVE ISqrt[k \div 4] \in Nat OBVIOUS
    <2>1. k \div 4 \in 0..(k - 1) BY <1>10, QuarterIsLess
    <2>2. k \div 4 \in Nat /\ ~(k <= k \div 4) BY <1>10, <2>1
    <2>3. k \div 4 \notin Bad BY <1>9, <2>2
    <2> QED BY <2>2, <2>3 DEF Bad
  <1>12. RootStep(ISqrt, k) \in Nat BY <1>10, <1>11, RootStepType
  <1> QED BY <1>6, <1>10, <1>12

-----------------------------------------------------------------------------
(* The weights of stems.                                                    *)
IsBag(b) == IsFiniteSet(DOMAIN b) /\ \A s \in DOMAIN b : b[s] \in Nat

LEMMA BagIs ==
  ASSUME NEW r, IsCore(r)
  PROVE  IsBag(Bag(r))
  <1> DEFINE n == Len(r.words)
             times(s) == Cardinality({i \in DOMAIN r.words : r.words[i] = s})
             D == ToSet(r.words) \ {Stem[u] : u \in r.unit}
  <1>1. n \in Nat /\ DOMAIN r.words = 1..n BY DEF IsCore
  <1>2. IsFiniteSet(1..n) BY <1>1, FS_Interval
  <1>3. \A s : times(s) \in Nat
    <2>1. \A s : {i \in DOMAIN r.words : r.words[i] = s} \in SUBSET (1..n) BY <1>1
    <2>2. \A T \in SUBSET (1..n) : Cardinality(T) \in Nat BY <1>2, FS_Subset, FS_CardinalityType
    <2> QED BY <2>1, <2>2
  <1>4. IsFiniteSet(ToSet(r.words))
    <2> DEFINE f == [i \in 1..n |-> r.words[i]]
    <2>1. \A x \in ToSet(r.words) : \E i \in 1..n : x = f[i] BY <1>1 DEF ToSet
    <2>2. \A i \in 1..n : f[i] \in ToSet(r.words) BY <1>1 DEF ToSet
    <2>3. f = [i \in 1..n |-> f[i]] OBVIOUS
    <2> HIDE DEF f
    <2>4. f \in Surjection(1..n, ToSet(r.words)) BY <2>1, <2>2, <2>3 DEF Surjection
    <2> QED BY <1>2, <2>4, FS_Surjection
  <1>5. IsFiniteSet(D) BY <1>4, FS_Difference
  <1>6. Bag(r) = [s \in D |-> times(s)] BY DEF Bag
  <1> HIDE DEF D, times
  <1> QED BY <1>3, <1>5, <1>6 DEF IsBag

IsIdf(idf) == \A s : WeightOf(idf, s) \in Nat

LEMMA DotType ==
  ASSUME NEW a, NEW b, NEW idf, IsBag(a), IsBag(b), IsIdf(idf)
  PROVE  Dot(a, b, idf) \in Nat
  <1> DEFINE D == DOMAIN a \cap DOMAIN b
             weight(bag, s) == bag[s] * WeightOf(idf, s)
             f == [s \in D |-> weight(a, s) * weight(b, s)]
  <1>1. IsFiniteSet(D) BY FS_Subset DEF IsBag
  <1>2. ASSUME NEW s \in D PROVE weight(a, s) * weight(b, s) \in Nat
    <2> DEFINE v == weight(a, s)
               w == weight(b, s)
    <2>1. a[s] \in Nat /\ b[s] \in Nat /\ WeightOf(idf, s) \in Nat BY DEF IsBag, IsIdf
    <2>2. v \in Nat /\ w \in Nat BY <2>1
    <2> HIDE DEF v, w
    <2>3. v * w \in Nat BY <2>2
    <2> QED BY <2>3 DEF v, w
  <1>3. Dot(a, b, idf) = SumFunction(f) BY DEF Dot
  <1> HIDE DEF weight, D
  <1>4. f \in [D -> Nat] BY <1>2
  <1> HIDE DEF f
  <1> QED BY <1>1, <1>3, <1>4, SumType

(* A k-th lightest weight, of at least k stems.                             *)
LEMMA NthExists ==
  ASSUME NEW S, IsFiniteSet(S), S # {}, NEW f, NEW B \in Nat,
         \A s \in S : f[s] \in Nat /\ f[s] <= B,
         NEW k \in Nat, k <= Cardinality(S)
  PROVE  LET upTo(w) == Cardinality({s \in S : f[s] <= w})
         IN  \E w \in {f[s] : s \in S} :
               k <= upTo(w) /\ \A s \in S : k <= upTo(f[s]) => w <= f[s]
  <1> DEFINE upTo(w) == Cardinality({s \in S : f[s] <= w})
             values == {f[s] : s \in S}
             gaps == {g \in Nat : \E s \in S : g = B - f[s]}
             enough == {w \in values : k <= upTo(w)}
  <1>1. \E x \in S : \A s \in S : f[s] <= f[x]
    <2>1. gaps \in SUBSET Nat OBVIOUS
    <2>2. PICK y \in S : TRUE OBVIOUS
    <2>3. \A s \in S : B - f[s] \in gaps OBVIOUS
    <2>4. \A g \in gaps : \E s \in S : g = B - f[s] OBVIOUS
    <2> HIDE DEF gaps
    <2>5. gaps # {} BY <2>2, <2>3
    <2>6. PICK g \in gaps : \A h \in gaps : g <= h BY <2>1, <2>5, LeastNatural
    <2>7. PICK x \in S : g = B - f[x] BY <2>4, <2>6
    <2>8. ASSUME NEW s \in S PROVE f[s] <= f[x]
      <3>1. B - f[x] <= B - f[s] BY <2>3, <2>6, <2>7
      <3>2. f[s] \in Nat /\ f[x] \in Nat OBVIOUS
      <3> QED BY <3>1, <3>2
    <2> QED BY <2>8
  <1>2. PICK x \in S : \A s \in S : f[s] <= f[x] BY <1>1
  <1>3. f[x] \in enough
    <2>1. {s \in S : f[s] <= f[x]} = S BY <1>2
    <2> QED BY <2>1
  <1>4. enough \in SUBSET Nat OBVIOUS
  <1>5. \A s \in S : k <= upTo(f[s]) => f[s] \in enough OBVIOUS
  <1>6. \A w \in enough : w \in values /\ k <= upTo(w) OBVIOUS
  <1> HIDE DEF enough, upTo
  <1>7. PICK w \in enough : \A v \in enough : w <= v BY <1>3, <1>4, LeastNatural
  <1>8. w \in values /\ k <= upTo(w) /\ \A s \in S : k <= upTo(f[s]) => w <= f[s]
    BY <1>5, <1>6, <1>7
  <1> QED BY <1>8 DEF upTo

LEMMA IdfIs ==
  ASSUME NEW bags, NEW n \in Nat, bags = [i \in 1..n |-> bags[i]], \A i \in 1..n : IsBag(bags[i]),
         n + 1 <= Len(Ln100)
  PROVE  IsIdf(buildIdf(bags))
  <1> DEFINE stems == UNION {DOMAIN bags[i] : i \in DOMAIN bags}
             df(s) == Cardinality({i \in DOMAIN bags : s \in DOMAIN bags[i]})
             ln(x) == Ln100[x]
             heavy == ln(n + 1) + 100
             weight == [s \in stems |-> ln(Len(bags) + 1) - ln(df(s) + 1) + 100]
             count == Cardinality(stems)
             upTo(w) == Cardinality({s \in stems : weight[s] <= w})
             nth(k) == CHOOSE w \in {weight[s] : s \in stems} :
                         k <= upTo(w) /\ \A s \in stems : k <= upTo(weight[s]) => w <= weight[s]
             median == IF count = 0 THEN 100 ELSE (nth((count + 1) \div 2) + nth(count \div 2 + 1)) \div 2
             idf == buildIdf(bags)
  <1>1. DOMAIN bags = 1..n BY Zenon
  <1>2. Len(bags) = n
    <2>1. bags \in Seq({bags[i] : i \in 1..n}) /\ Len(bags) = n BY <1>1
    <2> QED BY <2>1
  <1>3. idf.weight = weight /\ idf.median = median
    <2>1. idf = [weight |-> weight, median |-> median] BY DEF buildIdf
    <2> HIDE DEF idf, weight, median
    <2> QED BY <2>1
  <1>4. IsFiniteSet(1..n) /\ Cardinality(1..n) = n BY FS_Interval
  <1>5. IsFiniteSet(stems)
    <2> DEFINE doms == {DOMAIN bags[i] : i \in 1..n}
               f == [i \in 1..n |-> DOMAIN bags[i]]
    <2>1. f \in Surjection(1..n, doms) BY DEF Surjection
    <2>2. \A T \in doms : IsFiniteSet(T) BY DEF IsBag
    <2>3. stems = UNION doms BY <1>1
    <2> HIDE DEF doms, f, stems
    <2>4. IsFiniteSet(doms) BY <1>4, <2>1, FS_Surjection
    <2> QED BY <2>2, <2>3, <2>4, FS_UNION
  <1>6. \A s : df(s) \in 0..n
    <2>1. \A s : {i \in DOMAIN bags : s \in DOMAIN bags[i]} \in SUBSET (1..n) BY <1>1
    <2>2. \A T \in SUBSET (1..n) : Cardinality(T) \in Nat /\ Cardinality(T) <= n
      BY <1>4, FS_Subset, FS_CardinalityType
    <2>3. \A s : df(s) \in Nat /\ df(s) <= n BY <2>1, <2>2
    <2> HIDE DEF df
    <2> QED BY <2>3
  <1> HIDE DEF df
  <1>7. ASSUME NEW x \in 1..(n + 1) PROVE ln(x) \in Nat /\ ln(x) <= ln(n + 1)
    <2>1. x \in DOMAIN Ln100 /\ n + 1 \in DOMAIN Ln100 /\ x <= n + 1 BY LnAssumption
    <2> QED BY <2>1, LnAssumption
  <1>8. ASSUME NEW s \in stems PROVE weight[s] \in Nat /\ weight[s] <= heavy
    <2>1. weight[s] = ln(n + 1) - ln(df(s) + 1) + 100 BY <1>2
    <2> HIDE DEF ln
    <2>2. df(s) + 1 \in 1..(n + 1) /\ n + 1 \in 1..(n + 1) BY <1>6
    <2>3. ln(df(s) + 1) \in Nat /\ ln(n + 1) \in Nat /\ ln(df(s) + 1) <= ln(n + 1) BY <1>7, <2>2
    <2> HIDE DEF weight
    <2> QED BY <2>1, <2>3
  <1>9. heavy \in Nat
    <2>1. ln(n + 1) \in Nat
      <3>1. n + 1 \in 1..(n + 1) OBVIOUS
      <3> QED BY <1>7, <3>1
    <2> HIDE DEF ln
    <2> QED BY <2>1
  <1> HIDE DEF ln, heavy
  <1>10. count \in Nat /\ (count = 0 <=> stems = {}) BY <1>5, FS_CardinalityType, FS_EmptySet
  <1>11. DOMAIN weight = stems OBVIOUS
  <1>12. ASSUME NEW k \in Nat, k <= count, stems # {} PROVE nth(k) \in Nat
    <2> HIDE DEF stems, weight
    <2> DEFINE is(w) == k <= upTo(w) /\ \A s \in stems : k <= upTo(weight[s]) => w <= weight[s]
    <2>1. \E w \in {weight[s] : s \in stems} : is(w)
      BY <1>5, <1>8, <1>9, <1>12, NthExists
    <2> HIDE DEF is
    <2>2. (CHOOSE w \in {weight[s] : s \in stems} : is(w)) \in {weight[s] : s \in stems} BY <2>1
    <2>3. nth(k) = CHOOSE w \in {weight[s] : s \in stems} : is(w) BY DEF is
    <2> HIDE DEF nth
    <2> QED BY <1>8, <2>2, <2>3
  <1> HIDE DEF stems, weight, nth, count
  <1>13. median \in Nat
    <2>1. CASE count = 0 BY <2>1
    <2>2. CASE count # 0
      <3>1. /\ (count + 1) \div 2 \in Nat /\ (count + 1) \div 2 <= count
            /\ count \div 2 + 1 \in Nat /\ count \div 2 + 1 <= count
        BY <1>10, <2>2
      <3>2. nth((count + 1) \div 2) \in Nat /\ nth(count \div 2 + 1) \in Nat
        BY <1>10, <1>12, <2>2, <3>1
      <3> QED BY <2>2, <3>2
    <2> QED BY <2>1, <2>2
  <1> HIDE DEF median, idf
  <1> QED BY <1>3, <1>8, <1>11, <1>13 DEF IsIdf, WeightOf, idf

(* The channels: each one is a percentage.                                  *)
Percentage(x) == x \in Nat /\ x <= 100

LEMMA TierIs ==
  ASSUME NEW a, NEW b, NEW v, NEW w
  PROVE  Percentage(tier(a, b, v, w))
  <1>1. tier(a, b, v, w) \in {100, 92, 75, 45, 35, 0}
    <2> DEFINE off == AbsDiff(a, b)
               top == Larger(a, b)
               same == digitsOf(a) = digitsOf(b)
               rest == IF off <= top \div 50 THEN 75
                       ELSE IF off <= top \div 10 THEN 45 ELSE IF same THEN 35 ELSE 0
               near == off <= top \div 200
               meet == off > top \div 200 /\ bandsOverlap(v, w)
    <2>1. tier(a, b, v, w) = CASE near -> 100 [] meet -> 92 [] OTHER -> rest BY DEF tier
    <2>2. rest \in {75, 45, 35, 0} OBVIOUS
    <2> HIDE DEF rest, near, meet
    <2> QED BY <2>1, <2>2
  <1> QED BY <1>1 DEF Percentage

LEMMA CompatIs ==
  ASSUME NEW A, NEW B
  PROVE  Percentage(Compat(A, B))
  <1>1. \A x, y : Percentage(x) /\ Percentage(y) => Percentage(Larger(x, y)) BY DEF Larger
  <1>2. ASSUME NEW a, NEW b PROVE Percentage(numericCompat(a, b))
    <2> DEFINE face == tier(a.value, b.value, a.band, b.band)
               less == tier(a.value, 100 * b.value, a.band, Scaled(b.band, 100))
               more == tier(100 * a.value, b.value, Scaled(a.band, 100), b.band)
               bare == "dimensionless" \in {a.dimension, b.dimension}
    <2>1. Percentage(face) /\ Percentage(less) /\ Percentage(more) BY TierIs
    <2>2. numericCompat(a, b) = IF bare THEN Larger(face, Larger(less, more)) ELSE face
      BY DEF numericCompat
    <2> HIDE DEF face, less, more, bare
    <2> QED BY <1>1, <2>1, <2>2
  <1> DEFINE S == {numericCompat(a, b) : a \in A.quantity, b \in B.quantity}
  <1>3. CASE A.quantity = {} \/ B.quantity = {} BY <1>3 DEF Compat, Percentage
  <1>4. CASE A.quantity # {} /\ B.quantity # {}
    <2>0. PICK a \in A.quantity, b \in B.quantity : TRUE BY <1>4
    <2>1. \E c \in S : TRUE
      <3>1. numericCompat(a, b) \in S OBVIOUS
      <3> QED BY <3>1
    <2>2. \A c \in S : Percentage(c) BY <1>2
    <2>3. Compat(A, B) = CHOOSE c \in S : TRUE BY <1>4 DEF Compat
    <2> HIDE DEF S
    <2> QED BY <2>1, <2>2, <2>3
  <1> QED BY <1>3, <1>4

LEMMA CosineIs ==
  ASSUME NEW a, NEW b, NEW idf, IsBag(a), IsBag(b), IsIdf(idf)
  PROVE  Percentage(cosineIdf(a, b, idf))
  <1> DEFINE x == ISqrt[Dot(a, a, idf)]
             y == ISqrt[Dot(b, b, idf)]
             d == Dot(a, b, idf)
             norms == x * y
             q == (100 * d) \div norms
  <1>1. x \in Nat /\ y \in Nat /\ d \in Nat BY DotType, SquareRoots
  <1>2. cosineIdf(a, b, idf) = IF norms = 0 THEN 0 ELSE Smaller(100, q) BY DEF cosineIdf
  <1> HIDE DEF x, y, d
  <1>3. norms \in Nat /\ 100 * d \in Nat BY <1>1
  <1> HIDE DEF norms
  <1>4. norms # 0 => q \in Nat BY <1>3, Quotient
  <1> HIDE DEF q
  <1> QED BY <1>2, <1>4 DEF Percentage, Smaller

LEMMA DiceIs ==
  ASSUME NEW A, NEW B, IsFiniteSet(A), IsFiniteSet(B)
  PROVE  Percentage(dice(A, B))
  <1> DEFINE a == Cardinality(A)
             b == Cardinality(B)
             c == Cardinality(A \cap B)
  <1>1. /\ a \in Nat /\ b \in Nat /\ c \in Nat /\ c <= a /\ c <= b
        /\ (a = 0 <=> A = {}) /\ (b = 0 <=> B = {})
    <2>1. A \cap B \in SUBSET A /\ A \cap B \in SUBSET B OBVIOUS
    <2> QED BY <2>1, FS_Subset, FS_CardinalityType, FS_EmptySet
  <1>2. dice(A, B) = IF A = {} \/ B = {} THEN 0 ELSE (200 * c) \div (a + b) BY DEF dice
  <1> HIDE DEF a, b, c
  <1>3. CASE A = {} \/ B = {} BY <1>2, <1>3 DEF Percentage
  <1>4. CASE ~(A = {} \/ B = {})
    <2> DEFINE s == a + b
               t == 200 * c
    <2>1. s \in Nat \ {0} /\ t \in Nat /\ t <= 100 * s BY <1>1, <1>4
    <2> HIDE DEF s, t
    <2>2. t \div s \in Nat BY <2>1, Quotient
    <2>3. t \div s <= 100 BY <2>1
    <2> QED BY <1>2, <1>4, <2>2, <2>3 DEF s, t, Percentage
  <1> QED BY <1>3, <1>4

LEMMA UnitSimIs ==
  ASSUME NEW A, NEW B, A \subseteq DOMAIN Stem, B \subseteq DOMAIN Stem
  PROVE  Percentage(unitSim(A, B))
  <1> DEFINE sim(a, b) == IF Stem[a] = Stem[b] THEN 100 ELSE StemDice[<<a, b>>]
             S == {sim(a, b) : a \in A, b \in B}
  <1>1. ASSUME NEW a \in A, NEW b \in B PROVE Percentage(sim(a, b))
    <2>1. StemDice[<<a, b>>] \in 0..100 BY DiceAssumption
    <2> QED BY <2>1 DEF Percentage
  <1>2. unitSim(A, B) = IF A = {} \/ B = {} THEN 0 ELSE CHOOSE s \in S : TRUE BY DEF unitSim
  <1>3. Percentage(0) BY DEF Percentage
  <1> HIDE DEF sim
  <1>4. ASSUME A # {}, B # {} PROVE \E s \in S : TRUE
    <2>1. PICK a \in A, b \in B : TRUE BY <1>4
    <2> QED BY <2>1
  <1>5. ASSUME NEW s \in S PROVE Percentage(s)
    <2>1. PICK a \in A, b \in B : s = sim(a, b) OBVIOUS
    <2> QED BY <1>1, <2>1
  <1> HIDE DEF S
  <1> QED BY <1>2, <1>3, <1>4, <1>5

LEMMA LexIs ==
  ASSUME NEW A, NEW B, IsCore(A), IsCore(B), NEW idf, IsIdf(idf)
  PROVE  Percentage(LexOf(A, B, idf))
  <1> DEFINE x == cosineIdf(Bag(A), Bag(B), idf)
             y == dice(anchorsOf(A, idf), anchorsOf(B, idf))
             z == unitSim(A.unit, B.unit)
  <1>1. Percentage(x) BY BagIs, CosineIs
  <1>2. ASSUME NEW r, IsCore(r) PROVE IsFiniteSet(anchorsOf(r, idf))
    <2> DEFINE stems == DOMAIN Bag(r)
               first(s) == CHOOSE i \in DOMAIN r.words :
                             r.words[i] = s /\ \A j \in 1..(i - 1) : r.words[j] # s
               rarer(s, t) ==
                 \/ WeightOf(idf, s) > WeightOf(idf, t)
                 \/ WeightOf(idf, s) = WeightOf(idf, t) /\ first(s) < first(t)
               rank(s) == Cardinality({t \in stems : rarer(t, s)})
               rare == {s \in stems : rank(s) < 2}
    <2>1. anchorsOf(r, idf) = r.names \cup rare BY DEF anchorsOf
    <2>2. IsFiniteSet(stems) /\ IsFiniteSet(r.names) BY <1>2, BagIs DEF IsBag, IsCore
    <2>3. rare \in SUBSET stems OBVIOUS
    <2> HIDE DEF stems, rare
    <2> QED BY <2>1, <2>2, <2>3, FS_Subset, FS_Union
  <1>3. Percentage(y) BY <1>2, DiceIs
  <1>4. Percentage(z) BY UnitSimIs DEF IsCore
  <1>5. LexOf(A, B, idf) = (62 * x + 23 * y + 15 * z) \div 100 BY DEF LexOf
  <1> HIDE DEF x, y, z
  <1> QED BY <1>1, <1>3, <1>4, <1>5 DEF Percentage

LEMMA PlaceIs ==
  ASSUME NEW k \in Nat, NEW n \in Nat, 1 <= k, k <= n
  PROVE  NormOrdinal(k, n) \in Nat
  <1>1. CASE n <= 1 BY <1>1 DEF NormOrdinal
  <1>2. CASE ~(n <= 1)
    <2>1. 100 * (k - 1) \in Nat /\ n - 1 \in Nat \ {0} BY <1>2
    <2>2. (100 * (k - 1)) \div (n - 1) \in Nat BY <2>1, Quotient
    <2> QED BY <1>2, <2>2 DEF NormOrdinal
  <1> QED BY <1>1, <1>2

LEMMA BlendedIs ==
  ASSUME NEW NUM, NEW LEX, NEW POS, Percentage(NUM), Percentage(LEX), Percentage(POS),
         NEW measurable
  PROVE  Blended(NUM, LEX, POS, measurable) \in Nat /\ Blended(NUM, LEX, POS, measurable) <= 10000
  <1> DEFINE base == 45 * NUM + 45 * LEX + 10 * POS + (IF NUM >= 80 /\ LEX >= 35 THEN 800 ELSE 0)
             drift == IF NUM < 25 /\ LEX >= 66 THEN 5000 + (4500 * (LEX - 66)) \div 34 ELSE 0
             bare == IF NUM >= 90 /\ ~measurable THEN 5000 + 8 * NUM ELSE 0
  <1>1. NUM \in Nat /\ LEX \in Nat /\ POS \in Nat BY DEF Percentage
  <1>2. base \in Nat BY <1>1
  <1>3. drift \in Nat
    <2>1. CASE NUM < 25 /\ LEX >= 66
      <3>1. 4500 * (LEX - 66) \in Nat BY <1>1, <2>1
      <3>2. (4500 * (LEX - 66)) \div 34 \in Nat BY <3>1, Quotient
      <3> QED BY <2>1, <3>2
    <2>2. CASE ~(NUM < 25 /\ LEX >= 66) BY <2>2
    <2> QED BY <2>1, <2>2
  <1>4. bare \in Nat BY <1>1
  <1>5. Blended(NUM, LEX, POS, measurable) = Smaller(10000, Larger(base, Larger(drift, bare)))
    BY DEF Blended
  <1> HIDE DEF base, drift, bare
  <1> QED BY <1>2, <1>3, <1>4, <1>5 DEF Smaller, Larger

LEMMA ScoreIs ==
  ASSUME NEW A, NEW B, IsCore(A), IsCore(B), NEW idf, IsIdf(idf), NEW distance \in Nat
  PROVE  scorePair(A, B, distance, idf) \in Nat /\ scorePair(A, B, distance, idf) <= 10000
  <1> DEFINE NUM == Compat(A, B)
             LEX == LexOf(A, B, idf)
             POS == 100 - Smaller(100, 2 * distance)
             measurable == measurableLex(A, B, idf)
             s == Blended(NUM, LEX, POS, measurable)
  <1>1. Percentage(NUM) BY CompatIs
  <1>2. Percentage(LEX) BY LexIs
  <1>3. Percentage(POS) BY DEF Percentage, Smaller
  <1>4. scorePair(A, B, distance, idf) = IF Vetoed(A, B) THEN 0 ELSE s BY DEF scorePair
  <1> HIDE DEF NUM, LEX, POS, measurable
  <1>5. s \in Nat /\ s <= 10000 BY <1>1, <1>2, <1>3, BlendedIs
  <1> HIDE DEF s
  <1> QED BY <1>4, <1>5

(* The scores of the claims and the candidates of two documents.            *)
LEMMA MatrixIs ==
  ASSUME NEW C, NEW D, IsNumbered(C), IsNumbered(D), Len(C) < Len(Ln100),
         \A x \in ToSet(C) \cup ToSet(D) : IsCore(x.core)
  PROVE  IsMatrix(Matrix(C, D), Len(C), Len(D))
  <1> DEFINE n == Len(C)
             m == Len(D)
             bags == [i \in DOMAIN C |-> Bag(C[i].core)]
             idf == buildIdf(bags)
             away(i, j) == AbsDiff(NormOrdinal(i, n), NormOrdinal(j, m))
             score(i, j) == scorePair(C[i].core, D[j].core, away(i, j), idf)
             row(i) == [j \in DOMAIN D |-> score(i, j)]
             M == [i \in DOMAIN C |-> row(i)]
  <1>1. n \in Nat /\ m \in Nat /\ DOMAIN C = 1..n /\ DOMAIN D = 1..m BY DEF IsNumbered
  <1>2. /\ \A i \in 1..n : IsCore(C[i].core)
        /\ \A j \in 1..m : IsCore(D[j].core)
    BY <1>1 DEF ToSet
  <1>3. ASSUME NEW k \in Nat, NEW f, f = [i \in 1..k |-> f[i]] PROVE Once(f) = f
    <2>1. f \in Seq({f[i] : i \in 1..k}) BY <1>3
    <2> QED BY <2>1, OnceIs
  <1> HIDE DEF n, m
  <1>4. bags = [i \in 1..n |-> bags[i]] /\ \A i \in 1..n : IsBag(bags[i])
    BY <1>1, <1>2, BagIs
  <1> HIDE DEF bags
  <1>5. Once(bags) = bags BY <1>1, <1>3, <1>4
  <1>6. IsIdf(idf)
    <2>1. n + 1 <= Len(Ln100)
      <3>1. Len(Ln100) \in Nat BY LnAssumption
      <3> QED BY <1>1, <3>1 DEF n
    <2> QED BY <1>1, <1>4, <2>1, IdfIs
  <1> HIDE DEF idf
  <1>7. ASSUME NEW i \in 1..n, NEW j \in 1..m
        PROVE  score(i, j) \in Nat /\ score(i, j) <= Full
    <2>1. NormOrdinal(i, n) \in Nat /\ NormOrdinal(j, m) \in Nat BY <1>1, PlaceIs
    <2>2. away(i, j) \in Nat BY <2>1 DEF AbsDiff
    <2> HIDE DEF away
    <2>3. score(i, j) \in Nat /\ score(i, j) <= 10000 BY <1>2, <1>6, <2>2, SMTT(30), ScoreIs
    <2> QED BY <2>3 DEF Full
  <1>8. Matrix(C, D) = Once([i \in DOMAIN C |-> Once(row(i))])
    BY <1>5 DEF Matrix, Scores, bags, idf, n, m
  <1> HIDE DEF score
  <1>9. \A i : Once(row(i)) = row(i)
    <2>1. \A i : row(i) = [j \in 1..m |-> row(i)[j]] BY <1>1
    <2> HIDE DEF row
    <2> QED BY <1>1, <1>3, <2>1
  <1>10. Matrix(C, D) = M
    <2>1. M = [i \in 1..n |-> M[i]] BY <1>1
    <2>2. Matrix(C, D) = Once(M) BY <1>8, <1>9
    <2> HIDE DEF M
    <2> QED BY <1>1, <1>3, <2>1, <2>2
  <1>11. DOMAIN M = 1..n /\ \A i \in 1..n : DOMAIN M[i] = 1..m BY <1>1
  <1>12. \A i \in 1..n, j \in 1..m : M[i][j] = score(i, j) BY <1>1
  <1> HIDE DEF M
  <1>13. \A i \in 1..n, j \in 1..m : M[i][j] \in Nat /\ M[i][j] <= Full BY <1>7, <1>12
  <1> QED BY <1>1, <1>10, <1>11, <1>13 DEF IsMatrix, n, m

-----------------------------------------------------------------------------
(* What the gate reports.                                                   *)

(* Two documents as the gate gets them.                                     *)
IsCorpora(C, D) ==
  /\ IsNumbered(C) /\ IsNumbered(D) /\ Len(C) < Len(Ln100)
  /\ \A x \in ToSet(C) : IsCore(x.core) /\ x.hop = 1 /\ x.core.quantity # {}
  /\ \A x \in ToSet(D) : IsCore(x.core) /\ x.hop = 2

LEMMA MintedCorpora ==
  ASSUME NEW doc \in Sources \cup {BundleSource}, NEW down, IsDocument(down)
  PROVE  IsCorpora(mintClaims(doc), mintCandidates(down, 2))
  <1>1. IsDocument(doc) BY DocumentAssumption
  <1> QED BY <1>1, MintedAre, CorpusAssumption DEF IsCorpora

(* The alignment that a row becomes.                                        *)
FragsOf(M, R, m, i) == {k \in Supporting(M, R, m) : i \in bestClaimFor(M, k)}

Becomes(a, M, R, m, r) ==
  /\ a.claimId = r.claim /\ a.cid = r.cand /\ a.hop = 2
  /\ a.score = r.score /\ a.margin = r.margin /\ a.decision = r.decision
  /\ \A u \in a.runnerUp : \E k \in r.runnerUp : u.score = M[k][r.cand]
  /\ a.supporting = IF r.decision = "matched" THEN FragsOf(M, R, m, r.claim) ELSE {}

LEMMA ReportIs ==
  ASSUME NEW C, NEW D, IsCorpora(C, D)
  PROVE  LET n == Len(C)
             m == Len(D)
             M == Matrix(C, D)
             R == Walk(M)
             report == align(C, D)
         IN  /\ IsMatrix(M, n, m) /\ WalkInv(M, n, m, Pairs(M), R)
             /\ \A a \in report.alignments : \E r \in R : Becomes(a, M, R, m, r)
             /\ \A r \in R : \E a \in report.alignments : Becomes(a, M, R, m, r)
             /\ \A a, b \in report.alignments : a.cid = b.cid => a = b
             /\ report = Reported(C, D, M, R)
  <1> DEFINE n == Len(C)
             m == Len(D)
             M == Matrix(C, D)
             R == Walk(M)
             report == align(C, D)
             frags == Supporting(M, R, m)
             fragsOf(i) == {D[j].id : j \in {k \in frags : i \in bestClaimFor(M, k)}}
             names(r) == {[claimId |-> C[k].id, score |-> M[k][r.cand]] : k \in r.runnerUp}
             name(r) == [claimId |-> C[r.claim].id, cid |-> D[r.cand].id, hop |-> D[r.cand].hop,
                         score |-> r.score, margin |-> r.margin, decision |-> r.decision,
                         runnerUp |-> names(r),
                         supporting |-> IF r.decision = "matched" THEN fragsOf(r.claim) ELSE {}]
  <1>1. /\ n \in Nat /\ m \in Nat /\ DOMAIN C = 1..n /\ DOMAIN D = 1..m
        /\ \A i \in 1..n : C[i].id = i
        /\ \A j \in 1..m : D[j].id = j
    BY DEF IsCorpora, IsNumbered
  <1>2. \A j \in 1..m : D[j].hop = 2 BY <1>1 DEF IsCorpora, ToSet
  <1>3. IsMatrix(M, n, m) BY MatrixIs DEF IsCorpora
  <1>4. WalkInv(M, n, m, Pairs(M), R)
    <2> HIDE DEF M, n, m
    <2> QED BY <1>3, WalkLeaves
  <1>5. report = Reported(C, D, M, R) BY CanonicalIs DEF align, IsCorpora
  <1> HIDE DEF M, R
  <1>6. report.alignments = {name(r) : r \in R} BY <1>5 DEF Reported
  <1> HIDE DEF report
  <1>7. \A r \in R : r.claim \in 1..n /\ r.cand \in 1..m BY <1>4 DEF WalkInv, RowsAre
  <1>8. ASSUME NEW i PROVE fragsOf(i) = FragsOf(M, R, m, i)
    <2>1. frags \subseteq 1..m BY DEF Supporting
    <2>2. FragsOf(M, R, m, i) = {k \in frags : i \in bestClaimFor(M, k)} BY DEF FragsOf
    <2> HIDE DEF frags
    <2>3. \A j \in {k \in frags : i \in bestClaimFor(M, k)} : D[j].id = j BY <1>1, <2>1
    <2> QED BY <2>2, <2>3
  <1> HIDE DEF frags, fragsOf
  <1>9. ASSUME NEW r \in R PROVE Becomes(name(r), M, R, m, r)
    <2>1. /\ name(r).claimId = r.claim /\ name(r).cid = r.cand /\ name(r).hop = 2
          /\ name(r).score = r.score /\ name(r).margin = r.margin /\ name(r).decision = r.decision
      BY <1>1, <1>2, <1>7
    <2>2. \A u \in names(r) : \E k \in r.runnerUp : u.score = M[k][r.cand] OBVIOUS
    <2>3. name(r).runnerUp = names(r) OBVIOUS
    <2>4. name(r).supporting = IF r.decision = "matched" THEN fragsOf(r.claim) ELSE {} OBVIOUS
    <2> HIDE DEF name, names
    <2> QED BY <1>8, <2>1, <2>2, <2>3, <2>4 DEF Becomes
  <1>10. \A r \in R : name(r) \in report.alignments BY <1>6
  <1>11. \A a \in report.alignments : \E r \in R : a = name(r) BY <1>6
  <1> HIDE DEF name, names
  <1>12. ASSUME NEW a \in report.alignments, NEW b \in report.alignments, a.cid = b.cid
         PROVE  a = b
    <2>1. PICK r \in R, s \in R : a = name(r) /\ b = name(s) BY <1>11
    <2>2. r.cand = s.cand BY <1>9, <1>12, <2>1 DEF Becomes
    <2>3. r = s BY <1>4, <2>2 DEF WalkInv, OneRowEach
    <2> QED BY <2>1, <2>3
  <1>13. \A a \in report.alignments : \E r \in R : Becomes(a, M, R, m, r) BY <1>9, <1>11
  <1>14. \A r \in R : \E a \in report.alignments : Becomes(a, M, R, m, r) BY <1>9, <1>10
  <1> QED BY <1>3, <1>4, <1>5, <1>12, <1>13, <1>14 DEF M, R, report

(* align.js:12-16: for any claims and candidates, no claim that stayed free *)
(* came within MARGIN of a matched one, and a claim that did is held by a   *)
(* candidate that suits it as well.                                         *)
THEOREM GateDoesNotGuess ==
  ASSUME NEW C, NEW D, IsCorpora(C, D)
  PROVE  Unguessed({a \in align(C, D).alignments : a.decision = "matched"}, Matrix(C, D))
  <1> DEFINE n == Len(C)
             m == Len(D)
             M == Matrix(C, D)
             R == Walk(M)
             A == align(C, D).alignments
             matched == {a \in A : a.decision = "matched"}
             held == {a.claimId : a \in matched}
  <1>1. /\ IsMatrix(M, n, m) /\ WalkInv(M, n, m, Pairs(M), R)
        /\ \A a \in A : \E r \in R : Becomes(a, M, R, m, r)
        /\ \A r \in R : \E a \in A : Becomes(a, M, R, m, r)
    BY ReportIs
  <1> HIDE DEF n, m, M, R, A
  <1>2. \A a \in matched : \E r \in Matched(R) : Becomes(a, M, R, m, r)
    BY <1>1 DEF Matched, Becomes
  <1>3. \A r \in Matched(R) : \E a \in matched : Becomes(a, M, R, m, r)
    BY <1>1 DEF Matched, Becomes
  <1> HIDE DEF matched
  <1>4. \A k : k \in ClaimUsed(R) => k \in held
    <2>1. \A k : k \in ClaimUsed(R) => \E r \in Matched(R) : r.claim = k BY DEF ClaimUsed
    <2> QED BY <1>3, <2>1 DEF Becomes
  <1> HIDE DEF held
  <1>5. DOMAIN M = 1..n BY <1>1 DEF IsMatrix
  <1>6. Matched(R) \subseteq R BY DEF Matched
  <1>7. ASSUME NEW a \in matched
        PROVE  /\ a.score = M[a.claimId][a.cid] /\ a.score >= ACCEPT
               /\ \A k \in DOMAIN M \ {a.claimId} :
                    \/ M[a.claimId][a.cid] - M[k][a.cid] >= MARGIN
                    \/ \E h \in matched : h.claimId = k /\ h.score >= M[k][a.cid]
               /\ \A k \in DOMAIN M \ held : M[a.claimId][a.cid] - M[k][a.cid] >= MARGIN
    <2>1. PICK r \in Matched(R) : Becomes(a, M, R, m, r) BY <1>2
    <2>2. a.claimId = r.claim /\ a.cid = r.cand /\ a.score = r.score BY <2>1 DEF Becomes
    <2>3. r.score = M[r.claim][r.cand] /\ <<r.claim, r.cand>> \in Pairs(M)
      BY <1>1, <1>6 DEF WalkInv, RowsAre
    <2>4. M[r.claim][r.cand] >= ACCEPT BY <2>3, <1>1, PairsAre
    <2>5. ASSUME NEW k \in 1..n, k # r.claim
          PROVE  \/ r.score - M[k][r.cand] >= MARGIN
                 \/ \E h \in matched : h.claimId = k /\ h.score >= M[k][r.cand]
      <3>1. r.score - M[k][r.cand] >= MARGIN \/ HeldFor(R, k, M[k][r.cand])
        BY <1>1, <2>5 DEF WalkInv, Leads
      <3>2. CASE HeldFor(R, k, M[k][r.cand])
        <4>1. PICK h \in Matched(R) : h.claim = k /\ h.score >= M[k][r.cand] BY <3>2 DEF HeldFor
        <4>2. PICK b \in matched : Becomes(b, M, R, m, h) BY <1>3
        <4> QED BY <4>1, <4>2 DEF Becomes
      <3> QED BY <3>1, <3>2
    <2>6. ASSUME NEW k \in 1..n, k \notin held PROVE r.score - M[k][r.cand] >= MARGIN
      <3>1. k \notin ClaimUsed(R) BY <1>4, <2>6
      <3>2. r.claim \in ClaimUsed(R) BY DEF ClaimUsed
      <3> QED BY <1>1, <2>6, <3>1, <3>2 DEF WalkInv, Leads
    <2> QED BY <1>5, <2>2, <2>3, <2>4, <2>5, <2>6
  <1>8. Unguessed(matched, M) BY <1>7 DEF Unguessed, held
  <1> QED BY <1>8 DEF matched, A, M

(* align.js:12-16, whatever the documents say.                              *)
THEOREM NothingIsGuessed == Spec => []NothingGuessed
<1>1. RegistryInv => NothingGuessed
  <2> SUFFICES ASSUME RegistryInv, NEW g \in result, NEW doc \in hopDoc
               PROVE  Unguessed({a \in g.report.alignments : a.decision = "matched"},
                                Matrix(claims, CandidatesOf(doc)))
    BY DEF NothingGuessed
  <2>1. PICK d \in Downstreams \cup {source} :
          hopDoc = {d} /\ result = {gate(claims, CandidatesOf(d), 2)}
    BY DEF RegistryInv
  <2>2. doc = d /\ g = gate(claims, CandidatesOf(doc), 2) BY <2>1
  <2>3. IsDocument(doc) BY <2>1, <2>2, SourceIsDocument, DocumentAssumption
  <2>4. IsCorpora(claims, CandidatesOf(doc))
    BY <2>3, MintedCorpora DEF CandidatesOf, RegistryInv
  <2>5. g.report = align(claims, CandidatesOf(doc)) BY <2>2 DEF gate
  <2> QED BY <2>4, <2>5, GateDoesNotGuess
<1> QED
  BY <1>1, AlwaysRegistry, PTL

LEMMA OneElement ==
  ASSUME NEW S, NEW x, S = {x}
  PROVE  Cardinality(S) = 1
BY FS_Singleton

(* Every alignment gets one verdict, and no delta it lists is refused.      *)
Judged(C, D, a) ==
  /\ \E v : VerdictsOn(C, D, a) = {v}
  /\ \A v \in VerdictsOn(C, D, a) :
       /\ v.claimId = a.claimId /\ v.cid = a.cid
       /\ \A d \in ToSet(v.deltas) : makeDeltaAccepts(d)
       /\ a.decision = "ambiguous" => v.deltas = <<>>
  /\ findById(C, a.claimId) # {} /\ findById(D, a.cid) # {}

LEMMA OneVerdictEach ==
  ASSUME NEW C, NEW D, IsCorpora(C, D), NEW a, a.claimId \in 1..Len(C), a.cid \in 1..Len(D)
  PROVE  Judged(C, D, a)
  <1> DEFINE i == a.claimId
             j == a.cid
             compared(deltas) == VerdictFor(a, deltas, FailClass(deltas))
             same == diffClaim(C[i].core, D[j].core)
  <1>1. /\ DOMAIN C = 1..Len(C) /\ DOMAIN D = 1..Len(D)
        /\ \A k \in 1..Len(C) : C[k].id = k
        /\ \A k \in 1..Len(D) : D[k].id = k
    BY DEF IsCorpora, IsNumbered
  <1>2. findById(C, i) = {C[i]}
    <2>1. findById(C, i) = {x \in ToSet(C) : x.id = i} BY FoundIs DEF IsCorpora
    <2> QED BY <1>1, <2>1 DEF ToSet
  <1>3. findById(D, j) = {D[j]}
    <2>1. findById(D, j) = {x \in ToSet(D) : x.id = j} BY FoundIs DEF IsCorpora
    <2> QED BY <1>1, <2>1 DEF ToSet
  <1>4. IsCore(C[i].core) /\ IsCore(D[j].core) BY <1>1 DEF IsCorpora, ToSet
  <1>5. CASE a.decision = "ambiguous"
    <2> DEFINE v == VerdictFor(a, <<>>, {"ambiguous_alignment"})
    <2>1. VerdictsOn(C, D, a) = {v} BY <1>5 DEF VerdictsOn
    <2>2. v.claimId = i /\ v.cid = j /\ v.deltas = <<>> BY DEF VerdictFor
    <2>3. ToSet(<<>>) = {} BY DEF ToSet
    <2> HIDE DEF v
    <2> QED BY <1>2, <1>3, <2>1, <2>2, <2>3 DEF Judged
  <1>6. CASE a.decision # "ambiguous"
    <2> DEFINE v == compared(same)
    <2>1. VerdictsOn(C, D, a)
            = {compared(diffClaim(c.core, d.core)) : c \in findById(C, i), d \in findById(D, j)}
      BY <1>6 DEF VerdictsOn
    <2>2. v.claimId = i /\ v.cid = j /\ v.deltas = same BY DEF VerdictFor
    <2>3. \A d \in ToSet(same) : makeDeltaAccepts(d) BY <1>4, DeltasOfClaim DEF IsDeltas
    <2> HIDE DEF compared
    <2>4. VerdictsOn(C, D, a) = {v} BY <1>2, <1>3, <2>1
    <2> HIDE DEF v, same
    <2> QED BY <1>2, <1>3, <1>6, <2>2, <2>3, <2>4 DEF Judged
  <1> QED BY <1>5, <1>6

(* No constructor refuses what align, diff and gate build.                  *)
LEMMA NoneThrows ==
  ASSUME NEW C, NEW D, IsCorpora(C, D)
  PROVE  /\ ~gate(C, D, 2).threw
         /\ \A c \in ToSet(C) : makeClaimAccepts(c)
         /\ \A d \in ToSet(D) : makeCandidateAccepts(d)
         /\ \A a \in align(C, D).alignments :
              Cardinality({v \in gate(C, D, 2).verdicts :
                             v.claimId = a.claimId /\ v.cid = a.cid}) = 1
  <1> DEFINE n == Len(C)
             m == Len(D)
             M == Matrix(C, D)
             R == Walk(M)
             report == align(C, D)
             verdicts == UNION {VerdictsOn(C, D, a) : a \in report.alignments}
  <1>1. /\ IsMatrix(M, n, m) /\ WalkInv(M, n, m, Pairs(M), R)
        /\ \A a \in report.alignments : \E r \in R : Becomes(a, M, R, m, r)
        /\ \A a, b \in report.alignments : a.cid = b.cid => a = b
        /\ report = Reported(C, D, M, R)
    BY ReportIs
  <1>2. /\ gate(C, D, 2).threw = Throws(C, D, 2, report, verdicts)
        /\ gate(C, D, 2).verdicts = verdicts
    BY DEF gate
  <1>3. n \in Nat /\ m \in Nat BY DEF IsCorpora, IsNumbered
  <1> HIDE DEF n, m, M, R, report
  <1>4. ASSUME NEW a \in report.alignments
        PROVE  /\ a.claimId \in 1..n /\ a.cid \in 1..m /\ makeAlignmentAccepts(a)
               /\ a.decision \in {"matched", "ambiguous"}
    <2>1. PICK r \in R : Becomes(a, M, R, m, r) BY <1>1
    <2>2. /\ r.claim \in 1..n /\ r.cand \in 1..m /\ r.score = M[r.claim][r.cand]
          /\ r.decision \in {"matched", "ambiguous"} /\ r.margin \in Nat
          /\ \A k \in r.runnerUp : k \in 1..n /\ M[k][r.cand] <= r.score
      BY <1>1 DEF WalkInv, RowsAre
    <2>3. /\ a.claimId = r.claim /\ a.cid = r.cand /\ a.score = r.score /\ a.margin = r.margin
          /\ a.decision = r.decision
          /\ \A u \in a.runnerUp : \E k \in r.runnerUp : u.score = M[k][r.cand]
      BY <2>1 DEF Becomes
    <2>4. \A k \in 1..n : M[k][r.cand] \in Nat /\ M[k][r.cand] <= Full BY <1>1, <2>2 DEF IsMatrix
    <2>5. a.score \in Nat /\ a.score <= Full BY <2>2, <2>3, <2>4
    <2>6. ASSUME NEW u \in a.runnerUp PROVE u.score \in Nat /\ u.score <= Full /\ u.score <= a.score
      <3>1. PICK k \in r.runnerUp : u.score = M[k][r.cand] BY <2>3
      <3>2. k \in 1..n BY <2>2
      <3> QED BY <2>2, <2>3, <2>4, <3>1, <3>2
    <2>7. a.margin >= 0 BY <2>2, <2>3
    <2>8. a.decision \in {"matched", "ambiguous"} BY <2>2, <2>3
    <2>9. makeAlignmentAccepts(a) BY <2>5, <2>6, <2>7, <2>8 DEF makeAlignmentAccepts, Full
    <2> QED BY <2>2, <2>3, <2>8, <2>9
  <1>5. ASSUME NEW a \in report.alignments PROVE Judged(C, D, a)
    <2>1. a.claimId \in 1..Len(C) /\ a.cid \in 1..Len(D) BY <1>4 DEF n, m
    <2> QED BY <2>1, OneVerdictEach
  <1>6. \A v \in verdicts : \E a \in report.alignments : v \in VerdictsOn(C, D, a) OBVIOUS
  <1>7. \A a \in report.alignments : VerdictsOn(C, D, a) \subseteq verdicts OBVIOUS
  <1> HIDE DEF verdicts
  <1>8. ASSUME NEW v \in verdicts, NEW a \in report.alignments, v.claimId = a.claimId, v.cid = a.cid
        PROVE  v \in VerdictsOn(C, D, a)
    <2>1. PICK b \in report.alignments : v \in VerdictsOn(C, D, b) BY <1>6
    <2>2. v.cid = b.cid BY <1>5, <2>1 DEF Judged
    <2> QED BY <1>1, <1>8, <2>1, <2>2
  <1>9. ASSUME NEW a \in report.alignments
        PROVE  Cardinality({v \in verdicts : v.claimId = a.claimId /\ v.cid = a.cid}) = 1
    <2>1. PICK v : VerdictsOn(C, D, a) = {v} BY <1>5 DEF Judged
    <2>2. {w \in verdicts : w.claimId = a.claimId /\ w.cid = a.cid} = {v}
      BY <1>5, <1>7, <1>8, <2>1 DEF Judged
    <2> QED BY <2>2, OneElement
  <1>10. makeReportAccepts(report, verdicts)
    <2>1. ASSUME NEW u \in report.unaligned PROVE u.reason \in UNALIGNED_REASONS
      <3>1. \E j : u.reason = UnalignedReason(M, D, j) BY <1>1 DEF Reported
      <3> QED BY <3>1 DEF UnalignedReason, UNALIGNED_REASONS
    <2>2. ASSUME NEW u \in report.dropped PROVE u.reason \in DROPPED_CLAIM_REASONS
      <3>1. \E i : u.reason = DroppedReason(M, D, R, i) BY <1>1 DEF Reported
      <3> QED BY <3>1 DEF DroppedReason, DROPPED_CLAIM_REASONS
    <2>3. ASSUME NEW a \in report.alignments, NEW v \in verdicts,
                 a.decision = "ambiguous", v.claimId = a.claimId, v.cid = a.cid
          PROVE  v.deltas = <<>>
      BY <1>5, <1>8, <2>3 DEF Judged
    <2> QED BY <2>1, <2>2, <2>3 DEF makeReportAccepts
  <1>11. ~Throws(C, D, 2, report, verdicts)
    <2>1. \A c \in ToSet(D) : c.hop = 2 BY DEF IsCorpora
    <2>2. \A a \in report.alignments : makeAlignmentAccepts(a) BY <1>4
    <2>3. \A a \in report.alignments : findById(C, a.claimId) # {} /\ findById(D, a.cid) # {}
      BY <1>5 DEF Judged
    <2>4. \A v \in verdicts : \A d \in ToSet(v.deltas) : makeDeltaAccepts(d)
      BY <1>5, <1>6 DEF Judged
    <2> QED BY <1>10, <2>1, <2>2, <2>3, <2>4 DEF Throws
  <1>12. \A c \in ToSet(C) : makeClaimAccepts(c) BY DEF IsCorpora, IsCore, makeClaimAccepts
  <1>13. \A d \in ToSet(D) : makeCandidateAccepts(d) BY DEF IsCorpora, IsCore, makeCandidateAccepts
  <1> QED BY <1>2, <1>9, <1>11, <1>12, <1>13 DEF report

LEMMA NoElement == Cardinality({}) = 0
BY FS_EmptySet

(* A candidate leaves align once: aligned, attached to a claim, or left     *)
(* with a reason.                                                           *)
LEMMA LeavesOnce ==
  ASSUME NEW C, NEW D, IsCorpora(C, D), NEW j \in 1..Len(D)
  PROVE  LET report == align(C, D)
         IN  Cardinality({a \in report.alignments : a.cid = j})
               + Cardinality({a \in report.alignments : j \in a.supporting})
               + Cardinality({u \in report.unaligned : u.cid = j}) = 1
  <1> DEFINE n == Len(C)
             m == Len(D)
             M == Matrix(C, D)
             R == Walk(M)
             report == align(C, D)
             aligned == {a \in report.alignments : a.cid = j}
             attached == {a \in report.alignments : j \in a.supporting}
             listed == {u \in report.unaligned : u.cid = j}
             frags == Supporting(M, R, m)
             left == DOMAIN D \ (CandUsed(R) \cup frags)
             entry(k) == [cid |-> D[k].id, reason |-> UnalignedReason(M, D, k)]
  <1>1. /\ IsMatrix(M, n, m) /\ WalkInv(M, n, m, Pairs(M), R)
        /\ \A a \in report.alignments : \E r \in R : Becomes(a, M, R, m, r)
        /\ \A r \in R : \E a \in report.alignments : Becomes(a, M, R, m, r)
        /\ \A a, b \in report.alignments : a.cid = b.cid => a = b
        /\ report = Reported(C, D, M, R)
    BY ReportIs
  <1>2. /\ n \in Nat /\ m \in Nat /\ DOMAIN D = 1..m /\ \A k \in 1..m : D[k].id = k
        /\ j \in 1..m
    BY DEF IsCorpora, IsNumbered
  <1>3. report.unaligned = {entry(k) : k \in left} BY <1>1 DEF Reported
  <1> HIDE DEF n, m, M, R, report
  <1>4. frags \subseteq 1..m \ CandUsed(R) BY DEF Supporting
  <1>5. left = 1..m \ (CandUsed(R) \cup frags) BY <1>2
  <1>6. \A k \in left : entry(k).cid = k BY <1>2, <1>5
  <1>7. IF j \in left THEN listed = {entry(j)} ELSE listed = {}
    <2> HIDE DEF entry, left
    <2> QED BY <1>3, <1>6
  <1> HIDE DEF listed, left, entry
  <1>8. IF j \in CandUsed(R) THEN \E a : aligned = {a} ELSE aligned = {}
    <2>1. CASE j \in CandUsed(R)
      <3>1. PICK r \in R : r.cand = j BY <2>1 DEF CandUsed
      <3>2. PICK a \in report.alignments : a.cid = j BY <1>1, <3>1 DEF Becomes
      <3>3. aligned = {a} BY <1>1, <3>2
      <3> QED BY <2>1, <3>3
    <2>2. CASE j \notin CandUsed(R)
      <3>1. \A a \in report.alignments : a.cid # j BY <1>1, <2>2 DEF Becomes, CandUsed
      <3> QED BY <2>2, <3>1
    <2> QED BY <2>1, <2>2
  <1>9. IF j \in frags THEN \E a : attached = {a} ELSE attached = {}
    <2> DEFINE under(i) == {k \in frags : i \in bestClaimFor(M, k)}
    <2>1. \A i : FragsOf(M, R, m, i) = under(i) BY DEF FragsOf
    <2>2. ASSUME NEW a \in report.alignments, NEW r \in R, Becomes(a, M, R, m, r)
          PROVE  j \in a.supporting <=>
                   r.decision = "matched" /\ j \in frags /\ r.claim \in bestClaimFor(M, j)
      <3>1. a.supporting = IF r.decision = "matched" THEN under(r.claim) ELSE {}
        BY <2>1, <2>2 DEF Becomes
      <3>2. j \in under(r.claim) <=> j \in frags /\ r.claim \in bestClaimFor(M, j) OBVIOUS
      <3> HIDE DEF under
      <3> QED BY <3>1, <3>2
    <2>3. CASE j \notin frags
      <3>1. \A a \in report.alignments : j \notin a.supporting BY <1>1, <2>2, <2>3
      <3> QED BY <2>3, <3>1
    <2>4. CASE j \in frags
      <3>1. PICK i \in bestClaimFor(M, j) : i \in ClaimUsed(R) BY <2>4 DEF Supporting
      <3>2. PICK r \in Matched(R) : r.claim = i BY <3>1 DEF ClaimUsed
      <3>3. r \in R /\ r.decision = "matched" BY <3>2 DEF Matched
      <3>4. PICK a \in report.alignments : Becomes(a, M, R, m, r) BY <1>1, <3>3
      <3>5. a \in attached BY <2>2, <2>4, <3>1, <3>2, <3>3, <3>4
      <3>6. ASSUME NEW b \in attached PROVE b = a
        <4>1. b \in report.alignments /\ j \in b.supporting OBVIOUS
        <4>2. PICK s \in R : Becomes(b, M, R, m, s) BY <1>1, <4>1
        <4>3. s.decision = "matched" /\ s.claim \in bestClaimFor(M, j) BY <2>2, <4>1, <4>2
        <4>4. s.claim = i
          <5>1. \A x, y \in bestClaimFor(M, j) : x = y
            <6>1. DOMAIN M = 1..n BY <1>1 DEF IsMatrix
            <6>2. DOMAIN M \in SUBSET (1..n) BY <6>1
            <6> QED BY <1>1, <1>2, <6>2, BestExists DEF bestClaimFor
          <5> QED BY <3>1, <4>3, <5>1
        <4>5. s \in Matched(R) BY <4>3 DEF Matched
        <4>6. s = r BY <1>1, <3>2, <4>4, <4>5 DEF WalkInv, OneRowEach
        <4>7. a.cid = b.cid BY <3>4, <4>2, <4>6 DEF Becomes
        <4> QED BY <1>1, <4>1, <4>7
      <3> HIDE DEF attached
      <3>7. attached = {a} BY <3>5, <3>6
      <3> QED BY <2>4, <3>7
    <2> QED BY <2>3, <2>4
  <1> HIDE DEF aligned, attached, frags
  <1> DEFINE x == Cardinality(aligned)
             y == Cardinality(attached)
             z == Cardinality(listed)
  <1>10. x = IF j \in CandUsed(R) THEN 1 ELSE 0 BY <1>8, OneElement, NoElement
  <1>11. y = IF j \in frags THEN 1 ELSE 0 BY <1>9, OneElement, NoElement
  <1>12. z = IF j \in left THEN 1 ELSE 0 BY <1>7, OneElement, NoElement
  <1> HIDE DEF x, y, z
  <1>13. x + y + z = 1 BY <1>2, <1>4, <1>5, <1>10, <1>11, <1>12
  <1> QED BY <1>13 DEF x, y, z, aligned, attached, listed, report

(* A claim is matched once or dropped.                                      *)
LEMMA MatchedOrDropped ==
  ASSUME NEW C, NEW D, IsCorpora(C, D), NEW i \in 1..Len(C)
  PROVE  LET report == align(C, D)
             matched == {a \in report.alignments : a.decision = "matched"}
         IN  Cardinality({a \in matched : a.claimId = i})
               + Cardinality({d \in report.dropped : d.claimId = i}) = 1
  <1> DEFINE n == Len(C)
             m == Len(D)
             M == Matrix(C, D)
             R == Walk(M)
             report == align(C, D)
             matched == {a \in report.alignments : a.decision = "matched"}
             kept == {a \in matched : a.claimId = i}
             gone == {d \in report.dropped : d.claimId = i}
             lost == DOMAIN C \ ClaimUsed(R)
             entry(k) == [claimId |-> C[k].id, reason |-> DroppedReason(M, D, R, k)]
  <1>1. /\ WalkInv(M, n, m, Pairs(M), R)
        /\ \A a \in report.alignments : \E r \in R : Becomes(a, M, R, m, r)
        /\ \A r \in R : \E a \in report.alignments : Becomes(a, M, R, m, r)
        /\ \A a, b \in report.alignments : a.cid = b.cid => a = b
        /\ report = Reported(C, D, M, R)
    BY ReportIs
  <1>2. DOMAIN C = 1..n /\ (\A k \in 1..n : C[k].id = k) /\ i \in 1..n
    BY DEF IsCorpora, IsNumbered
  <1>3. report.dropped = {entry(k) : k \in lost} BY <1>1 DEF Reported
  <1> HIDE DEF n, m, M, R, report
  <1>4. lost = 1..n \ ClaimUsed(R) BY <1>2
  <1>5. \A k \in lost : entry(k).claimId = k BY <1>2, <1>4
  <1>6. IF i \in lost THEN gone = {entry(i)} ELSE gone = {}
    <2> HIDE DEF entry, lost
    <2> QED BY <1>3, <1>5
  <1> HIDE DEF gone, lost, entry
  <1>7. IF i \in ClaimUsed(R) THEN \E a : kept = {a} ELSE kept = {}
    <2>1. CASE i \in ClaimUsed(R)
      <3>1. PICK r \in Matched(R) : r.claim = i BY <2>1 DEF ClaimUsed
      <3>2. r \in R /\ r.decision = "matched" BY <3>1 DEF Matched
      <3>3. PICK a \in report.alignments : Becomes(a, M, R, m, r) BY <1>1, <3>2
      <3>4. a \in kept BY <3>1, <3>2, <3>3 DEF Becomes
      <3>5. ASSUME NEW b \in kept PROVE b = a
        <4>1. b \in report.alignments /\ b.decision = "matched" /\ b.claimId = i OBVIOUS
        <4>2. PICK s \in R : Becomes(b, M, R, m, s) BY <1>1, <4>1
        <4>3. s \in Matched(R) /\ s.claim = i BY <4>1, <4>2 DEF Becomes, Matched
        <4>4. s = r BY <1>1, <3>1, <4>3 DEF WalkInv, OneRowEach
        <4>5. a.cid = b.cid BY <3>3, <4>2, <4>4 DEF Becomes
        <4> QED BY <1>1, <4>1, <4>5
      <3> HIDE DEF kept
      <3>6. kept = {a} BY <3>4, <3>5
      <3> QED BY <2>1, <3>6
    <2>2. CASE i \notin ClaimUsed(R)
      <3>1. ASSUME NEW b \in kept PROVE FALSE
        <4>1. b \in report.alignments /\ b.decision = "matched" /\ b.claimId = i OBVIOUS
        <4>2. PICK s \in R : Becomes(b, M, R, m, s) BY <1>1, <4>1
        <4>3. s \in Matched(R) /\ s.claim = i BY <4>1, <4>2 DEF Becomes, Matched
        <4> QED BY <2>2, <4>3 DEF ClaimUsed
      <3> HIDE DEF kept
      <3> QED BY <2>2, <3>1
    <2> QED BY <2>1, <2>2
  <1> HIDE DEF kept
  <1> DEFINE x == Cardinality(kept)
             y == Cardinality(gone)
  <1>8. x = IF i \in ClaimUsed(R) THEN 1 ELSE 0 BY <1>7, OneElement, NoElement
  <1>9. y = IF i \in lost THEN 1 ELSE 0 BY <1>6, OneElement, NoElement
  <1> HIDE DEF x, y
  <1>10. x + y = 1 BY <1>2, <1>4, <1>8, <1>9
  <1> QED BY <1>10 DEF x, y, kept, gone, report

(* The reason a candidate is left with is true.                             *)
LEMMA ReasonsAreTrue ==
  ASSUME NEW C, NEW D, IsCorpora(C, D), NEW u \in align(C, D).unaligned
  PROVE  /\ \A d \in ToSet(D) :
              d.id = u.cid => (u.reason = "no_quantity" <=> d.core.quantity = {})
         /\ u.reason = "claim_exhausted" =>
              {a \in align(C, D).alignments : a.decision = "matched"} # {}
  <1> DEFINE n == Len(C)
             m == Len(D)
             M == Matrix(C, D)
             R == Walk(M)
             report == align(C, D)
             left == DOMAIN D \ (CandUsed(R) \cup Supporting(M, R, m))
  <1>1. /\ IsMatrix(M, n, m) /\ WalkInv(M, n, m, Pairs(M), R)
        /\ \A r \in R : \E a \in report.alignments : Becomes(a, M, R, m, r)
        /\ report = Reported(C, D, M, R)
    BY ReportIs
  <1>2. n \in Nat /\ m \in Nat /\ DOMAIN D = 1..m /\ \A k \in 1..m : D[k].id = k
    BY DEF IsCorpora, IsNumbered
  <1>3. report.unaligned = {[cid |-> D[k].id, reason |-> UnalignedReason(M, D, k)] : k \in left}
    BY <1>1 DEF Reported
  <1> HIDE DEF report
  <1>4. PICK k \in left : u = [cid |-> D[k].id, reason |-> UnalignedReason(M, D, k)]
    BY <1>3 DEF report
  <1>5. k \in 1..m /\ k \notin CandUsed(R) BY <1>2
  <1> HIDE DEF left, n, m, M, R
  <1>6. u.cid = k /\ u.reason = UnalignedReason(M, D, k) BY <1>2, <1>4, <1>5
  <1>7. u.reason = "no_quantity" <=> D[k].core.quantity = {}
    BY <1>6 DEF UnalignedReason
  <1>8. \A d \in ToSet(D) : d.id = u.cid => d = D[k] BY <1>2, <1>6 DEF ToSet
  <1>9. ASSUME u.reason = "claim_exhausted"
        PROVE  \E a \in report.alignments : a.decision = "matched"
    <2>1. ~\A i \in bestClaimFor(M, k) : M[i][k] < ACCEPT BY <1>6, <1>9 DEF UnalignedReason
    <2>2. PICK i \in bestClaimFor(M, k) : ~(M[i][k] < ACCEPT) BY <2>1
    <2>3. i \in 1..n /\ M[i][k] \in Nat
      BY <1>1, <1>5, <2>2 DEF bestClaimFor, BestClaim, IsMatrix
    <2>4. M[i][k] >= ACCEPT BY <2>2, <2>3 DEF ACCEPT
    <2>5. <<i, k>> \in Pairs(M) BY <1>1, <1>5, <2>3, <2>4, PairsAre
    <2>6. HeldFor(R, i, M[i][k]) BY <1>1, <1>5, <2>3, <2>5 DEF WalkInv, Decided
    <2>7. PICK r \in Matched(R) : TRUE BY <2>6 DEF HeldFor
    <2>8. r \in R /\ r.decision = "matched" BY <2>7 DEF Matched
    <2> QED BY <1>1, <2>8 DEF Becomes
  <1> QED BY <1>7, <1>8, <1>9 DEF report

(* align.js:17-20, contract.js decision 4: for any claims and candidates,   *)
(* the gate does not throw, accounts for each of them once, and gives a     *)
(* true reason for each candidate it leaves unaligned.                      *)
THEOREM GateGivesReceipts ==
  ASSUME NEW C, NEW D, IsCorpora(C, D)
  PROVE  Received(gate(C, D, 2), C, D)
  <1> DEFINE g == gate(C, D, 2)
             matched(r) == {a \in r.alignments : a.decision = "matched"}
             ways(r, j) == Cardinality({a \in r.alignments : a.cid = j})
                             + Cardinality({a \in r.alignments : j \in a.supporting})
                             + Cardinality({u \in r.unaligned : u.cid = j})
             ends(r, i) == Cardinality({a \in matched(r) : a.claimId = i})
                             + Cardinality({d \in r.dropped : d.claimId = i})
             true(r, u) == /\ \A d \in ToSet(D) :
                                d.id = u.cid => (u.reason = "no_quantity" <=> d.core.quantity = {})
                           /\ u.reason = "claim_exhausted" => matched(r) # {}
             judged(a) == Cardinality({v \in g.verdicts : v.claimId = a.claimId /\ v.cid = a.cid}) = 1
  <1>1. g.report = align(C, D) BY DEF gate
  <1>2. /\ DOMAIN C = 1..Len(C) /\ \A k \in 1..Len(C) : C[k].id = k
        /\ DOMAIN D = 1..Len(D) /\ \A k \in 1..Len(D) : D[k].id = k
    BY DEF IsCorpora, IsNumbered
  <1>3. /\ \A x \in ToSet(C) : x.id \in 1..Len(C)
        /\ \A x \in ToSet(D) : x.id \in 1..Len(D)
    BY <1>2 DEF ToSet
  <1>4. /\ ~g.threw
        /\ \A c \in ToSet(C) : makeClaimAccepts(c)
        /\ \A d \in ToSet(D) : makeCandidateAccepts(d)
        /\ \A a \in align(C, D).alignments : judged(a)
    BY NoneThrows
  <1>5. \A j \in 1..Len(D) : ways(align(C, D), j) = 1 BY LeavesOnce
  <1>6. \A i \in 1..Len(C) : ends(align(C, D), i) = 1 BY MatchedOrDropped
  <1>7. \A u \in align(C, D).unaligned : true(align(C, D), u) BY ReasonsAreTrue
  <1> HIDE DEF g, ways, ends, true, judged
  <1>8. /\ \A x \in ToSet(D) : ways(g.report, x.id) = 1
        /\ \A c \in ToSet(C) : ends(g.report, c.id) = 1
        /\ \A u \in g.report.unaligned : true(g.report, u)
        /\ \A a \in g.report.alignments : judged(a)
    BY <1>1, <1>3, <1>4, <1>5, <1>6, <1>7
  <1>9. Received(g, C, D) BY <1>4, <1>8 DEF Received, ways, ends, true, judged
  <1> QED BY <1>9 DEF g

(* align.js:17-20, contract.js decision 4: whatever the documents say.      *)
THEOREM ReceiptsAreComplete == Spec => []ReceiptsComplete
<1>1. RegistryInv => ReceiptsComplete
  <2> SUFFICES ASSUME RegistryInv, NEW g \in result, NEW doc \in hopDoc
               PROVE  Received(g, claims, CandidatesOf(doc))
    BY DEF ReceiptsComplete
  <2>1. PICK d \in Downstreams \cup {source} :
          hopDoc = {d} /\ result = {gate(claims, CandidatesOf(d), 2)}
    BY DEF RegistryInv
  <2>2. doc = d /\ g = gate(claims, CandidatesOf(doc), 2) BY <2>1
  <2>3. IsDocument(doc) BY <2>1, <2>2, SourceIsDocument, DocumentAssumption
  <2>4. IsCorpora(claims, CandidatesOf(doc))
    BY <2>3, MintedCorpora DEF CandidatesOf, RegistryInv
  <2> QED BY <2>2, <2>4, GateGivesReceipts
<1> QED
  BY <1>1, AlwaysRegistry, PTL
=============================================================================
