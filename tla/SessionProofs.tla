---------------------------- MODULE SessionProofs ---------------------------
(***************************************************************************)
(* Proofs about Session: the types, and that the next command finds the     *)
(* session the user was last told of, for any number of logins and polls.   *)
(***************************************************************************)
EXTENDS Session, TLAPS

(* A session is issued only for a login that found room for one.            *)
RoomForOne == request # "none" => issued < MaxLogins

(* The types hold in every reachable state.                                 *)
LEMMA TypeNext == TypeOK /\ RoomForOne /\ [Next]_vars => TypeOK' /\ RoomForOne'
  <1> SUFFICES ASSUME TypeOK, RoomForOne, [Next]_vars PROVE TypeOK' /\ RoomForOne' OBVIOUS
  <1> USE SessionAssumptions DEF TypeOK, RoomForOne, Sessions, None, tiers, server, environment, Stop
  <1>a. MaxLogins \in Nat /\ MaxPolls \in Nat /\ 0 \in 0..MaxPolls OBVIOUS
  <1>1. CASE LoginStart
    <2>1. polls' = 0 /\ request' = "pending" /\ stage' = "polling" /\ issued < MaxLogins
          /\ UNCHANGED <<keychain, sessionFile, keychainUp, steady, session, issued, active, told>>
      BY <1>1 DEF LoginStart
    <2> QED BY <1>a, <2>1
  <1>2. CASE PollPending BY <1>2 DEF PollPending
  <1>3. CASE PollApproved \/ LoginFails
    <2>1. /\ stage' \in {"exchanging", "idle"} /\ session' \in {session, None}
          /\ polls' \in {polls, 0}
          /\ UNCHANGED <<keychain, sessionFile, keychainUp, steady, request, issued, active>>
          /\ told' = told
      BY <1>3 DEF PollApproved, LoginFails
    <2> QED BY <1>a, <2>1
  <1>4. CASE ExchangeAnswered \/ ExchangeAnswerLost
    <2>1. issued < MaxLogins /\ issued' = issued + 1 /\ request' = "none"
          /\ active' = active \cup {issued'}
      BY <1>4 DEF ExchangeAnswered, ExchangeAnswerLost, Issue
    <2>2. issued' \in 1..MaxLogins BY <2>1
    <2>3. active' \subseteq Sessions BY <2>1, <2>2
    <2>4. /\ session' \in {issued', None} /\ stage' \in {"saving", "idle"}
          /\ polls' \in {polls, 0}
          /\ UNCHANGED <<keychain, sessionFile, keychainUp, steady, told>>
      BY <1>4 DEF ExchangeAnswered, ExchangeAnswerLost
    <2> QED BY <1>a, <2>1, <2>2, <2>3, <2>4
  <1>5. CASE saveSession BY <1>5 DEF saveSession
  <1>6. CASE LogoutStart
    <2>1. loadSession \in Sessions \cup {None} BY DEF loadSession
    <2>2. /\ session' = loadSession /\ stage' \in {"revoking", "clearing"}
          /\ UNCHANGED <<keychain, sessionFile, keychainUp, steady, polls, request, issued, active>>
          /\ told' = told
      BY <1>6 DEF LogoutStart
    <2> QED BY <2>1, <2>2
  <1>7. CASE Revoke BY <1>7 DEF Revoke
  <1>8. CASE keyringClear BY <1>8 DEF keyringClear
  <1>9. CASE clearSessionFromFile
    <2>1. /\ sessionFile' \in {sessionFile, None} /\ steady' \in {steady, FALSE}
          /\ stage' = "idle" /\ session' = None /\ polls' = 0 /\ told' = {None}
          /\ UNCHANGED <<keychain, keychainUp, request, issued, active>>
      BY <1>9 DEF clearSessionFromFile
    <2> QED BY <1>a, <2>1
  <1>10. CASE Killed
    <2>1. CASE KilledWhileSaving BY <1>10, <2>1 DEF Killed, KilledWhileSaving
    <2>2. CASE KilledWhileClearing BY <1>10, <2>2 DEF Killed, KilledWhileClearing
    <2>3. CASE UNCHANGED <<tiers, told>> BY <1>10, <2>3 DEF Killed
    <2> QED BY <1>10, <2>1, <2>2, <2>3 DEF Killed
  <1>11. CASE KeychainChanges BY <1>11 DEF KeychainChanges
  <1>12. ASSUME NEW answer \in {"approved", "expired"}, RequestAnswered(answer)
         PROVE  TypeOK' /\ RoomForOne'
    BY <1>12 DEF RequestAnswered
  <1>13. ASSUME NEW s \in Sessions, SessionEnds(s) PROVE TypeOK' /\ RoomForOne'
    BY <1>13 DEF SessionEnds
  <1>14. CASE UNCHANGED vars BY <1>14 DEF vars
  <1> QED
    BY <1>1, <1>2, <1>3, <1>4, <1>5, <1>6, <1>7, <1>8, <1>9, <1>10, <1>11, <1>12, <1>13, <1>14
    DEF Next, Command

(* The types of the two tiers, the command and the web app, whatever is     *)
(* killed, lost or unreachable.                                             *)
THEOREM TypeCorrect == Spec => []TypeOK
  <1>1. Init => TypeOK /\ RoomForOne
    BY SessionAssumptions DEF Init, TypeOK, RoomForOne, Sessions, None
  <1> QED BY <1>1, TypeNext, PTL DEF Spec

-----------------------------------------------------------------------------
(* While the keychain is there for every command or for none, one tier is   *)
(* used and the other stays empty, and between the two deletions of a       *)
(* logout the keychain has nothing; only then may the session found differ  *)
(* from what the user was told.                                             *)
OneTier == IF keychainUp THEN sessionFile = None ELSE keychain = None

ToldTheTruth ==
  steady =>
    /\ OneTier
    /\ stage = "unlinking" /\ keychainUp => keychain = None
    /\ stage # "unlinking" => loadSession \in told
    /\ stage = "unlinking" /\ ~keychainUp => loadSession \in told

(* Every step keeps it.                                                     *)
LEMMA ToldNext == TypeOK /\ ToldTheTruth /\ [Next]_vars => ToldTheTruth'
  <1> SUFFICES ASSUME TypeOK, ToldTheTruth, [Next]_vars, steady' PROVE ToldTheTruth'
    BY DEF ToldTheTruth
  <1> USE DEF ToldTheTruth, OneTier, loadSession, tiers, server, environment, Stop
  <1>1. CASE UNCHANGED <<tiers, environment, told>> /\ stage' # "unlinking" /\ stage # "unlinking"
    BY <1>1
  <1>2. CASE LoginStart \/ PollPending \/ PollApproved \/ LoginFails \/ ExchangeAnswered
             \/ ExchangeAnswerLost \/ LogoutStart \/ Revoke
    BY <1>1, <1>2
    DEF LoginStart, PollPending, PollApproved, LoginFails, ExchangeAnswered, ExchangeAnswerLost,
        LogoutStart, Revoke
  <1>3. CASE saveSession
    <2>1. /\ UNCHANGED environment /\ stage = "saving" /\ stage' = "idle" /\ told' = {session}
          /\ IF keychainUp THEN keychain' = session /\ sessionFile' = sessionFile
                           ELSE sessionFile' = session /\ keychain' = keychain
      BY <1>3 DEF saveSession
    <2>2. CASE keychainUp
      <3>1. keychain' = session /\ sessionFile' = None /\ keychainUp' BY <2>1, <2>2
      <3>2. loadSession' = session BY <3>1
      <3> QED BY <2>1, <3>1, <3>2
    <2>3. CASE ~keychainUp
      <3>1. sessionFile' = session /\ keychain' = None /\ ~keychainUp' BY <2>1, <2>3
      <3>2. loadSession' = session BY <3>1
      <3> QED BY <2>1, <3>1, <3>2
    <2> QED BY <2>2, <2>3
  <1>4. CASE keyringClear BY <1>4 DEF keyringClear
  <1>5. CASE clearSessionFromFile BY <1>5 DEF clearSessionFromFile
  <1>6. CASE Killed
    <2>1. CASE KilledWhileSaving BY <1>6, <2>1 DEF Killed, KilledWhileSaving
    <2>2. CASE KilledWhileClearing BY <1>6, <2>2 DEF Killed, KilledWhileClearing
    <2>3. CASE stage # "unlinking" /\ UNCHANGED <<tiers, told>>
      BY <1>1, <1>6, <2>3 DEF Killed
    <2> QED BY <1>6, <2>1, <2>2, <2>3 DEF Killed
  <1>7. CASE KeychainChanges BY <1>7 DEF KeychainChanges
  <1>8. CASE UNCHANGED <<tiers, environment, told, stage>> BY <1>8
  <1>9. ASSUME NEW answer, RequestAnswered(answer) PROVE ToldTheTruth'
    BY <1>8, <1>9 DEF RequestAnswered
  <1>10. ASSUME NEW s, SessionEnds(s) PROVE ToldTheTruth' BY <1>8, <1>10 DEF SessionEnds
  <1>11. CASE UNCHANGED vars BY <1>8, <1>11 DEF vars
  <1> QED
    BY <1>2, <1>3, <1>4, <1>5, <1>6, <1>7, <1>9, <1>10, <1>11 DEF Next, Command

(* auth.js:140-158: while the keychain is there for every command or for    *)
(* none, the next command finds the session of the last login that said so, *)
(* and none after a logout that said so, for any number of logins, killed   *)
(* anywhere.                                                                *)
THEOREM SessionWasTold == Spec => []SessionIsWhatWasTold
  <1>1. Init => TypeOK /\ RoomForOne
    BY SessionAssumptions DEF Init, TypeOK, RoomForOne, Sessions, None
  <1>2. Init => ToldTheTruth BY DEF Init, ToldTheTruth, OneTier, loadSession
  <1>3. ToldTheTruth => SessionIsWhatWasTold BY DEF ToldTheTruth, SessionIsWhatWasTold
  <1> QED BY <1>1, <1>2, <1>3, TypeNext, ToldNext, PTL DEF Spec
=============================================================================
