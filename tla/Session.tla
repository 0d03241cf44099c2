------------------------------ MODULE Session -------------------------------
(***************************************************************************)
(* `quorum login' and `quorum logout' (bin/lib/auth.js): the browser login  *)
(* handshake with the web app, and the session kept in two tiers, the OS    *)
(* keychain and a fallback file.  One command at a time; a command may be   *)
(* killed anywhere, a request or its answer may be lost, and the keychain   *)
(* may be there for one command and not for the next (a daemon that is not  *)
(* running over SSH, QUORUM_SESSION_BACKEND=file).                          *)
(*                                                                          *)
(* The web app's side of the contract is not in this repository: it is      *)
(* modelled from the calls auth.js makes.  `quorum whoami' changes nothing  *)
(* and is left out.  A session is the number of the login that created it.  *)
(***************************************************************************)
EXTENDS Naturals, FiniteSets

CONSTANTS MaxLogins,   \* bound on the sessions the web app issues
          MaxPolls     \* polls of one login: LOGIN_TIMEOUT_MS / POLL_INTERVAL_MS

ASSUME SessionAssumptions == MaxLogins \in Nat \ {0} /\ MaxPolls \in Nat \ {0}

VARIABLES keychain,     \* the session in the OS keychain
          sessionFile,  \* the session in session.json; None also when it does not parse
          keychainUp,   \* whether a command gets to the keychain
          steady,       \* history: no tier was unreachable for some commands only
          stage,        \* where the running command is
          session,      \* the session in its hands
          polls,        \* polls it has made
          request,      \* web app: the state of its login request
          issued,       \* web app: sessions issued so far
          active,       \* web app: those not revoked
          told          \* history: the sessions the user may be in, from what was printed

vars == <<keychain, sessionFile, keychainUp, steady, stage, session, polls, request, issued,
          active, told>>

tiers == <<keychain, sessionFile>>
server == <<request, issued, active>>
environment == <<keychainUp, steady>>

None == 0
Sessions == 1..MaxLogins

(* Faulty variant of loadSession: the file is not tried.                    *)
loadFromKeychainOnly == IF keychainUp THEN keychain ELSE None

(* loadSession: the file is also tried when the keychain has no entry.      *)
loadSession == IF keychainUp /\ keychain # None THEN keychain ELSE sessionFile

Init ==
  /\ keychain = None
  /\ sessionFile = None
  /\ keychainUp \in BOOLEAN
  /\ steady = TRUE
  /\ stage = "idle"
  /\ session = None
  /\ polls = 0
  /\ request = "none"
  /\ issued = 0
  /\ active = {}
  /\ told = {None}

Stop == stage' = "idle" /\ session' = None /\ polls' = 0

-----------------------------------------------------------------------------
(* login: the start call; when it fails, nothing has changed.               *)
LoginStart ==
  /\ stage = "idle"
  /\ issued < MaxLogins
  /\ stage' = "polling"
  /\ request' = "pending"
  /\ polls' = 0
  /\ UNCHANGED <<tiers, environment, session, issued, active, told>>

(* Faulty variant of PollPending: the deadline starts again with every poll. *)
PollRestartsDeadline ==
  /\ stage = "polling"
  /\ polls < MaxPolls
  /\ request = "pending"
  /\ polls' = 1 - polls
  /\ UNCHANGED <<tiers, environment, stage, session, server, told>>

PollPending ==
  /\ stage = "polling"
  /\ polls < MaxPolls
  /\ request = "pending"
  /\ polls' = polls + 1
  /\ UNCHANGED <<tiers, environment, stage, session, server, told>>

PollApproved ==
  /\ stage = "polling"
  /\ polls < MaxPolls
  /\ request = "approved"
  /\ stage' = "exchanging"
  /\ UNCHANGED <<tiers, environment, session, polls, server, told>>

(* The request expired, the deadline passed, or a call failed.              *)
LoginFails ==
  /\ stage \in {"polling", "exchanging"}
  /\ Stop
  /\ UNCHANGED <<tiers, environment, server, told>>

(* The exchange code is single-use: the web app issues one session for it.  *)
Issue ==
  /\ request = "approved"
  /\ request' = "none"
  /\ issued' = issued + 1
  /\ active' = active \cup {issued'}

ExchangeAnswered ==
  /\ stage = "exchanging"
  /\ Issue
  /\ session' = issued'
  /\ stage' = "saving"
  /\ UNCHANGED <<tiers, environment, polls, told>>

ExchangeAnswerLost ==
  /\ stage = "exchanging"
  /\ Issue
  /\ Stop
  /\ UNCHANGED <<tiers, environment, told>>

(* saveSession: the keychain, or the file when the keychain fails.          *)
saveSession ==
  /\ stage = "saving"
  /\ IF keychainUp
       THEN keychain' = session /\ UNCHANGED sessionFile
       ELSE sessionFile' = session /\ UNCHANGED keychain
  /\ told' = {session}
  /\ Stop
  /\ UNCHANGED <<environment, server>>

-----------------------------------------------------------------------------
LogoutStart ==
  /\ stage = "idle"
  /\ session' = loadSession
  /\ stage' = IF loadSession # None THEN "revoking" ELSE "clearing"
  /\ UNCHANGED <<tiers, environment, polls, server, told>>

(* The server-side revoke; its answer, or that there is none, is ignored.   *)
Revoke ==
  /\ stage = "revoking"
  /\ active' \in {active, active \ {session}}
  /\ stage' = "clearing"
  /\ UNCHANGED <<tiers, environment, session, polls, request, issued, told>>

(* clearSession: both tiers, one after the other, every failure swallowed.  *)
keyringClear ==
  /\ stage = "clearing"
  /\ keychain' = IF keychainUp THEN None ELSE keychain
  /\ stage' = "unlinking"
  /\ UNCHANGED <<sessionFile, environment, session, polls, server, told>>

clearSessionFromFile ==
  /\ stage = "unlinking"
  /\ \/ sessionFile' = None /\ UNCHANGED steady
     \/ sessionFile # None /\ UNCHANGED sessionFile /\ steady' = FALSE
  /\ told' = {None}
  /\ Stop
  /\ UNCHANGED <<keychain, keychainUp, server>>

-----------------------------------------------------------------------------
(* Ctrl-C.  The write of a tier may have happened, happened in part (a      *)
(* truncated session.json) or not, and nothing has been printed.            *)
KilledWhileSaving ==
  /\ stage = "saving"
  /\ IF keychainUp
       THEN keychain' \in {keychain, session} /\ UNCHANGED sessionFile
       ELSE sessionFile' \in {sessionFile, None, session} /\ UNCHANGED keychain
  /\ told' = told \cup {session} \cup (IF keychainUp THEN {} ELSE {None})

KilledWhileClearing ==
  /\ stage \in {"clearing", "unlinking"}
  /\ sessionFile' \in {sessionFile} \cup (IF stage = "unlinking" THEN {None} ELSE {})
  /\ told' = told \cup {None}
  /\ UNCHANGED keychain

Killed ==
  /\ stage # "idle"
  /\ \/ KilledWhileSaving
     \/ KilledWhileClearing
     \/ stage \notin {"saving", "clearing", "unlinking"} /\ UNCHANGED <<tiers, told>>
  /\ Stop
  /\ UNCHANGED <<environment, server>>

KeychainChanges ==
  /\ keychainUp' = ~keychainUp
  /\ steady' = FALSE
  /\ UNCHANGED <<tiers, stage, session, polls, server, told>>

(* The user answers in the browser, or the request expires.                 *)
RequestAnswered(answer) ==
  /\ request = "pending"
  /\ request' = answer
  /\ UNCHANGED <<tiers, environment, stage, session, polls, issued, active, told>>

(* Fourteen days, or "sign out all devices".                                *)
SessionEnds(s) ==
  /\ s \in active
  /\ active' = active \ {s}
  /\ UNCHANGED <<tiers, environment, stage, session, polls, request, issued, told>>

Command ==
  \/ PollPending \/ PollApproved \/ LoginFails \/ ExchangeAnswered \/ ExchangeAnswerLost
  \/ saveSession \/ Revoke \/ keyringClear \/ clearSessionFromFile

Next ==
  \/ LoginStart \/ LogoutStart \/ Command \/ Killed \/ KeychainChanges
  \/ \E answer \in {"approved", "expired"} : RequestAnswered(answer)
  \/ \E s \in Sessions : SessionEnds(s)

Spec == Init /\ [][Next]_vars

(* A command that can go on goes on: the poll loop has a deadline and       *)
(* fetch() fails or answers.                                                *)
FairSpec == Spec /\ WF_vars(Command)

-----------------------------------------------------------------------------
TypeOK ==
  /\ keychain \in Sessions \cup {None}
  /\ sessionFile \in Sessions \cup {None}
  /\ keychainUp \in BOOLEAN
  /\ steady \in BOOLEAN
  /\ stage \in {"idle", "polling", "exchanging", "saving", "revoking", "clearing", "unlinking"}
  /\ session \in Sessions \cup {None}
  /\ polls \in 0..MaxPolls
  /\ request \in {"none", "pending", "approved", "expired"}
  /\ issued \in 0..MaxLogins
  /\ active \subseteq Sessions
  /\ told \subseteq Sessions \cup {None}

(* auth.js:140-158: while the keychain is there for every command or for    *)
(* none, the next command finds the session of the last login that said so, *)
(* and none after a logout that said so, whatever was killed in between.    *)
SessionIsWhatWasTold == steady /\ stage = "idle" => loadSession \in told

(* A login ends, however long the user takes to answer.                     *)
LoginEnds == stage = "polling" ~> stage = "idle"

(* auth.js:157 and 428, "logout must always succeed locally": after a       *)
(* logout that ended, and removed the file, no local session comes back     *)
(* before the next login.                                                   *)
LogoutForgets ==
  stage = "idle" /\ told = {None} /\ sessionFile = None => loadSession = None
=============================================================================
