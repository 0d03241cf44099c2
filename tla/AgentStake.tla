---------------------------- MODULE AgentStake ----------------------------
(***************************************************************************)
(* The staking contract, packages/stake/contracts/AgentStake.sol: stake,   *)
(* slash and unstake, with the calls that the receiver of a transfer makes *)
(* before the transfer ends. frames is the stack of transfers under way.   *)
(* The ether of the caller and uint256 overflow are left out: the money    *)
(* that exists, Funds, is far below 2^256.                                 *)
(***************************************************************************)
EXTENDS Naturals, Sequences, FiniteSetsExt

CONSTANTS
  Account,   \* every address that uses the contract
  arbiter,   \* the deployer
  MayHaveCode,  \* those that may be contracts
  Funds,     \* bound: what each account can put in, [Account -> Nat]
  MaxDepth   \* bound: transfers nested in each other

ASSUME AccountAssumption == /\ arbiter \in Account
                            /\ IsFiniteSet(Account)
                            /\ MayHaveCode \subseteq Account
                            /\ Funds \in [Account -> Nat]
                            /\ MaxDepth \in Nat

VARIABLES
  code,              \* accounts that are contracts: they may call back and refuse money
  stakes,            \* the mapping: amount and active flag of each account
  reentrancyStatus,  \* the guard of nonReentrant
  balance,           \* the ether the contract holds
  moved,             \* history: put in, taken out and slashed, per account
  frames             \* transfers under way, innermost last

contractVars == <<code, stakes, reentrancyStatus, balance, moved, frames>>

NOT_ENTERED == 1
ENTERED == 2

Innermost == frames[Len(frames)]
Outer == SubSeq(frames, 1, Len(frames) - 1)

(* What a revert restores. *)
State == [stakes |-> stakes, status |-> reentrancyStatus, balance |-> balance, moved |-> moved]

(* A call is a transaction of its own, or is made by the receiver of the *)
(* innermost transfer, itself or through another contract.               *)
CanCall(sender) == frames # <<>> => {Innermost.to, sender} \subseteq code

(* Faulty variant of reduced: an emptied stake stays active.                 *)
reducedStaysActive(s, amount) == [amount |-> s.amount - amount, active |-> s.active]

reduced(s, amount) == [amount |-> s.amount - amount, active |-> s.active /\ s.amount # amount]

(* The transfer call that ends slash and unstake. *)
Transfer(method, to, amount) ==
  /\ Len(frames) < MaxDepth
  /\ balance >= amount
  /\ balance' = balance - amount
  /\ frames' = Append(frames, [method |-> method, to |-> to, before |-> State])

(* Faulty variant of stake: the new stake replaces the old one.              *)
stakeReplaces(sender, value) ==
  /\ CanCall(sender)
  /\ value > 0
  /\ moved[sender].in + value <= Funds[sender]
  /\ stakes' = [stakes EXCEPT ![sender] = [amount |-> value, active |-> TRUE]]
  /\ balance' = balance + value
  /\ moved' = [moved EXCEPT ![sender].in = @ + value]
  /\ UNCHANGED <<code, reentrancyStatus, frames>>

stake(sender, value) ==
  /\ CanCall(sender)
  /\ value > 0
  /\ moved[sender].in + value <= Funds[sender]
  /\ stakes' = [stakes EXCEPT ![sender] = [amount |-> @.amount + value, active |-> TRUE]]
  /\ balance' = balance + value
  /\ moved' = [moved EXCEPT ![sender].in = @ + value]
  /\ UNCHANGED <<code, reentrancyStatus, frames>>

slash(sender, agent, amount) ==
  /\ CanCall(sender)
  /\ sender = arbiter
  /\ amount > 0
  /\ stakes[agent].amount >= amount
  /\ stakes' = [stakes EXCEPT ![agent] = reduced(@, amount)]
  /\ moved' = [moved EXCEPT ![agent].slashed = @ + amount]
  /\ Transfer("slash", arbiter, amount)
  /\ UNCHANGED <<code, reentrancyStatus>>

unstake(sender, amount) ==
  /\ CanCall(sender)
  /\ reentrancyStatus # ENTERED
  /\ amount > 0
  /\ stakes[sender].active
  /\ stakes[sender].amount >= amount
  /\ reentrancyStatus' = ENTERED
  /\ stakes' = [stakes EXCEPT ![sender] = reduced(@, amount)]
  /\ moved' = [moved EXCEPT ![sender].out = @ + amount]
  /\ Transfer("unstake", sender, amount)
  /\ UNCHANGED code

(* Faulty variant of TransferReturns: slash lets go of the guard as well.    *)
TransferReturnsUnguarded ==
  /\ frames # <<>>
  /\ frames' = Outer
  /\ reentrancyStatus' = NOT_ENTERED
  /\ UNCHANGED <<code, stakes, balance, moved>>

(* The receiver returns; nonReentrant lets go of the guard. *)
TransferReturns ==
  /\ frames # <<>>
  /\ frames' = Outer
  /\ reentrancyStatus' = IF Innermost.method = "unstake" THEN NOT_ENTERED ELSE reentrancyStatus
  /\ UNCHANGED <<code, stakes, balance, moved>>

(* Faulty variant of TransferRefused: nobody looks at ok.                    *)
RefusalIgnored ==
  /\ frames # <<>>
  /\ Innermost.to \in code
  /\ frames' = Outer
  /\ reentrancyStatus' = Innermost.before.status
  /\ balance' = Innermost.before.balance
  /\ moved' = Innermost.before.moved
  /\ UNCHANGED <<code, stakes>>

(* The receiver refuses: require(ok) undoes the call and all that it nested. *)
TransferRefused ==
  /\ frames # <<>>
  /\ Innermost.to \in code
  /\ frames' = Outer
  /\ stakes' = Innermost.before.stakes
  /\ reentrancyStatus' = Innermost.before.status
  /\ balance' = Innermost.before.balance
  /\ moved' = Innermost.before.moved
  /\ UNCHANGED code

ContractInit ==
  /\ code \in SUBSET MayHaveCode
  /\ stakes = [a \in Account |-> [amount |-> 0, active |-> FALSE]]
  /\ reentrancyStatus = NOT_ENTERED
  /\ balance = 0
  /\ moved = [a \in Account |-> [in |-> 0, out |-> 0, slashed |-> 0]]
  /\ frames = <<>>

Amount == UNION {1..Funds[a] : a \in Account}

ContractNext ==
  \/ \E s \in Account, v \in Amount : stake(s, v) \/ unstake(s, v)
  \/ \E s \in Account, a \in Account, v \in Amount : slash(s, a, v)
  \/ TransferReturns
  \/ TransferRefused

ContractSpec == ContractInit /\ [][ContractNext]_contractVars

-----------------------------------------------------------------------------
StakeRecord == [amount : Nat, active : BOOLEAN]
Movement == [in : Nat, out : Nat, slashed : Nat]
StateType == [stakes : [Account -> StakeRecord], status : {NOT_ENTERED, ENTERED},
              balance : Nat, moved : [Account -> Movement]]

ContractTypeOK ==
  /\ code \subseteq Account
  /\ State \in StateType
  /\ frames \in Seq([method : {"slash", "unstake"}, to : Account, before : StateType])

(* An account's stake is what it put in less what it took out and what was   *)
(* slashed, at every depth of nested calls and after every revert.           *)
StakesAccountedFor ==
  \A a \in Account : moved[a].in = stakes[a].amount + moved[a].out + moved[a].slashed

(* The contract holds the ether of all stakes together, also during a        *)
(* transfer, so that no withdrawal can fail for want of money.               *)
Solvent == balance = SumFunction([a \in Account |-> stakes[a].amount])

(* unstake refuses an inactive stake: money staked is never stuck behind a   *)
(* false active flag, and a flag never outlives the money.                   *)
ActiveIffFunded == \A a \in Account : stakes[a].active <=> stakes[a].amount > 0

(* The guard is taken exactly while one withdrawal's transfer is under way,  *)
(* and never left taken by a revert, after which nobody could withdraw.      *)
GuardCoversOneWithdrawal ==
  /\ reentrancyStatus = ENTERED <=> \E i \in DOMAIN frames : frames[i].method = "unstake"
  /\ \A i, j \in DOMAIN frames : frames[i].method = "unstake" /\ frames[j].method = "unstake" => i = j
=============================================================================
