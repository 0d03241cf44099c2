------------------------- MODULE EnforcementProofs -------------------------
(***************************************************************************)
(* What holds of the contract and of evaluateAndSlash for every number of  *)
(* accounts, transfers nested to any depth, sources and subjects.          *)
(***************************************************************************)
EXTENDS Enforcement, FoldProofs, TLAPS

Frame == [method : {"slash", "unstake"}, to : Account, before : StateType]

(* The accounts add up in a state S of the contract, present or to be       *)
(* restored.                                                                *)
Sound(S) ==
  \A a \in Account :
    /\ S.moved[a].in = S.stakes[a].amount + S.moved[a].out + S.moved[a].slashed
    /\ S.stakes[a].active <=> S.stakes[a].amount > 0

(* Each transfer under way can be undone into a sound state, in which the   *)
(* guard is taken exactly if a transfer further out took it.                *)
FramesSound ==
  \A i \in 1..Len(frames) :
    /\ Sound(frames[i].before)
    /\ frames[i].before.status = ENTERED <=> \E j \in 1..Len(frames) : j < i /\ frames[j].method = "unstake"

GuardTaken ==
  /\ reentrancyStatus = ENTERED <=> \E i \in 1..Len(frames) : frames[i].method = "unstake"
  /\ \A i, j \in 1..Len(frames) : frames[i].method = "unstake" /\ frames[j].method = "unstake" => i = j

ContractInv == ContractTypeOK /\ Sound(State) /\ FramesSound /\ GuardTaken

-----------------------------------------------------------------------------
(* The fields of the contract's state, one by one.                          *)
LEMMA StateFields ==
  ASSUME ContractTypeOK
  PROVE  /\ stakes \in [Account -> StakeRecord] /\ moved \in [Account -> Movement]
         /\ balance \in Nat /\ reentrancyStatus \in {NOT_ENTERED, ENTERED}
         /\ code \subseteq Account /\ frames \in Seq(Frame)
BY DEF ContractTypeOK, State, StateType, Frame

(* And conversely.                                                          *)
LEMMA FieldsState ==
  ASSUME code \subseteq Account, frames \in Seq(Frame),
         stakes \in [Account -> StakeRecord], moved \in [Account -> Movement],
         balance \in Nat, reentrancyStatus \in {NOT_ENTERED, ENTERED}
  PROVE  ContractTypeOK
BY DEF ContractTypeOK, State, StateType, Frame

(* The same of the next state.                                              *)
LEMMA FieldsStateNext ==
  ASSUME (code \subseteq Account)', (frames \in Seq(Frame))',
         (stakes \in [Account -> StakeRecord])', (moved \in [Account -> Movement])',
         (balance \in Nat)', (reentrancyStatus \in {NOT_ENTERED, ENTERED})'
  PROVE  ContractTypeOK'
BY DEF ContractTypeOK, State, StateType, Frame

(* Taking the innermost transfer off the stack.                             *)
LEMMA OuterFacts ==
  ASSUME frames \in Seq(Frame), frames # <<>>
  PROVE  /\ Outer \in Seq(Frame) /\ Len(Outer) = Len(frames) - 1 /\ Len(frames) \in Nat \ {0}
         /\ \A i \in 1..(Len(frames) - 1) : Outer[i] = frames[i]
         /\ Innermost \in Frame
<1>1. Len(frames) \in Nat \ {0} /\ frames \in [1..Len(frames) -> Frame]
  OBVIOUS
<1>2. Innermost \in Frame
  BY <1>1 DEF Innermost
<1>3. Len(Outer) = Len(frames) - 1 /\ \A i \in 1..(Len(frames) - 1) : Outer[i] = frames[i]
  BY <1>1 DEF Outer
<1>4. Outer \in Seq(Frame)
  BY <1>1 DEF Outer
<1> QED
  BY <1>1, <1>2, <1>3, <1>4

(* Amounts are natural numbers.                                             *)
LEMMA AmountIsNat == Amount \subseteq Nat
BY AccountAssumption DEF Amount

(* A contract just deployed.                                               *)
LEMMA ContractInitial == ContractInit => ContractInv
<1> SUFFICES ASSUME ContractInit PROVE ContractInv
  OBVIOUS
<1>1. ContractTypeOK
  BY FieldsState, AccountAssumption
     DEF ContractInit, StakeRecord, Movement, Frame, NOT_ENTERED
<1>2. Sound(State)
  BY DEF ContractInit, Sound, State
<1>3. FramesSound /\ GuardTaken
  BY DEF ContractInit, FramesSound, GuardTaken, NOT_ENTERED, ENTERED
<1> QED
  BY <1>1, <1>2, <1>3 DEF ContractInv

(* A transfer that starts in a sound state, from which the guard is taken   *)
(* if it is a withdrawal's, keeps what is said of the frames.               *)
LEMMA TransferKeepsFrames ==
  ASSUME ContractInv, NEW method \in {"slash", "unstake"}, NEW to \in Account, NEW amount \in Nat,
         Transfer(method, to, amount),
         method = "unstake" => reentrancyStatus # ENTERED /\ reentrancyStatus' = ENTERED,
         method = "slash" => reentrancyStatus' = reentrancyStatus
  PROVE  (frames \in Seq(Frame))' /\ (balance \in Nat)' /\ FramesSound' /\ GuardTaken'
<1> DEFINE f == [method |-> method, to |-> to, before |-> State]
<1>1. f \in Frame /\ f.method = method /\ f.before = State /\ State.status = reentrancyStatus
  BY DEF ContractInv, ContractTypeOK, Frame, State
<1>2. frames \in Seq(Frame) /\ frames' = Append(frames, f) /\ balance \in Nat
  BY StateFields DEF ContractInv, Transfer
<1>3. Len(frames) \in Nat /\ Len(frames') = Len(frames) + 1 /\ frames'[Len(frames) + 1] = f
      /\ (\A i \in 1..Len(frames) : frames'[i] = frames[i]) /\ frames' \in Seq(Frame)
  BY <1>1, <1>2
<1>4. balance' \in Nat
  BY <1>2 DEF Transfer
<1>5. GuardTaken'
  <2>1. CASE method = "unstake"
    BY <1>1, <1>3, <2>1 DEF GuardTaken, ContractInv
  <2>2. CASE method = "slash"
    BY <1>1, <1>3, <2>2 DEF GuardTaken, ContractInv
  <2> QED
    BY <2>1, <2>2
<1>6. FramesSound'
  <2> SUFFICES ASSUME NEW i \in 1..(Len(frames) + 1)
               PROVE  /\ Sound(frames'[i].before)
                      /\ frames'[i].before.status = ENTERED <=>
                           \E j \in 1..Len(frames') : j < i /\ frames'[j].method = "unstake"
    BY <1>3 DEF FramesSound, Sound
  <2>1. CASE i \in 1..Len(frames)
    BY <1>3, <2>1 DEF FramesSound, ContractInv
  <2>2. CASE i = Len(frames) + 1
    BY <1>1, <1>3, <2>2 DEF GuardTaken, ContractInv
  <2> QED
    BY <1>3, <2>1, <2>2
<1> QED
  BY <1>3, <1>4, <1>5, <1>6

(* A debit of a stake, booked as withdrawn or as slashed.                   *)
LEMMA DebitKeepsBooks ==
  ASSUME ContractInv, NEW a \in Account, NEW amount \in Nat, amount > 0, stakes[a].amount >= amount,
         stakes' = [stakes EXCEPT ![a] = reduced(@, amount)],
         \/ moved' = [moved EXCEPT ![a].out = @ + amount]
         \/ moved' = [moved EXCEPT ![a].slashed = @ + amount]
  PROVE  (stakes \in [Account -> StakeRecord])' /\ (moved \in [Account -> Movement])' /\ Sound(State)'
<1>1. stakes \in [Account -> StakeRecord] /\ moved \in [Account -> Movement]
  BY StateFields DEF ContractInv
<1>2. stakes' \in [Account -> StakeRecord] /\ moved' \in [Account -> Movement]
  <2>1. reduced(stakes[a], amount) \in StakeRecord BY <1>1 DEF reduced, StakeRecord
  <2>2. stakes' \in [Account -> StakeRecord] BY <1>1, <2>1
  <2>3. /\ [moved[a] EXCEPT !.out = @ + amount] \in Movement
        /\ [moved[a] EXCEPT !.slashed = @ + amount] \in Movement
    BY <1>1 DEF Movement
  <2>4. moved' \in [Account -> Movement] BY <1>1, <2>3
  <2> QED BY <2>2, <2>4
<1>3. ASSUME NEW b \in Account
      PROVE  /\ moved'[b].in = stakes'[b].amount + moved'[b].out + moved'[b].slashed
             /\ stakes'[b].active <=> stakes'[b].amount > 0
  <2>1. /\ moved[b].in = stakes[b].amount + moved[b].out + moved[b].slashed
        /\ stakes[b].active <=> stakes[b].amount > 0
    BY DEF ContractInv, Sound, State
  <2>2. moved[b] \in Movement /\ stakes[b] \in StakeRecord
    BY <1>1
  <2>3. CASE b # a
    BY <1>1, <2>1, <2>3
  <2>4. CASE b = a
    <3>1. stakes'[b].amount = stakes[b].amount - amount
          /\ stakes'[b].active = (stakes[b].active /\ stakes[b].amount # amount)
      BY <1>1, <2>4 DEF reduced
    <3>2. \/ /\ moved'[b].out = moved[b].out + amount
             /\ moved'[b].in = moved[b].in /\ moved'[b].slashed = moved[b].slashed
          \/ /\ moved'[b].slashed = moved[b].slashed + amount
             /\ moved'[b].in = moved[b].in /\ moved'[b].out = moved[b].out
      BY <1>1, <2>4 DEF Movement
    <3>3. /\ stakes[b].amount \in Nat /\ moved[b].in \in Nat
          /\ moved[b].out \in Nat /\ moved[b].slashed \in Nat
      BY <2>2 DEF Movement, StakeRecord
    <3>4. moved'[b].in = stakes'[b].amount + moved'[b].out + moved'[b].slashed
      BY <2>1, <3>1, <3>2, <3>3
    <3>5. stakes[b].active
      BY <2>1, <2>4, <3>3
    <3>6. stakes'[b].active <=> stakes'[b].amount > 0
      <4>1. stakes[b].amount # amount <=> stakes'[b].amount > 0
        BY <2>4, <3>1, <3>3
      <4> QED
        BY <3>1, <3>5, <4>1, Zenon
    <3> QED
      BY <3>4, <3>6
  <2> QED
    BY <2>3, <2>4
<1> QED
  BY <1>2, <1>3 DEF Sound, State

(* stake: a deposit is booked as put in, and no frame moves.                *)
LEMMA StakePreserves ==
  ASSUME ContractInv, NEW s \in Account, NEW v \in Nat, stake(s, v)
  PROVE  ContractInv'
<1>1. stakes \in [Account -> StakeRecord] /\ moved \in [Account -> Movement]
  BY StateFields DEF ContractInv
<1>2. stakes' \in [Account -> StakeRecord] /\ moved' \in [Account -> Movement]
  BY <1>1 DEF stake, StakeRecord, Movement
<1>3. ContractTypeOK'
  BY <1>2, StateFields, FieldsStateNext DEF ContractInv, stake
<1>4. ASSUME NEW b \in Account
      PROVE  /\ moved'[b].in = stakes'[b].amount + moved'[b].out + moved'[b].slashed
             /\ stakes'[b].active <=> stakes'[b].amount > 0
  <2>1. /\ moved[b].in = stakes[b].amount + moved[b].out + moved[b].slashed
        /\ stakes[b].active <=> stakes[b].amount > 0
        /\ moved[b] \in Movement /\ stakes[b] \in StakeRecord
    BY <1>1 DEF ContractInv, Sound, State
  <2>2. CASE b # s
    BY <1>1, <2>1, <2>2 DEF stake
  <2>3. CASE b = s
    BY <1>1, <2>1, <2>3 DEF stake, StakeRecord, Movement
  <2> QED
    BY <2>2, <2>3
<1>5. Sound(State)'
  BY <1>4 DEF Sound, State
<1>6. FramesSound' /\ GuardTaken'
  BY DEF stake, ContractInv, FramesSound, Sound, GuardTaken
<1> QED
  BY <1>3, <1>5, <1>6 DEF ContractInv

(* slash: a debit booked as slashed, and a frame that leaves the guard alone. *)
LEMMA SlashPreserves ==
  ASSUME ContractInv, NEW s \in Account, NEW a \in Account, NEW v \in Nat, slash(s, a, v)
  PROVE  ContractInv'
<1>1. /\ (stakes \in [Account -> StakeRecord])' /\ (moved \in [Account -> Movement])'
      /\ Sound(State)'
  BY DebitKeepsBooks DEF slash
<1>2. (frames \in Seq(Frame))' /\ (balance \in Nat)' /\ FramesSound' /\ GuardTaken'
  BY TransferKeepsFrames, AccountAssumption DEF slash
<1>3. (code \subseteq Account)' /\ (reentrancyStatus \in {NOT_ENTERED, ENTERED})'
  BY StateFields DEF ContractInv, slash
<1> QED
  BY <1>1, <1>2, <1>3, FieldsStateNext DEF ContractInv

(* unstake: a debit booked as taken out, and a frame that took the guard.   *)
LEMMA UnstakePreserves ==
  ASSUME ContractInv, NEW s \in Account, NEW v \in Nat, unstake(s, v)
  PROVE  ContractInv'
<1>1. /\ (stakes \in [Account -> StakeRecord])' /\ (moved \in [Account -> Movement])'
      /\ Sound(State)'
  BY DebitKeepsBooks DEF unstake
<1>2. (frames \in Seq(Frame))' /\ (balance \in Nat)' /\ FramesSound' /\ GuardTaken'
  BY TransferKeepsFrames DEF unstake
<1>3. (code \subseteq Account)' /\ (reentrancyStatus \in {NOT_ENTERED, ENTERED})'
  BY StateFields DEF ContractInv, unstake
<1> QED
  BY <1>1, <1>2, <1>3, FieldsStateNext DEF ContractInv

(* What is left of the stack is as it was.                                  *)
LEMMA OuterKeepsFrames ==
  ASSUME ContractInv, frames # <<>>, frames' = Outer
  PROVE  (frames \in Seq(Frame))' /\ FramesSound'
<1>1. /\ Outer \in Seq(Frame) /\ Len(Outer) = Len(frames) - 1 /\ Len(frames) \in Nat \ {0}
      /\ \A i \in 1..(Len(frames) - 1) : Outer[i] = frames[i]
  BY OuterFacts, StateFields DEF ContractInv
<1> DEFINE n == Len(frames)
           m(i) == frames[i].method
<1>2. ASSUME NEW i \in 1..Len(frames')
      PROVE  /\ Sound(frames'[i].before)
             /\ frames'[i].before.status = ENTERED <=>
                  \E j \in 1..Len(frames') : j < i /\ frames'[j].method = "unstake"
  <2>1. i \in 1..n - 1 /\ i \in 1..n /\ Len(frames') = n - 1 /\ frames'[i] = frames[i]
    BY <1>1
  <2>2. \A j \in 1..n - 1 : frames'[j].method = m(j)
    BY <1>1
  <2>3. /\ Sound(frames[i].before)
        /\ frames[i].before.status = ENTERED <=> \E j \in 1..n : j < i /\ m(j) = "unstake"
    BY <2>1 DEF ContractInv, FramesSound
  <2>4. (\E j \in 1..n : j < i /\ m(j) = "unstake")
          <=> \E j \in 1..n - 1 : j < i /\ m(j) = "unstake"
    <3> HIDE DEF m
    <3> QED
      BY <1>1, <2>1
  <2> QED
    BY <2>1, <2>2, <2>3, <2>4
<1> QED
  BY <1>1, <1>2 DEF FramesSound, Sound

(* The end of a transfer lets go of the guard if a withdrawal took it.      *)
LEMMA ReturnPreserves ==
  ASSUME ContractInv, TransferReturns
  PROVE  ContractInv'
<1>1. /\ Outer \in Seq(Frame) /\ Len(Outer) = Len(frames) - 1 /\ Len(frames) \in Nat \ {0}
      /\ \A i \in 1..(Len(frames) - 1) : Outer[i] = frames[i]
      /\ Innermost \in Frame /\ Innermost = frames[Len(frames)]
  BY OuterFacts, StateFields DEF ContractInv, TransferReturns, Innermost
<1>2. (frames \in Seq(Frame))' /\ FramesSound'
  BY OuterKeepsFrames DEF TransferReturns
<1>3. GuardTaken'
  <2>0. /\ frames' = Outer
        /\ \A i \in 1..(Len(frames) - 1) : i \in 1..Len(frames) /\ Outer[i] = frames[i]
        /\ \A i \in 1..Len(frames) : i \in 1..(Len(frames) - 1) \/ frames[i] = Innermost
    BY <1>1 DEF TransferReturns
  <2>1. CASE Innermost.method = "unstake"
    BY <1>1, <2>1 DEF TransferReturns, GuardTaken, ContractInv, NOT_ENTERED, ENTERED
  <2>2. CASE Innermost.method # "unstake"
    <3>1. reentrancyStatus' = reentrancyStatus
      BY <2>2 DEF TransferReturns
    <3>2. (\E i \in 1..Len(frames) : frames[i].method = "unstake")
             <=> (\E i \in 1..(Len(frames) - 1) : Outer[i].method = "unstake")
      BY <2>0, <2>2
    <3>3. \A i, j \in 1..(Len(frames) - 1) :
             Outer[i].method = "unstake" /\ Outer[j].method = "unstake" => i = j
      BY <2>0 DEF ContractInv, GuardTaken
    <3> QED
      BY <1>1, <2>0, <3>1, <3>2, <3>3 DEF ContractInv, GuardTaken
  <2> QED
    BY <2>1, <2>2
<1>4. ContractTypeOK'
  BY <1>2, StateFields, FieldsStateNext DEF ContractInv, TransferReturns
<1>5. Sound(State)'
  BY DEF ContractInv, TransferReturns, Sound, State
<1> QED
  BY <1>2, <1>3, <1>4, <1>5 DEF ContractInv

(* A revert restores a sound state and the guard of the frames left.        *)
LEMMA RefusalPreserves ==
  ASSUME ContractInv, TransferRefused
  PROVE  ContractInv'
<1>1. /\ Outer \in Seq(Frame) /\ Len(Outer) = Len(frames) - 1 /\ Len(frames) \in Nat \ {0}
      /\ \A i \in 1..(Len(frames) - 1) : Outer[i] = frames[i]
      /\ Innermost \in Frame /\ Innermost = frames[Len(frames)]
  BY OuterFacts, StateFields DEF ContractInv, TransferRefused, Innermost
<1>2. (frames \in Seq(Frame))' /\ FramesSound'
  BY OuterKeepsFrames DEF TransferRefused
<1>3. /\ Sound(Innermost.before)
      /\ Innermost.before.status = ENTERED <=>
           \E j \in 1..Len(frames) : j < Len(frames) /\ frames[j].method = "unstake"
  BY <1>1 DEF ContractInv, FramesSound
<1>4. GuardTaken'
  <2> DEFINE n == Len(frames)
             m(i) == frames[i].method
  <2>1. /\ n \in Nat \ {0} /\ Len(frames') = n - 1 /\ reentrancyStatus' = Innermost.before.status
        /\ \A j \in 1..n - 1 : frames'[j].method = m(j)
    BY <1>1 DEF TransferRefused
  <2>2. (\E j \in 1..n : j < n /\ m(j) = "unstake") <=> \E j \in 1..n - 1 : m(j) = "unstake"
    <3> HIDE DEF m
    <3> QED
      BY <2>1
  <2>3. \A i, j \in 1..n : m(i) = "unstake" /\ m(j) = "unstake" => i = j
    BY DEF ContractInv, GuardTaken
  <2>4. \A i, j \in 1..n - 1 : m(i) = "unstake" /\ m(j) = "unstake" => i = j
    <3> HIDE DEF m
    <3> QED
      BY <2>1, <2>3
  <2> QED
    BY <1>3, <2>1, <2>2, <2>4 DEF GuardTaken
<1>5. Innermost.before \in StateType
  BY <1>1 DEF Frame
<1>6. ContractTypeOK'
  BY <1>2, <1>5, StateFields, FieldsStateNext DEF ContractInv, TransferRefused, StateType
<1>7. Sound(State)'
  BY <1>3 DEF TransferRefused, Sound, State
<1> QED
  BY <1>2, <1>4, <1>6, <1>7 DEF ContractInv

(* Every step of the contract keeps the invariant.                          *)
LEMMA ContractStep == ContractInv /\ [ContractNext]_contractVars => ContractInv'
<1> SUFFICES ASSUME ContractInv, [ContractNext]_contractVars PROVE ContractInv'
  OBVIOUS
<1>1. CASE UNCHANGED contractVars
  BY <1>1 DEF contractVars, ContractInv, ContractTypeOK, FramesSound, Sound, GuardTaken, State
<1>2. ASSUME NEW s \in Account, NEW v \in Amount, stake(s, v) \/ unstake(s, v) PROVE ContractInv'
  BY <1>2, AmountIsNat, StakePreserves, UnstakePreserves
<1>3. ASSUME NEW s \in Account, NEW a \in Account, NEW v \in Amount, slash(s, a, v) PROVE ContractInv'
  BY <1>3, AmountIsNat, SlashPreserves
<1>4. CASE TransferReturns
  BY <1>4, ReturnPreserves
<1>5. CASE TransferRefused
  BY <1>5, RefusalPreserves
<1> QED
  BY <1>1, <1>2, <1>3, <1>4, <1>5 DEF ContractNext

-----------------------------------------------------------------------------
(* The contract's money.                                                    *)

(* All stakes together.                                                     *)
Staked(s) == SumFunction([a \in Account |-> s[a].amount])

(* The contract holds them, and would again after undoing any transfer.     *)
SolventInv ==
  /\ balance = Staked(stakes)
  /\ \A i \in 1..Len(frames) : frames[i].before.balance = Staked(frames[i].before.stakes)

(* One stake that changes changes their total by as much.                   *)
LEMMA StakedChanges ==
  ASSUME NEW s \in [Account -> StakeRecord], NEW a \in Account, NEW r \in StakeRecord
  PROVE  /\ Staked(s) \in Nat
         /\ Staked([s EXCEPT ![a] = r]) + s[a].amount = Staked(s) + r.amount
<1>1. PICK f : f = [b \in Account |-> s[b].amount]
  OBVIOUS
<1>2. PICK g : g = [b \in Account |-> [s EXCEPT ![a] = r][b].amount]
  OBVIOUS
<1>3. f \in [Account -> Nat] /\ g \in [Account -> Nat]
  BY <1>1, <1>2 DEF StakeRecord
<1>4. (\A x \in Account \ {a} : g[x] = f[x]) /\ f[a] = s[a].amount /\ g[a] = r.amount
  BY <1>1, <1>2
<1>5. IsFiniteSet(Account)
  BY AccountAssumption
<1>6. SumFunction(f) \in Nat /\ SumFunction(g) + f[a] = SumFunction(f) + g[a]
  BY <1>3, <1>4, <1>5, SumChange
<1> QED
  BY <1>1, <1>2, <1>4, <1>6 DEF Staked

LEMMA SolventInitial == ContractInit => SolventInv
<1> SUFFICES ASSUME ContractInit PROVE SolventInv
  OBVIOUS
<1>1. [a \in Account |-> stakes[a].amount] = [a \in Account |-> 0]
  BY DEF ContractInit
<1>2. Staked(stakes) = 0
  BY <1>1, AccountAssumption, SumOfNone DEF Staked
<1> QED
  BY <1>2 DEF SolventInv, ContractInit

(* A transfer that takes from a stake what it takes from the balance.       *)
LEMMA DebitKeepsSolvent ==
  ASSUME ContractInv, SolventInv, NEW a \in Account, NEW amount \in Nat, amount > 0,
         stakes[a].amount >= amount,
         stakes' = [stakes EXCEPT ![a] = reduced(@, amount)],
         NEW method, NEW to, Transfer(method, to, amount)
  PROVE  SolventInv'
<1>1. /\ stakes \in [Account -> StakeRecord] /\ balance \in Nat /\ frames \in Seq(Frame)
      /\ stakes[a].amount \in Nat
  BY StateFields DEF ContractInv, StakeRecord
<1>2. PICK r : r = reduced(stakes[a], amount)
  OBVIOUS
<1>3. r \in StakeRecord /\ r.amount = stakes[a].amount - amount
  BY <1>1, <1>2 DEF reduced, StakeRecord
<1>4. stakes' = [stakes EXCEPT ![a] = r]
  BY <1>2
<1>5. Staked(stakes) \in Nat /\ Staked(stakes') + stakes[a].amount = Staked(stakes) + r.amount
  <2>1. /\ Staked(stakes) \in Nat
        /\ Staked([stakes EXCEPT ![a] = r]) + stakes[a].amount = Staked(stakes) + r.amount
    BY <1>1, <1>3, StakedChanges
  <2> QED
    BY <1>4, <2>1
<1>6. SumFunction([b \in Account |-> stakes'[b].amount]) \in Nat
  <2>1. [b \in Account |-> stakes'[b].amount] \in [Account -> Nat]
    BY <1>1, <1>3, <1>4 DEF StakeRecord
  <2> QED
    BY <2>1, AccountAssumption, SumType
<1>7. balance' = Staked(stakes')
  BY <1>1, <1>3, <1>5, <1>6 DEF SolventInv, Transfer, Staked
<1>8. ASSUME NEW i \in 1..Len(frames')
      PROVE  frames'[i].before.balance = Staked(frames'[i].before.stakes)
  <2>1. /\ Len(frames') = Len(frames) + 1 /\ Len(frames) \in Nat
        /\ frames'[Len(frames) + 1].before = State
        /\ \A j \in 1..Len(frames) : frames'[j] = frames[j]
    BY <1>1 DEF Transfer
  <2>2. CASE i \in 1..Len(frames)
    BY <2>1, <2>2 DEF SolventInv
  <2>3. CASE i = Len(frames) + 1
    BY <2>1, <2>3 DEF SolventInv, State
  <2> QED
    BY <1>8, <2>1, <2>2, <2>3
<1> QED
  BY <1>7, <1>8 DEF SolventInv, Staked

(* Every step of the contract keeps it solvent.                             *)
LEMMA SolventStep == ContractInv /\ SolventInv /\ [ContractNext]_contractVars => SolventInv'
<1> SUFFICES ASSUME ContractInv, SolventInv, [ContractNext]_contractVars PROVE SolventInv'
  OBVIOUS
<1>1. stakes \in [Account -> StakeRecord] /\ balance \in Nat /\ frames \in Seq(Frame)
  BY StateFields DEF ContractInv
<1>2. CASE UNCHANGED contractVars
  BY <1>2 DEF contractVars, SolventInv, Staked
<1>3. ASSUME NEW s \in Account, NEW v \in Nat, stake(s, v) PROVE SolventInv'
  <2>1. PICK r : r = [amount |-> stakes[s].amount + v, active |-> TRUE]
    OBVIOUS
  <2>2. r \in StakeRecord /\ r.amount = stakes[s].amount + v /\ stakes[s].amount \in Nat
    BY <1>1, <2>1 DEF StakeRecord
  <2>3. stakes' = [stakes EXCEPT ![s] = r] /\ balance' = balance + v /\ frames' = frames
    BY <1>3, <2>1 DEF stake
  <2>4. Staked(stakes) \in Nat /\ Staked(stakes') + stakes[s].amount = Staked(stakes) + r.amount
    <3>1. /\ Staked(stakes) \in Nat
          /\ Staked([stakes EXCEPT ![s] = r]) + stakes[s].amount = Staked(stakes) + r.amount
      BY <1>1, <2>2, StakedChanges
    <3> QED
      BY <2>3, <3>1
  <2>5. SumFunction([b \in Account |-> stakes'[b].amount]) \in Nat
    <3>1. [b \in Account |-> stakes'[b].amount] \in [Account -> Nat]
      BY <1>1, <2>2, <2>3 DEF StakeRecord
    <3> QED
      BY <3>1, AccountAssumption, SumType
  <2>6. balance' = Staked(stakes')
    BY <1>1, <2>2, <2>3, <2>4, <2>5 DEF SolventInv, Staked
  <2> QED
    BY <2>3, <2>6 DEF SolventInv, Staked
<1>4. ASSUME NEW s \in Account, NEW v \in Nat, unstake(s, v) PROVE SolventInv'
  BY <1>4, DebitKeepsSolvent DEF unstake
<1>5. ASSUME NEW s \in Account, NEW a \in Account, NEW v \in Nat, slash(s, a, v) PROVE SolventInv'
  BY <1>5, DebitKeepsSolvent DEF slash
<1>6. ASSUME frames # <<>>, frames' = Outer
      PROVE  /\ Innermost.before.balance = Staked(Innermost.before.stakes)
             /\ \A i \in 1..Len(frames') : frames'[i].before.balance = Staked(frames'[i].before.stakes)
  <2>1. /\ Outer \in Seq(Frame) /\ Len(Outer) = Len(frames) - 1 /\ Len(frames) \in Nat \ {0}
        /\ \A i \in 1..(Len(frames) - 1) : Outer[i] = frames[i]
    BY <1>1, <1>6, OuterFacts
  <2>2. Len(frames) \in 1..Len(frames) /\ \A i \in 1..(Len(frames) - 1) : i \in 1..Len(frames)
    BY <2>1
  <2> QED
    BY <1>6, <2>1, <2>2 DEF SolventInv, Innermost
<1>7. CASE TransferReturns
  BY <1>6, <1>7 DEF TransferReturns, SolventInv, Staked
<1>8. CASE TransferRefused
  BY <1>6, <1>8 DEF TransferRefused, SolventInv, Staked
<1> QED
  BY <1>2, <1>3, <1>4, <1>5, <1>7, <1>8, AmountIsNat DEF ContractNext

-----------------------------------------------------------------------------
(* The call of evaluateAndSlash.                                            *)

EvaluatorTypeOK ==
  /\ registry \in [Provider -> Account \cup {NoAddress}]
  /\ bindings \subseteq Provider \X Account
  /\ verification \in Verification
  /\ phase \in {"idle", "running", "mining", "returned", "threw"}
  /\ findings \in Seq(Finding)
  /\ next \in 1..Len(findings) + 1
  /\ mined \in Seq(1..Len(findings))

(* Whoever is found wrong has been bound to the address to be slashed.      *)
BindingsRecorded ==
  /\ \A p \in Provider : registry[p] # NoAddress => <<p, registry[p]>> \in bindings
  /\ \A i \in 1..Len(findings) : shouldSlash(findings[i]) =>
       findings[i].side \in Source /\ <<providerOf[findings[i].side], findings[i].agent>> \in bindings

(* The loop has mined exactly the slashing findings before next.            *)
LoopAtNext ==
  /\ \A j, k \in 1..Len(mined) : j < k => mined[j] < mined[k]
  /\ \A k \in 1..Len(mined) : mined[k] < next /\ shouldSlash(findings[mined[k]])
  /\ \A i \in 1..Len(findings) :
       i < next /\ shouldSlash(findings[i]) => \E k \in 1..Len(mined) : mined[k] = i
  /\ phase = "returned" => \A i \in 1..Len(findings) : shouldSlash(findings[i]) => i < next

EvaluatorInv == EvaluatorTypeOK /\ BindingsRecorded /\ LoopAtNext

(* Types and bindings survive whatever leaves the call alone.               *)
LEMMA EvaluatorUntouched ==
  ASSUME EvaluatorInv, UNCHANGED policyVars
  PROVE  EvaluatorInv'
BY DEF EvaluatorInv, EvaluatorTypeOK, BindingsRecorded, LoopAtNext, policyVars, callVars, shouldSlash

(* Before the first call there is nothing to relate.                        *)
LEMMA EvaluatorInitial == Init => EvaluatorInv
<1> SUFFICES ASSUME Init PROVE EvaluatorInv
  OBVIOUS
<1>1. verification \in Verification
  BY DEF Init, crossCheckBatches, Verification, Compared
<1>2. findings = <<>> /\ mined = <<>> /\ next = 1 /\ phase = "idle" /\ bindings = {}
  BY DEF Init
<1>3. findings \in Seq(Finding) /\ mined \in Seq(1..Len(findings)) /\ Len(findings) = 0 /\ Len(mined) = 0
  BY <1>2
<1>4. EvaluatorTypeOK
  BY <1>1, <1>2, <1>3 DEF EvaluatorTypeOK, Init
<1>5. BindingsRecorded /\ LoopAtNext
  BY <1>2, <1>3 DEF BindingsRecorded, LoopAtNext, Init
<1> QED
  BY <1>4, <1>5 DEF EvaluatorInv

(* A registration adds a binding and forgets none.                          *)
LEMMA RegisterPreserves ==
  ASSUME EvaluatorInv, NEW p \in Provider, NEW a \in AddressesOf[p], register(p, a)
  PROVE  EvaluatorInv'
<1>1. a \in Account
  BY EnforcementAssumption
<1>2. EvaluatorTypeOK'
  BY <1>1 DEF EvaluatorInv, EvaluatorTypeOK, register, callVars
<1>3. BindingsRecorded'
  BY <1>1 DEF EvaluatorInv, EvaluatorTypeOK, BindingsRecorded, register, callVars, shouldSlash
<1>4. LoopAtNext'
  BY DEF EvaluatorInv, LoopAtNext, register, callVars, shouldSlash
<1> QED
  BY <1>2, <1>3, <1>4 DEF EvaluatorInv

(* A verdict is a finding; one that slashes names an address bound to the   *)
(* provider of its side.                                                    *)
LEMMA VerdictIsFinding ==
  ASSUME EvaluatorInv, NEW side \in Source, NEW amount \in Nat,
         NEW class, NEW about,
         \/ class = "quality_failure" /\ about \in Source
         \/ class = "contradiction" /\ about \in Entry
  PROVE  LET f == Verdict(class, about, side, lookup(side), amount) IN
         /\ f \in Finding /\ f.reasonClass = class /\ f.about = about
         /\ f.side = side
         /\ shouldSlash(f) => <<providerOf[f.side], f.agent>> \in bindings
<1>1. providerOf[side] \in Provider /\ lookup(side) \in Account \cup {NoAddress}
  BY EnforcementAssumption DEF lookup, EvaluatorInv, EvaluatorTypeOK
<1> QED
  BY <1>1 DEF Verdict, Finding, shouldSlash, lookup, EvaluatorInv, BindingsRecorded

(* A verdict that slashes nobody is a finding, too.                         *)
LEMMA AcquittalIsFinding ==
  ASSUME NEW class, NEW about,
         \/ class = "quality_failure" /\ about \in Source
         \/ class = "contradiction" /\ about \in Entry
  PROVE  LET f == Verdict(class, about, NoSource, NoAddress, 0) IN
         f \in Finding /\ f.reasonClass = class /\ f.about = about /\ ~shouldSlash(f)
BY DEF Verdict, Finding, shouldSlash

(* Appending a finding ahead of the loop.                                   *)
LEMMA AppendFinding ==
  ASSUME EvaluatorInv, NEW f \in Finding, findings' = Append(findings, f),
         shouldSlash(f) => f.side \in Source /\ <<providerOf[f.side], f.agent>> \in bindings,
         phase = "running", UNCHANGED <<registry, bindings, verification, phase, next, mined>>
  PROVE  EvaluatorInv'
<1>1. /\ findings \in Seq(Finding) /\ findings' \in Seq(Finding)
      /\ Len(findings) \in Nat /\ Len(findings') = Len(findings) + 1
      /\ \A i \in 1..Len(findings) : findings'[i] = findings[i]
      /\ findings'[Len(findings) + 1] = f
  BY DEF EvaluatorInv, EvaluatorTypeOK
<1>2. mined \in Seq(1..Len(findings')) /\ next \in 1..Len(findings') + 1
  BY <1>1 DEF EvaluatorInv, EvaluatorTypeOK
<1>3. EvaluatorTypeOK'
  BY <1>1, <1>2 DEF EvaluatorInv, EvaluatorTypeOK
<1>4. BindingsRecorded'
  <2>1. \A i \in 1..Len(findings') : i \in 1..Len(findings) \/ i = Len(findings) + 1
    BY <1>1
  <2> QED
    BY <1>1, <2>1 DEF EvaluatorInv, BindingsRecorded, shouldSlash
<1>5. LoopAtNext'
  <2>1. \A k \in 1..Len(mined) : mined[k] \in 1..Len(findings)
    BY DEF EvaluatorInv, EvaluatorTypeOK
  <2>2. \A i \in 1..Len(findings') : i < next => i \in 1..Len(findings)
    BY <1>1 DEF EvaluatorInv, EvaluatorTypeOK
  <2> QED
    BY <1>1, <2>1, <2>2 DEF EvaluatorInv, LoopAtNext, shouldSlash
<1> QED
  BY <1>3, <1>4, <1>5 DEF EvaluatorInv

(* Judging a contradiction appends a finding.                               *)
LEMMA ContradictionPreserves ==
  ASSUME EvaluatorInv, NEW c \in verification.contradictions, evaluateContradiction(c)
  PROVE  EvaluatorInv'
<1>1. c \in Entry
  BY DEF EvaluatorInv, EvaluatorTypeOK, Verification
<1>2. CASE findings' = Append(findings, Verdict("contradiction", c, NoSource, NoAddress, 0))
  BY <1>1, <1>2, AcquittalIsFinding, AppendFinding DEF evaluateContradiction
<1>3. ASSUME NEW side \in Condemned(c), NEW amount \in ContradictionAmounts,
             findings' = Append(findings, Verdict("contradiction", c, side, lookup(side), amount))
      PROVE  EvaluatorInv'
  <2>1. side \in Source /\ amount \in Nat
    <3>1. side \in c.sides
      BY DEF Condemned, condemned, wrongSides, agreementFlagged
    <3> QED
      BY <1>1, <3>1, EnforcementAssumption DEF Entry, Pairs
  <2> DEFINE f == Verdict("contradiction", c, side, lookup(side), amount)
  <2>2. f \in Finding /\ (shouldSlash(f) => f.side \in Source /\ <<providerOf[f.side], f.agent>> \in bindings)
    BY <1>1, <2>1, VerdictIsFinding
  <2>3. findings' = Append(findings, f)
    BY <1>3
  <2> HIDE DEF f
  <2> QED
    BY <2>2, <2>3, AppendFinding DEF evaluateContradiction
<1> QED
  BY <1>2, <1>3 DEF evaluateContradiction

(* A new call has at most one finding, and its loop has not started.        *)
LEMMA FreshCall ==
  ASSUME EvaluatorInv, UNCHANGED <<registry, bindings, verification>>,
         mined' = <<>>, next' = 1, phase' \in {"running", "threw"},
         \/ findings' = <<>>
         \/ \E f \in Finding :
              /\ findings' = <<f>>
              /\ shouldSlash(f) => f.side \in Source /\ <<providerOf[f.side], f.agent>> \in bindings
  PROVE  EvaluatorInv'
<1>1. /\ findings' \in Seq(Finding) /\ Len(findings') \in {0, 1}
      /\ mined' \in Seq(1..Len(findings')) /\ Len(mined') = 0
      /\ next' \in 1..Len(findings') + 1
  <2>1. findings' \in Seq(Finding) /\ Len(findings') \in {0, 1}
    <3>1. CASE findings' = <<>>
      BY <3>1
    <3>2. ASSUME NEW f \in Finding, findings' = <<f>>
          PROVE  findings' \in Seq(Finding) /\ Len(findings') = 1
      <4> HIDE DEF Finding
      <4> QED
        BY <3>2
    <3> QED
      BY <3>1, <3>2
  <2>2. mined' \in Seq(1..Len(findings')) /\ Len(mined') = 0
    OBVIOUS
  <2> QED
    BY <2>1, <2>2
<1>2. EvaluatorTypeOK'
  BY <1>1 DEF EvaluatorInv, EvaluatorTypeOK
<1>3. BindingsRecorded'
  <2>1. CASE findings' = <<>>
    BY <2>1 DEF EvaluatorInv, BindingsRecorded
  <2>2. ASSUME NEW f \in Finding, findings' = <<f>>,
               shouldSlash(f) => f.side \in Source /\ <<providerOf[f.side], f.agent>> \in bindings
        PROVE  BindingsRecorded'
    BY <2>2 DEF EvaluatorInv, BindingsRecorded, shouldSlash
  <2> QED
    BY <2>1, <2>2
<1>4. LoopAtNext'
  BY <1>1 DEF LoopAtNext
<1> QED
  BY <1>2, <1>3, <1>4 DEF EvaluatorInv

(* A new call, up to the verdict on its batch.                              *)
LEMMA QualityPreserves ==
  ASSUME EvaluatorInv, NEW e \in Source \cup {NoSource}, evaluateQualityFailure(e)
  PROVE  EvaluatorInv'
<1>1. CASE findings' = <<>>
  BY <1>1, FreshCall DEF evaluateQualityFailure
<1>2. CASE e \in Source /\ findings' = <<Verdict("quality_failure", e, NoSource, NoAddress, 0)>>
  BY <1>2, AcquittalIsFinding, FreshCall DEF evaluateQualityFailure
<1>3. ASSUME e \in Source, NEW amount \in QualityAmounts,
             findings' = <<Verdict("quality_failure", e, e, lookup(e), amount)>>
      PROVE  EvaluatorInv'
  BY <1>3, EnforcementAssumption, VerdictIsFinding, FreshCall DEF evaluateQualityFailure
<1> QED
  BY <1>1, <1>2, <1>3 DEF evaluateQualityFailure

(* A transaction takes the first slashing finding that is left.             *)
LEMMA SubmitPreserves ==
  ASSUME EvaluatorInv, SubmitSlash
  PROVE  EvaluatorInv'
<1> PICK i \in ahead : /\ \A j \in ahead : i <= j
                       /\ mined' = Append(mined, i)
                       /\ next' = i + 1
  BY DEF SubmitSlash
<1>1. /\ UNCHANGED <<registry, bindings, verification, findings>> /\ phase' = "mining"
      /\ i \in 1..Len(findings) /\ i \in next..Len(findings) /\ shouldSlash(findings[i])
      /\ next \in Nat /\ Len(findings) \in Nat /\ mined \in Seq(1..Len(findings))
  BY DEF SubmitSlash, ahead, EvaluatorInv, EvaluatorTypeOK
<1>2. /\ mined' \in Seq(1..Len(findings)) /\ Len(mined) \in Nat
      /\ Len(mined') = Len(mined) + 1 /\ mined'[Len(mined) + 1] = i
      /\ \A k \in 1..Len(mined) : mined'[k] = mined[k] /\ mined[k] \in 1..Len(findings)
  BY <1>1
<1>3. EvaluatorTypeOK'
  BY <1>1, <1>2 DEF EvaluatorInv, EvaluatorTypeOK
<1>4. BindingsRecorded'
  BY <1>1 DEF EvaluatorInv, BindingsRecorded, shouldSlash
<1>5. LoopAtNext'
  <2>1. \A k \in 1..Len(mined) : mined[k] < next /\ mined[k] < i
    BY <1>1, <1>2 DEF EvaluatorInv, LoopAtNext
  <2>2. ASSUME NEW j \in 1..Len(mined'), NEW k \in 1..Len(mined'), j < k
        PROVE  mined'[j] < mined'[k]
    <3> DEFINE n == Len(mined)
    <3>0. n \in Nat /\ j \in 1..n + 1 /\ k \in 1..n + 1 /\ j < k
      BY <1>2, <2>2
    <3> HIDE DEF n
    <3>1. j \in 1..n /\ (k \in 1..n \/ k = n + 1)
      BY <3>0
    <3> USE DEF n
    <3>2. CASE k \in 1..Len(mined)
      BY <1>2, <2>2, <3>1, <3>2 DEF EvaluatorInv, LoopAtNext
    <3>3. CASE k = Len(mined) + 1
      BY <1>2, <2>1, <3>1, <3>3
    <3> QED
      BY <3>1, <3>2, <3>3
  <2>3. \A k \in 1..Len(mined') : mined'[k] < next' /\ shouldSlash(findings[mined'[k]])
    BY <1>1, <1>2, <2>1 DEF EvaluatorInv, LoopAtNext
  <2>4. ASSUME NEW j \in 1..Len(findings), j < next', shouldSlash(findings[j])
        PROVE  \E k \in 1..Len(mined') : mined'[k] = j
    <3>1. CASE j < next
      BY <1>2, <2>4, <3>1 DEF EvaluatorInv, LoopAtNext
    <3>2. CASE j >= next
      <4>1. j \in ahead
        BY <1>1, <2>4, <3>2 DEF ahead
      <4>2. j = i
        BY <1>1, <2>4, <4>1
      <4> QED
        BY <1>2, <4>2
    <3> QED
      BY <1>1, <3>1, <3>2
  <2> QED
    BY <1>1, <2>2, <2>3, <2>4 DEF LoopAtNext, shouldSlash
<1> QED
  BY <1>3, <1>4, <1>5 DEF EvaluatorInv

(* Receipts and ends of a call move no finding; a return has none left.     *)
LEMMA EndPreserves ==
  ASSUME EvaluatorInv, Receipt \/ Throw \/ Return
  PROVE  EvaluatorInv'
<1>1. /\ UNCHANGED <<registry, bindings, verification, findings, next, mined>>
      /\ phase' \in {"running", "threw", "returned"}
  BY DEF Receipt, Throw, Return
<1>2. phase' = "returned" => \A i \in 1..Len(findings) : shouldSlash(findings[i]) => i < next
  <2>1. next \in Nat /\ Len(findings) \in Nat
    BY DEF EvaluatorInv, EvaluatorTypeOK
  <2>2. phase' = "returned" => ahead = {}
    BY DEF Receipt, Throw, Return
  <2> QED
    BY <2>1, <2>2 DEF ahead
<1>3. EvaluatorTypeOK' /\ BindingsRecorded'
  BY <1>1 DEF EvaluatorInv, EvaluatorTypeOK, BindingsRecorded, shouldSlash
<1>4. LoopAtNext'
  BY <1>1, <1>2 DEF EvaluatorInv, LoopAtNext, shouldSlash
<1> QED
  BY <1>3, <1>4 DEF EvaluatorInv

(* What the contract sees of a step of the whole.                           *)
LEMMA ContractKept ==
  ASSUME ContractInv, EvaluatorInv, [Next]_vars
  PROVE  ContractInv'
<1>1. CASE UNCHANGED contractVars
  BY <1>1, ContractStep
<1>2. CASE ContractNext
  BY <1>2, ContractStep
<1>3. CASE SubmitSlash
  <2> PICK i \in ahead : slash(arbiter, findings[i].agent, findings[i].amount)
    BY <1>3 DEF SubmitSlash
  <2>1. findings[i] \in Finding /\ shouldSlash(findings[i])
    BY DEF ahead, EvaluatorInv, EvaluatorTypeOK
  <2>2. findings[i].agent \in Account /\ findings[i].amount \in Nat
    BY <2>1 DEF Finding, shouldSlash
  <2> QED
    BY <2>2, AccountAssumption, SlashPreserves
<1>4. ASSUME NEW p \in Provider, NEW a \in AddressesOf[p], register(p, a) PROVE UNCHANGED contractVars
  BY <1>4 DEF register
<1>5. ASSUME NEW e \in Source \cup {NoSource}, evaluateQualityFailure(e) PROVE UNCHANGED contractVars
  BY <1>5 DEF evaluateQualityFailure
<1>6. ASSUME NEW c \in verification.contradictions, evaluateContradiction(c) PROVE UNCHANGED contractVars
  BY <1>6 DEF evaluateContradiction
<1>7. CASE Receipt \/ Throw \/ Return
  BY <1>1, <1>7 DEF Receipt, Throw, Return
<1>8. CASE UNCHANGED vars
  BY <1>1, <1>8 DEF vars
<1> QED
  BY <1>1, <1>2, <1>3, <1>4, <1>5, <1>6, <1>7, <1>8 DEF Next

LEMMA SolventKept ==
  ASSUME ContractInv, EvaluatorInv, SolventInv, [Next]_vars
  PROVE  SolventInv'
<1>1. CASE UNCHANGED contractVars
  BY <1>1, SolventStep
<1>2. CASE ContractNext
  BY <1>2, SolventStep
<1>3. CASE SubmitSlash
  <2> PICK i \in ahead : slash(arbiter, findings[i].agent, findings[i].amount)
    BY <1>3 DEF SubmitSlash
  <2>1. findings[i] \in Finding /\ shouldSlash(findings[i])
    BY DEF ahead, EvaluatorInv, EvaluatorTypeOK
  <2>2. findings[i].agent \in Account /\ findings[i].amount \in Nat
    BY <2>1 DEF Finding, shouldSlash
  <2> QED
    BY <2>2, DebitKeepsSolvent DEF slash
<1>4. ASSUME NEW p \in Provider, NEW a \in AddressesOf[p], register(p, a) PROVE UNCHANGED contractVars
  BY <1>4 DEF register
<1>5. ASSUME NEW e \in Source \cup {NoSource}, evaluateQualityFailure(e) PROVE UNCHANGED contractVars
  BY <1>5 DEF evaluateQualityFailure
<1>6. ASSUME NEW c \in verification.contradictions, evaluateContradiction(c) PROVE UNCHANGED contractVars
  BY <1>6 DEF evaluateContradiction
<1>7. CASE Receipt \/ Throw \/ Return
  BY <1>1, <1>7 DEF Receipt, Throw, Return
<1>8. CASE UNCHANGED vars
  BY <1>1, <1>8 DEF vars
<1> QED
  BY <1>1, <1>2, <1>3, <1>4, <1>5, <1>6, <1>7, <1>8 DEF Next

(* What the call sees of a step of the whole.                               *)
LEMMA EvaluatorKept ==
  ASSUME EvaluatorInv, [Next]_vars
  PROVE  EvaluatorInv'
<1>1. CASE UNCHANGED policyVars
  BY <1>1, EvaluatorUntouched
<1>2. CASE UNCHANGED vars
  BY <1>1, <1>2 DEF vars
<1> QED
  BY <1>1, <1>2, RegisterPreserves, QualityPreserves, ContradictionPreserves,
     SubmitPreserves, EndPreserves DEF Next

(* The two sides of a contradiction are each other's peers.                 *)
LEMMA PeerFacts ==
  ASSUME NEW c \in Entry, NEW s \in c.sides
  PROVE  /\ Peer(c, s) \in c.sides /\ Peer(c, s) # s /\ c.sides = {s, Peer(c, s)}
         /\ Peer(c, Peer(c, s)) = s
<1>1. PICK q \in Source \X Source : q[1] # q[2] /\ c.sides = {q[1], q[2]}
  BY DEF Entry, Pairs
<1>2. \E t \in c.sides : t # s
  BY <1>1
<1>3. Peer(c, s) \in c.sides /\ Peer(c, s) # s
  BY <1>2 DEF Peer
<1>4. c.sides = {s, Peer(c, s)}
  BY <1>1, <1>3
<1>5. Peer(c, Peer(c, s)) \in c.sides /\ Peer(c, Peer(c, s)) # Peer(c, s)
  BY <1>3 DEF Peer
<1> QED
  BY <1>3, <1>4, <1>5

(* hasThirdPartyAgreement finds a third party, and only then.               *)
LEMMA ThirdPartyFacts ==
  ASSUME EvaluatorInv, NEW c \in Entry, NEW self \in c.sides
  PROVE  hasThirdPartyAgreement(Peer(c, self), self, verification.agreements)
           <=> ThirdParties(c, Peer(c, self)) # {}
<1> DEFINE peer == Peer(c, self)
<1>1. peer # self /\ peer \in c.sides /\ c.sides = {self, peer}
  BY PeerFacts
<1>2. verification.agreements \subseteq Entry
  BY DEF EvaluatorInv, EvaluatorTypeOK, Verification
<1>3. ASSUME NEW e \in verification.agreements, peer \in e.sides, self \notin e.sides
      PROVE  ThirdParties(c, peer) # {}
  <2>1. e \in Entry
    BY <1>2
  <2> DEFINE t == Peer(e, peer)
  <2>2. t \in e.sides /\ t # peer /\ e.sides = {t, peer}
    BY <1>3, <2>1, PeerFacts
  <2>3. t \in Source \ c.sides
    BY <1>1, <1>3, <2>1, <2>2 DEF Entry, Pairs
  <2> QED
    BY <2>2, <2>3 DEF ThirdParties
<1>4. ASSUME NEW t \in ThirdParties(c, peer)
      PROVE  hasThirdPartyAgreement(peer, self, verification.agreements)
  BY <1>1 DEF ThirdParties, hasThirdPartyAgreement
<1> QED
  BY <1>3, <1>4 DEF hasThirdPartyAgreement

(* The only side flagged has no third party, and has one against it or a    *)
(* failed batch.                                                            *)
LEMMA CondemnedStandsAlone ==
  ASSUME EvaluatorInv, NEW c \in verification.contradictions, NEW s \in Condemned(c)
  PROVE  /\ s \in c.sides /\ ThirdParties(c, s) = {}
         /\ ThirdParties(c, Peer(c, s)) # {} \/ s \in correlatedQualityFailures
<1> DEFINE wrong == wrongSides(c, verification.agreements, correlatedQualityFailures)
<1>1. c \in Entry
  BY DEF EvaluatorInv, EvaluatorTypeOK, Verification
<1>2. wrong = {s}
  BY DEF Condemned, condemned
<1>3. s \in c.sides
  BY <1>2 DEF wrongSides, agreementFlagged
<1>4. Peer(c, s) \in c.sides /\ Peer(c, s) # s /\ Peer(c, Peer(c, s)) = s
  BY <1>1, <1>3, PeerFacts
<1>5. ~hasThirdPartyAgreement(s, Peer(c, s), verification.agreements)
  BY <1>2, <1>4 DEF wrongSides, agreementFlagged
<1>6. ThirdParties(c, s) = {}
  BY <1>1, <1>4, <1>5, ThirdPartyFacts
<1>7. s \in correlatedQualityFailures
      \/ hasThirdPartyAgreement(Peer(c, s), s, verification.agreements)
  BY <1>2 DEF wrongSides, agreementFlagged
<1> QED
  BY <1>1, <1>3, <1>6, <1>7, ThirdPartyFacts

(* What is said of a contradiction's finding is decided when it is made:    *)
(* later findings of the call do not change the evidence.                   *)
LEMMA EvidenceKept ==
  ASSUME EvaluatorInv, SlashedSideStandsAlone, [Next]_vars
  PROVE  SlashedSideStandsAlone'
<1>1. CASE UNCHANGED <<verification, findings>>
  BY <1>1 DEF SlashedSideStandsAlone, OfClass, correlatedQualityFailures, ThirdParties, shouldSlash
<1>2. ASSUME NEW e \in Source \cup {NoSource}, evaluateQualityFailure(e) PROVE SlashedSideStandsAlone'
  <2>1. \A i \in DOMAIN findings' : findings'[i].reasonClass = "quality_failure"
    BY <1>2 DEF evaluateQualityFailure, Verdict
  <2> QED
    BY <2>1 DEF SlashedSideStandsAlone, OfClass
<1>3. ASSUME NEW c \in verification.contradictions, NEW f,
             findings' = Append(findings, f), f \in Finding, verification' = verification,
             f.reasonClass = "contradiction", f.about = c,
             shouldSlash(f) => f.side \in Condemned(c)
      PROVE  SlashedSideStandsAlone'
  <2> DEFINE n == Len(findings)
  <2>1. /\ findings \in Seq(Finding) /\ n \in Nat /\ DOMAIN findings = 1..n
        /\ DOMAIN findings' = 1..n + 1 /\ findings'[n + 1] = f
        /\ \A i \in 1..n : findings'[i] = findings[i]
    BY <1>3 DEF EvaluatorInv, EvaluatorTypeOK
  <2>2. correlatedQualityFailures' = correlatedQualityFailures
    BY <1>3, <2>1 DEF correlatedQualityFailures, OfClass, shouldSlash
  <2>3. ASSUME NEW i \in DOMAIN findings', findings'[i].reasonClass = "contradiction",
               shouldSlash(findings'[i])
        PROVE  /\ ThirdParties(findings'[i].about, findings'[i].side) = {}
               /\ \/ ThirdParties(findings'[i].about, Peer(findings'[i].about, findings'[i].side)) # {}
                  \/ findings'[i].side \in correlatedQualityFailures
    <3>1. CASE i \in 1..n
      BY <2>1, <2>3, <3>1 DEF SlashedSideStandsAlone, OfClass
    <3>2. CASE i = n + 1
      BY <1>3, <2>1, <2>3, <3>2, CondemnedStandsAlone
    <3> QED
      BY <2>1, <3>1, <3>2
  <2>4. ASSUME NEW i \in OfClass("contradiction")', shouldSlash(findings'[i])
        PROVE  /\ ThirdParties(findings[i].about, findings[i].side)' = {}
               /\ \/ ThirdParties(findings[i].about, Peer(findings[i].about, findings[i].side))' # {}
                  \/ findings'[i].side \in correlatedQualityFailures'
    <3>1. i \in DOMAIN findings' /\ findings'[i].reasonClass = "contradiction"
      BY <2>4 DEF OfClass
    <3>2. verification' = verification
      BY <1>3
    <3> QED
      BY <2>2, <2>3, <2>4, <3>1, <3>2 DEF ThirdParties
  <2> QED
    BY <2>4 DEF SlashedSideStandsAlone, shouldSlash
<1>4. ASSUME NEW c \in verification.contradictions, evaluateContradiction(c)
      PROVE  SlashedSideStandsAlone'
  <2>1. c \in Entry /\ verification' = verification
    BY <1>4 DEF EvaluatorInv, EvaluatorTypeOK, Verification, evaluateContradiction
  <2>2. CASE findings' = Append(findings, Verdict("contradiction", c, NoSource, NoAddress, 0))
    BY <1>3, <2>1, <2>2, AcquittalIsFinding
  <2>3. ASSUME NEW side \in Condemned(c), NEW amount \in ContradictionAmounts,
               findings' = Append(findings, Verdict("contradiction", c, side, lookup(side), amount))
        PROVE  SlashedSideStandsAlone'
    <3>1. side \in Source /\ amount \in Nat
      <4>1. side \in c.sides
        BY CondemnedStandsAlone
      <4> QED
        BY <2>1, <4>1, EnforcementAssumption DEF Entry, Pairs
    <3> DEFINE f == Verdict("contradiction", c, side, lookup(side), amount)
    <3>2. f.reasonClass = "contradiction" /\ f.about = c /\ f.side = side
      BY DEF Verdict
    <3>3. f \in Finding
      BY <2>1, <3>1, VerdictIsFinding
    <3>4. findings' = Append(findings, f)
      BY <2>3
    <3> HIDE DEF f
    <3> QED
      BY <1>3, <2>1, <2>3, <3>2, <3>3, <3>4
  <2> QED
    BY <1>4, <2>2, <2>3 DEF evaluateContradiction
<1>5. CASE Receipt \/ Throw \/ Return \/ SubmitSlash \/ UNCHANGED policyVars \/ UNCHANGED vars
  BY <1>1, <1>5 DEF Receipt, Throw, Return, SubmitSlash, policyVars, callVars, vars
<1>6. ASSUME NEW p \in Provider, NEW a \in AddressesOf[p], register(p, a) PROVE SlashedSideStandsAlone'
  BY <1>1, <1>6 DEF register, callVars
<1> QED
  BY <1>2, <1>4, <1>5, <1>6 DEF Next

(* The inductive invariant of the whole.                                    *)
LEMMA Invariant == Spec => [](ContractInv /\ EvaluatorInv /\ SlashedSideStandsAlone)
<1>1. Init => ContractInv /\ EvaluatorInv
  BY ContractInitial, EvaluatorInitial DEF Init
<1>2. Init => SlashedSideStandsAlone
  BY DEF Init, SlashedSideStandsAlone, OfClass
<1>3. ContractInv /\ EvaluatorInv /\ SlashedSideStandsAlone /\ [Next]_vars
        => (ContractInv /\ EvaluatorInv /\ SlashedSideStandsAlone)'
  BY ContractKept, EvaluatorKept, EvidenceKept
<1> QED
  BY <1>1, <1>2, <1>3, PTL DEF Spec

-----------------------------------------------------------------------------
(* Contract, registry and call keep their types, whatever was nested,       *)
(* reverted or thrown.                                                      *)
THEOREM TypeCorrect == Spec => []TypeOK
<1>1. ContractInv /\ EvaluatorInv => TypeOK
  BY DEF ContractInv, EvaluatorInv, EvaluatorTypeOK, TypeOK
<1> QED
  BY <1>1, Invariant, PTL

(* AgentStake.sol: no nesting of calls during a transfer and no revert      *)
(* makes an account's stake differ from what it put in less what it took    *)
(* out and lost.                                                            *)
THEOREM StakesAreAccountedFor == Spec => []StakesAccountedFor
<1>1. ContractInv => StakesAccountedFor
  BY DEF ContractInv, Sound, State, StakesAccountedFor
<1> QED
  BY <1>1, Invariant, PTL

(* AgentStake.sol: whatever is staked, slashed and withdrawn, from whatever *)
(* depth of nested calls, and whatever is undone, the contract holds the    *)
(* sum of all stakes.                                                       *)
THEOREM StaysSolvent == Spec => []Solvent
<1>1. Init => SolventInv
  BY SolventInitial DEF Init
<1>2. ContractInv /\ EvaluatorInv /\ SolventInv /\ [Next]_vars => SolventInv'
  BY SolventKept
<1>3. SolventInv => Solvent
  BY DEF SolventInv, Staked, Solvent
<1> QED
  BY <1>1, <1>2, <1>3, Invariant, PTL DEF Spec

(* AgentStake.sol: the active flag and the money come and go together.      *)
THEOREM ActiveMeansFunded == Spec => []ActiveIffFunded
<1>1. ContractInv => ActiveIffFunded
  BY DEF ContractInv, Sound, State, ActiveIffFunded
<1> QED
  BY <1>1, Invariant, PTL

(* AgentStake.sol: the guard of nonReentrant is taken during one withdrawal *)
(* at a time and at no other time.                                          *)
THEOREM GuardCovers == Spec => []GuardCoversOneWithdrawal
<1>1. ContractInv => GuardCoversOneWithdrawal
  BY DEF ContractInv, ContractTypeOK, GuardTaken, GuardCoversOneWithdrawal
<1> QED
  BY <1>1, Invariant, PTL

(* policy/index.js: the transactions of a call are its slashing findings,   *)
(* in order, each at most once, all of them if the call returns.            *)
THEOREM EnforcedInOrder == Spec => []FindingsEnforcedInOrder
<1>1. EvaluatorInv => FindingsEnforcedInOrder
  <2> SUFFICES ASSUME EvaluatorInv PROVE FindingsEnforcedInOrder
    OBVIOUS
  <2>1. /\ DOMAIN findings = 1..Len(findings) /\ DOMAIN mined = 1..Len(mined)
        /\ next \in Nat /\ \A k \in 1..Len(mined) : mined[k] \in 1..Len(findings)
    BY DEF EvaluatorInv, EvaluatorTypeOK
  <2>2. \A j, k \in DOMAIN mined : j < k => mined[j] < mined[k]
    BY <2>1 DEF EvaluatorInv, LoopAtNext
  <2>3. ASSUME NEW i \in DOMAIN findings, shouldSlash(findings[i]), NEW k \in DOMAIN mined, i < mined[k]
        PROVE  \E j \in DOMAIN mined : mined[j] = i
    BY <2>1, <2>3 DEF EvaluatorInv, LoopAtNext
  <2>4. \A k \in DOMAIN mined : mined[k] \in DOMAIN findings /\ shouldSlash(findings[mined[k]])
    BY <2>1 DEF EvaluatorInv, LoopAtNext
  <2>5. ASSUME phase = "returned", NEW i \in DOMAIN findings, shouldSlash(findings[i])
        PROVE  \E j \in DOMAIN mined : mined[j] = i
    BY <2>1, <2>5 DEF EvaluatorInv, LoopAtNext
  <2> QED
    BY <2>2, <2>3, <2>4, <2>5 DEF FindingsEnforcedInOrder
<1> QED
  BY <1>1, Invariant, PTL

(* policy/index.js, identity-registry.js: each transaction slashes an       *)
(* address that was bound to the provider found wrong.                      *)
THEOREM SlashesHitTheWrongSide == Spec => []SlashHitsTheWrongSide
<1>1. EvaluatorInv => SlashHitsTheWrongSide
  <2> SUFFICES ASSUME EvaluatorInv, NEW k \in DOMAIN mined
               PROVE  /\ findings[mined[k]].side \in Source
                      /\ <<providerOf[findings[mined[k]].side], findings[mined[k]].agent>> \in bindings
    BY DEF SlashHitsTheWrongSide
  <2>1. mined[k] \in 1..Len(findings) /\ shouldSlash(findings[mined[k]])
    <3>1. mined \in Seq(1..Len(findings)) BY DEF EvaluatorInv, EvaluatorTypeOK
    <3>2. k \in 1..Len(mined) /\ mined[k] \in 1..Len(findings) BY <3>1
    <3> QED BY <3>2 DEF EvaluatorInv, LoopAtNext
  <2> QED
    BY <2>1 DEF EvaluatorInv, BindingsRecorded
<1> QED
  BY <1>1, Invariant, PTL

(* slash-policy.js: of two sides that contradict each other, the one        *)
(* slashed has no third source on its side, and there is one against it or  *)
(* its batch failed on its own.                                             *)
THEOREM SlashedStandsAlone == Spec => []SlashedSideStandsAlone
BY Invariant, PTL
=============================================================================
