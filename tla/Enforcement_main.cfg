SPECIFICATION Spec
CONSTANTS
  alice = alice
  bob = bob
  deployer = deployer
  anna = anna
  ben = ben
  a0 = a0
  b0 = b0
  b1 = b1
  NoAddress = NoAddress
  NoSource = NoSource
  NoClaim = NoClaim
  Account = {alice, bob, deployer}
  arbiter = deployer
  MayHaveCode = {alice, deployer}
  Funds <- SomeMoney
  MaxDepth = 2
  Source = {a0, b0, b1}
  Subject = {"failures", "cost"}
  Value = {1, 2, 3}
  Provider = {anna, ben}
  providerOf <- ProviderOfBatch
  AddressesOf <- AddressesOfBen
  QualityAmounts = {1}
  ContradictionAmounts = {1}
  PossibleClaims <- ClaimsOnTwoSubjects
INVARIANTS
  StakesAccountedFor
  Solvent
  ActiveIffFunded
  GuardCoversOneWithdrawal
  SlashedSideStandsAlone
  FindingsEnforcedInOrder
  SlashHitsTheWrongSide
CHECK_DEADLOCK FALSE
