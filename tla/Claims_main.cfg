SPECIFICATION Spec
CONSTANTS
  MaxAge = 1
  Skew = 1
  MaxNow = 2
  MaxRestarts = 1
  Stem <- MCStem
  Ln100 <- MCLn100
  StemDice <- MCStemDice
  AlikeUnits <- MCAlikeUnits
  Bundle <- MCBundle
  Deliveries <- MCDeliveries
  Sources <- MCSources
  Downstreams <- MCDownstreams
  BundleSource <- MCBundleSource
  ProposalOf <- MCProposalOf
INVARIANTS
  ReceiptsComplete
  NothingGuessed
  CopyIsNeverCorrupt
  AcceptedIsFaithful
  OrderIndependent
  PassesAgainOnlyAfterRestart
  FloorIsHighestAccepted
  EquivocationIsEvidenced
  AcceptedProposalsAreSound
CHECK_DEADLOCK FALSE
