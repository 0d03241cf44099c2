SPECIFICATION FairSpec
CONSTANTS
  MaxLogins = 3
  MaxPolls = 2
INVARIANTS
  SessionIsWhatWasTold
PROPERTIES
  LoginEnds
