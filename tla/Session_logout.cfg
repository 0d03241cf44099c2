SPECIFICATION Spec
CONSTANTS
  MaxLogins = 1
  MaxPolls = 1
INVARIANTS
  LogoutForgets
