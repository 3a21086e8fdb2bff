CONSTANTS
  u1 = u1
  anna = anna
  otto = otto
  good = good
  bad = bad
  x = x
  Unscoped = Unscoped
  None = None
  Url <- Urls
  User <- Users
  Password <- Passwords
  Words <- OneWord
  Right = good
  Item <- OneItem
  Mobile = FALSE
  Undecipherable = FALSE
  MaxEpoch = 2
  MaxMobile = 3
SPECIFICATION AllSpec
INVARIANTS
  Isolation DifferenceIsQueued

  
SYMMETRY Symmetry
CHECK_DEADLOCK FALSE
