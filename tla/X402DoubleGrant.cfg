SPECIFICATION Spec
CONSTANTS
  q1 = q1
  q2 = q2
  q3 = q3
  h1 = h1
  h2 = h2
  good = good
  short = short
  payer = payer
  Requests = {q1, q2, q3}
  Hash <- MCHash
  Auths = {good, short}
  NoAuth = NoAuth
  AuthBody <- MCAuthBody
  Treasury = Treasury
  Price = 2
  ReceiptTTL = 1
  MaxClock = 3
  MaxCrashes = 1
INVARIANT OneGrantPerTransaction
CHECK_DEADLOCK FALSE
