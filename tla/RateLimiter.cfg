SPECIFICATION Spec
CONSTANTS
  behind1 = behind1
  behind2 = behind2
  direct = direct
  proxy = proxy
  own = own
  Callers = {behind1, behind2, direct}
  Addresses = {proxy, own}
  AddressOf <- AddressOfCaller
  MaxRequests = 2
  Window = 3
  MaxClock = 6
INVARIANTS
  TypeOK
  RateIsBounded
  LimitedOnlyByItsAddress
