SPECIFICATION Spec
CONSTANTS
  a1 = a1
  k1 = k1
  k2 = k2
  q = q
  qx = qx
  rk = rk
  b1 = b1
  b2 = b2
  hq = hq
  hr = hr
  hb = hb
  Accounts = {a1}
  Hashes = {hq, hr, hb}
  NoHash = NoHash
  Keys = {k1, k2}
  KeyAccount <- MCKeyAccount
  Requests = {q, qx, rk, b1, b2}
  Body <- MCBody
  Prices = {4}
  RoutePrice = 2
  MarginPercent = 15
  TopUpMills = {4, 110}
  MaxTopUps = 1
  MaxFaults = 1
INVARIANT UnpaidPodIsSurfaced
