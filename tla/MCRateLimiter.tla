--------------------------- MODULE MCRateLimiter ---------------------------
\* Two callers behind one proxy and one with an address of its own, two requests
\* in a window of three units, and time for two windows to pass and a third to
\* begin.
EXTENDS RateLimiter, TLC

CONSTANTS behind1, behind2, direct, proxy, own

AddressOfCaller == behind1 :> proxy @@ behind2 :> proxy @@ direct :> own
=============================================================================
