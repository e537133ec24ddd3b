--------------------------- MODULE MCBearerRoutes ---------------------------
\* One account with two keys.  A quote and a rank, and a booking sent twice:
\* b1 and b2 have the same body, hence the same hash, under different keys.
\* qx is a quote whose body is refused.
EXTENDS BearerRoutes

CONSTANTS a1, k1, k2, q, qx, rk, b1, b2, hq, hr, hb

MCKeyAccount == [k \in Keys |-> a1]

MCBody ==
  [r \in Requests |->
     CASE r = q  -> [route |-> "quote", key |-> k1, hash |-> hq, hours |-> 1, valid |-> TRUE]
       [] r = qx -> [route |-> "quote", key |-> k1, hash |-> hq, hours |-> 1, valid |-> FALSE]
       [] r = rk -> [route |-> "rank",  key |-> k1, hash |-> hr, hours |-> 1, valid |-> TRUE]
       [] r = b1 -> [route |-> "book",  key |-> k1, hash |-> hb, hours |-> 10, valid |-> TRUE]
       [] r = b2 -> [route |-> "book",  key |-> k2, hash |-> hb, hours |-> 10, valid |-> TRUE]]
=============================================================================
