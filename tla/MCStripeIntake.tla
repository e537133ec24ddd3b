--------------------------- MODULE MCStripeIntake ---------------------------
\* Two payments into one account, one into another account, and an event of a
\* type the webhook ignores.
EXTENDS StripeIntake

CONSTANTS a1, a2, p1, p2, p3, other, h1

MCBody ==
  [e \in Events |->
     CASE e = p1 -> [type |-> Completed, account |-> a1, cents |-> 1]
       [] e = p2 -> [type |-> Completed, account |-> a1, cents |-> 2]
       [] e = p3 -> [type |-> Completed, account |-> a2, cents |-> 1]
       [] OTHER  -> [type |-> "charge.refunded", account |-> a1, cents |-> 2]]

MCAges == {-301, 0, 301}
=============================================================================
