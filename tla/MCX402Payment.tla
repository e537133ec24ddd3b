--------------------------- MODULE MCX402Payment ---------------------------
\* Two requests with one hash and a third with another; a payer with one good
\* authorization, valid for three ticks and for more than the price, and one
\* that pays too little.
EXTENDS X402Payment

CONSTANTS q1, q2, q3, h1, h2, good, short, payer

MCHash == [r \in Requests |-> IF r = q3 THEN h2 ELSE h1]

MCAuthBody ==
  [a \in Auths |-> [from |-> payer, signer |-> payer, to |-> Treasury,
                    value |-> IF a = good THEN Price + 1 ELSE Price - 1,
                    validAfter |-> 0, validBefore |-> 3]]
=============================================================================
