--------------------------- MODULE PrepaidAccess ---------------------------
(***************************************************************************)
(* What prepaid access promises, with no key, handler, vendor, table or    *)
(* crash in sight: a request is paid for in one step, at most once, at a   *)
(* price it may cost and its account can afford; nothing is delivered that *)
(* was not paid for, nothing else takes credit from an account, and only   *)
(* a top-up adds to one.  What was paid for may never be delivered.        *)
(***************************************************************************)
EXTENDS Integers

CONSTANTS
  Requests,
  Owners,      \* accounts
  Owner,       \* [Requests -> Owners]: the account a request is made for
  MayCost,     \* [Requests -> SUBSET Nat]: prices a request may have, in cents
  Amounts       \* amounts that may be added, in cents

VARIABLES funds, paid, delivered

Init ==
  /\ funds = [a \in Owners |-> 0]
  /\ paid = {}
  /\ delivered = {}

Add(a) ==
  /\ \E cents \in Amounts : funds' = [funds EXCEPT ![a] = @ + cents]
  /\ UNCHANGED <<paid, delivered>>

\* Pays for r, and delivers it at once or leaves that for later.
Sell(r) ==
  /\ r \notin paid
  /\ \E price \in MayCost[r] :
       /\ price <= funds[Owner[r]]
       /\ funds' = [funds EXCEPT ![Owner[r]] = @ - price]
  /\ paid' = paid \cup {r}
  /\ delivered' \in {delivered, delivered \cup {r}}

Deliver(r) ==
  /\ r \in paid \ delivered
  /\ delivered' = delivered \cup {r}
  /\ UNCHANGED <<funds, paid>>

Next ==
  \/ \E a \in Owners : Add(a)
  \/ \E r \in Requests : Sell(r) \/ Deliver(r)

Spec == Init /\ [][Next]_<<funds, paid, delivered>>
=============================================================================
