--------------------------- MODULE PaymentIntake ---------------------------
(***************************************************************************)
(* What payment intake promises, with no webhook, retry, crash or ledger   *)
(* in sight: a payment adds exactly its amount to its account, at most     *)
(* once, and nothing else adds to an account; spending never overdraws.    *)
(***************************************************************************)
EXTENDS Integers

CONSTANTS
  Payments,    \* payments a customer may make
  Owners,      \* accounts
  Owner,       \* the account a payment is for
  Amount       \* its amount, in cents

VARIABLES
  credited,    \* payments turned into credit
  funds        \* the credit each account has left

Init ==
  /\ credited = {}
  /\ funds = [a \in Owners |-> 0]

Credit(p) ==
  /\ p \notin credited
  /\ credited' = credited \cup {p}
  /\ funds' = [funds EXCEPT ![Owner[p]] = @ + Amount[p]]

Spend(a) ==
  /\ \E left \in 0 .. funds[a] : funds' = [funds EXCEPT ![a] = left]
  /\ UNCHANGED credited

Next ==
  \/ \E p \in Payments : Credit(p)
  \/ \E a \in Owners : Spend(a)

Spec == Init /\ [][Next]_<<credited, funds>>
=============================================================================
