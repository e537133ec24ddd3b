----------------------------- MODULE PaidAccess -----------------------------
(***************************************************************************)
(* What the x402 rail promises, with no facilitator, no remote call, no    *)
(* table and no crash in sight: a request is served in one step, either    *)
(* for a transfer that was executed and pays enough, or as a repeat of the *)
(* same request, bought a short while ago.  A transfer sells to a second   *)
(* request only if that request was there before the first was sold.       *)
(***************************************************************************)
EXTENDS Integers

CONSTANTS
  Requests,
  Wants,        \* what a request asks for
  Transfers,    \* transfers a payer may make
  Acceptable,   \* those of them that pay enough, to the right account
  ReceiptTTL    \* for how long after its arrival a purchase may be repeated

VARIABLES now, executed, purchases, repeated

Init ==
  /\ now = 0
  /\ executed = {}
  /\ purchases = {}
  /\ repeated = {}

Served(r) == r \in repeated \/ \E p \in purchases : p.request = r

Wait ==
  /\ now' = now + 1
  /\ UNCHANGED <<executed, purchases, repeated>>

Execute(t) ==
  /\ t \notin executed
  /\ executed' = executed \cup {t}
  /\ UNCHANGED <<now, purchases, repeated>>

\* r, which arrived at time `since`, buys with transfer t.
Buy(r, t, since) ==
  /\ ~Served(r)
  /\ t \in executed \cap Acceptable
  /\ \A p \in purchases : p.transfer = t => since <= p.at
  /\ purchases' = purchases \cup
       {[request |-> r, transfer |-> t, arrived |-> since, at |-> now]}
  /\ UNCHANGED <<now, executed, repeated>>

Repeat(r) ==
  /\ ~Served(r)
  /\ \E p \in purchases : /\ Wants[p.request] = Wants[r]
                          /\ now <= p.arrived + ReceiptTTL
  /\ repeated' = repeated \cup {r}
  /\ UNCHANGED <<now, executed, purchases>>

Next ==
  \/ Wait
  \/ \E t \in Transfers : Execute(t)
  \/ \E r \in Requests : Repeat(r)
  \/ \E r \in Requests, t \in Transfers, since \in 0 .. now : Buy(r, t, since)

Spec == Init /\ [][Next]_<<now, executed, purchases, repeated>>
=============================================================================
