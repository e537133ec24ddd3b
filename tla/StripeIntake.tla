---------------------------- MODULE StripeIntake ----------------------------
(***************************************************************************)
(* Buying credit with Stripe: a Checkout Session is opened, the customer   *)
(* pays, Stripe delivers checkout.session.completed to the webhook again   *)
(* and again until it is answered 200, and the webhook turns it into a     *)
(* top-up.                                                                 *)
(*                                                                         *)
(* The handler has no await, so no other request runs inside it; but       *)
(* recordIfNew and topUp are two transactions, and the process can die, or *)
(* the second one fail, between them.  The handler is therefore two        *)
(* actions, RecordEvent and TopUpEvent, with `handling` naming the event   *)
(* that sits in between; nothing but a failure can come in between.        *)
(***************************************************************************)
EXTENDS CreditLedger

CONSTANTS
  Events,       \* Stripe event ids
  NoEvent,
  EventBody,    \* [Events -> [type, account, cents]]: the body behind an id
  Tolerance,    \* DEFAULT_TOLERANCE_SECONDS
  Ages,         \* ages, in seconds, a delivery may have on arrival
  MaxFaults     \* bound on crashes, failed transactions and lost answers

ASSUME EventAssumption ==
  /\ NoEvent \notin Events
  /\ \A e \in Events : EventBody[e].cents \in Int
  /\ MaxFaults \in Nat

VARIABLES
  stripe,       \* Stripe's side of each event, see StripeStates
  serverUp,
  handling,     \* event recorded but not yet topped up, or NoEvent
  processed,    \* ids in processed_payment_events
  answer,       \* what the webhook last answered for each event
  credited,     \* history: events whose topUp committed
  faults        \* failures so far, bounded by MaxFaults

intakeVars == <<stripe, serverUp, handling, processed, answer, credited, faults>>
vars == <<ledgerVars, intakeVars>>

Completed == "checkout.session.completed"

\* Nothing yet; the server waits for Stripe to create the session; its link never
\* reached the customer; the customer may pay; undelivered; answered 200.
StripeStates == {"none", "creating", "abandoned", "open", "pending", "acked"}

Answers == {"none", "invalid_signature", "ignored", "duplicate_ignored",
            "credited", "internal_error"}

Init ==
  /\ LedgerInit
  /\ stripe = [e \in Events |-> "none"]
  /\ serverUp = TRUE
  /\ handling = NoEvent
  /\ processed = {}
  /\ answer = [e \in Events |-> "none"]
  /\ credited = {}
  /\ faults = 0

----------------------------------------------------------------------------
(* Verification and parsing.                                               *)

\* A delivery carries the age of its t= part and what its v1= parts are worth.
Signatures == [age : Ages, v1 : {"missing", "mismatch", "match"}]

Verified(sig) ==
  /\ sig.v1 = "match"
  /\ sig.age <= Tolerance
  /\ sig.age >= -Tolerance

\* What parseCheckoutCompletedEvent turns into a top-up; the rest is ignored.
Actionable(e) ==
  /\ EventBody[e].type = Completed
  /\ EventBody[e].account \in Accounts
  /\ EventBody[e].cents > 0

\* cents / 100 dollars, in the grain CreditLedger takes.
AmountMills(e) == 10 * EventBody[e].cents

----------------------------------------------------------------------------
(* Checkout and Stripe.                                                    *)

\* The server runs one handler to its end before it starts another.
Idle == serverUp /\ handling = NoEvent

Fault == faults < MaxFaults /\ faults' = faults + 1

\* POST /v1/checkout-sessions asks Stripe for a session, which will carry the
\* accountId unchecked, and waits; other handlers run in the meantime.
OpenCheckout(e) ==
  /\ Idle
  /\ stripe[e] = "none"
  /\ Actionable(e)
  /\ stripe' = [stripe EXCEPT ![e] = "creating"]
  /\ UNCHANGED <<ledgerVars, serverUp, handling, processed, answer, credited, faults>>

\* 201 with the link, or 502: Stripe declined, or the session exists and its
\* link is lost.  Nothing about a session is stored; to try again opens another.
AnswerCheckout(e) ==
  /\ Idle
  /\ stripe[e] = "creating"
  /\ \E outcome \in {"open", "abandoned"} : stripe' = [stripe EXCEPT ![e] = outcome]
  /\ UNCHANGED <<ledgerVars, serverUp, handling, processed, answer, credited, faults>>

\* The customer pays, or Stripe emits an event this server did not cause.
StripeEmits(e) ==
  /\ stripe[e] = IF Actionable(e) THEN "open" ELSE "none"
  /\ stripe' = [stripe EXCEPT ![e] = "pending"]
  /\ UNCHANGED <<ledgerVars, serverUp, handling, processed, answer, credited, faults>>

\* At-least-once delivery: an acknowledged event may still arrive again.
Delivered(e) == Idle /\ stripe[e] \in {"pending", "acked"}

\* A 200 stops Stripe's retries, unless it is lost on the way.
Answer200(e, text) ==
  /\ answer' = [answer EXCEPT ![e] = text]
  /\ \/ stripe' = [stripe EXCEPT ![e] = "acked"] /\ UNCHANGED faults
     \/ UNCHANGED stripe /\ Fault

\* A 500 leaves the event to be retried.
AnswerError(e, text) ==
  /\ answer' = [answer EXCEPT ![e] = text]
  /\ Fault
  /\ UNCHANGED stripe

----------------------------------------------------------------------------
(* POST /v1/webhooks/stripe.                                               *)

\* A bug that acknowledges what it could not verify.
RejectSignatureOk(e) ==
  /\ Delivered(e)
  /\ \E sig \in Signatures : ~Verified(sig)
  /\ Answer200(e, "invalid_signature")
  /\ UNCHANGED <<ledgerVars, serverUp, handling, processed, credited>>

\* 400: nothing failed, and Stripe will deliver the event again.
RejectSignature(e) ==
  /\ Delivered(e)
  /\ \E sig \in Signatures : ~Verified(sig)
  /\ answer' = [answer EXCEPT ![e] = "invalid_signature"]
  /\ UNCHANGED <<ledgerVars, stripe, serverUp, handling, processed, credited, faults>>

\* A bug that takes a delivery it should act on for one to ignore.
IgnoreAnyEvent(e) ==
  /\ Delivered(e)
  /\ \E sig \in Signatures : Verified(sig)
  /\ Answer200(e, "ignored")
  /\ UNCHANGED <<ledgerVars, serverUp, handling, processed, credited>>

IgnoreEvent(e) ==
  /\ Delivered(e)
  /\ \E sig \in Signatures : Verified(sig)
  /\ ~Actionable(e)
  /\ Answer200(e, "ignored")
  /\ UNCHANGED <<ledgerVars, serverUp, handling, processed, credited>>

\* A bug that ignores what recordIfNew returns.
RecordAgain(e) ==
  /\ Delivered(e)
  /\ \E sig \in Signatures : Verified(sig)
  /\ Actionable(e)
  /\ processed' = processed \cup {e}
  /\ handling' = e
  /\ UNCHANGED <<ledgerVars, stripe, serverUp, answer, credited, faults>>

\* recordIfNew commits; the handler goes on to topUp.
RecordEvent(e) ==
  /\ Delivered(e)
  /\ \E sig \in Signatures : Verified(sig)
  /\ Actionable(e)
  /\ e \notin processed
  /\ processed' = processed \cup {e}
  /\ handling' = e
  /\ UNCHANGED <<ledgerVars, stripe, serverUp, answer, credited, faults>>

AnswerDuplicate(e) ==
  /\ Delivered(e)
  /\ \E sig \in Signatures : Verified(sig)
  /\ Actionable(e)
  /\ e \in processed
  /\ Answer200(e, "duplicate_ignored")
  /\ UNCHANGED <<ledgerVars, serverUp, handling, processed, credited>>

\* A bug that can answer "credited" without having topped the account up.
TopUpSkipped(e) ==
  /\ handling = e
  /\ \/ TopUp(EventBody[e].account, AmountMills(e)) /\ credited' = credited \cup {e}
     \/ UNCHANGED <<ledgerVars, credited>>
  /\ handling' = NoEvent
  /\ Answer200(e, "credited")
  /\ UNCHANGED <<serverUp, processed>>

TopUpEvent(e) ==
  /\ handling = e
  /\ TopUp(EventBody[e].account, AmountMills(e))
  /\ credited' = credited \cup {e}
  /\ handling' = NoEvent
  /\ Answer200(e, "credited")
  /\ UNCHANGED <<serverUp, processed>>

\* Either transaction fails (disk full, I/O error): Fastify answers 500.
RecordFails(e) ==
  /\ Delivered(e)
  /\ \E sig \in Signatures : Verified(sig)
  /\ Actionable(e)
  /\ AnswerError(e, "internal_error")
  /\ UNCHANGED <<ledgerVars, serverUp, handling, processed, credited>>

TopUpFails(e) ==
  /\ handling = e
  /\ handling' = NoEvent
  /\ AnswerError(e, "internal_error")
  /\ UNCHANGED <<ledgerVars, serverUp, processed, credited>>

Webhook(e) ==
  \/ RejectSignature(e)
  \/ IgnoreEvent(e)
  \/ RecordEvent(e)
  \/ AnswerDuplicate(e)
  \/ TopUpEvent(e)
  \/ RecordFails(e)
  \/ TopUpFails(e)

----------------------------------------------------------------------------
(* The rest of the system.                                                 *)

\* A paid request of the account; its price is any positive amount.
Spend(a) ==
  /\ Idle
  /\ \E cents \in 1 .. balance[a], hash \in Hashes : Charge(a, cents, hash)
  /\ UNCHANGED intakeVars

\* The process dies; what it had committed survives in the SQLite file, a
\* checkout that waited for Stripe does not.
Crash ==
  /\ serverUp
  /\ Fault
  /\ serverUp' = FALSE
  /\ handling' = NoEvent
  /\ stripe' = [e \in Events |->
                  IF stripe[e] = "creating" THEN "abandoned" ELSE stripe[e]]
  /\ UNCHANGED <<ledgerVars, processed, answer, credited>>

Restart ==
  /\ ~serverUp
  /\ serverUp' = TRUE
  /\ UNCHANGED <<ledgerVars, stripe, handling, processed, answer, credited, faults>>

Next ==
  \/ \E e \in Events : OpenCheckout(e) \/ AnswerCheckout(e) \/ StripeEmits(e) \/ Webhook(e)
  \/ \E a \in Accounts : Spend(a)
  \/ Crash
  \/ Restart

Spec == Init /\ [][Next]_vars

\* The process is restarted by its host, a handler that has started runs on,
\* and Stripe retries an event, until it is acknowledged, often enough for one
\* of the deliveries to be verified and reach the events table.
Retried(e) == stripe[e] = "pending" /\ (RecordEvent(e) \/ AnswerDuplicate(e))

Fairness ==
  /\ WF_vars(Restart)
  /\ \A e \in Events : WF_vars(TopUpEvent(e)) /\ SF_vars(Retried(e))

FairSpec == Spec /\ Fairness

----------------------------------------------------------------------------
(* Properties.                                                             *)

TypeOK ==
  /\ LedgerTypeOK
  /\ stripe \in [Events -> StripeStates]
  /\ serverUp \in BOOLEAN
  /\ handling \in Events \cup {NoEvent}
  /\ processed \subseteq Events
  /\ answer \in [Events -> Answers]
  /\ credited \subseteq Events
  /\ faults \in Nat

Lost == {e \in processed : e \notin credited /\ handling # e}

\* Intake promises what PaymentIntake says: under retries, duplicates, lost
\* answers and crashes no event is ever credited twice, and nothing but an
\* event's one top-up adds to a balance (stripeWebhook.ts:60-68).
Promise == INSTANCE PaymentIntake WITH
  Payments <- Events, Owners <- Accounts,
  Owner <- [e \in Events |-> EventBody[e].account],
  Amount <- [e \in Events |-> EventBody[e].cents],
  funds <- balance

CreditsAtMostOnce == Promise!Spec

\* Once Stripe may stop retrying a payment, the payment is on record, and every
\* credit has such a record behind it: the events table can be reconciled with
\* both Stripe and the ledger (stripeWebhook.ts:42-68).
AckedIsRecorded ==
  /\ \A e \in Events : Actionable(e) /\ stripe[e] = "acked" => e \in processed
  /\ credited \subseteq processed
  /\ \A e \in processed : Actionable(e) /\ stripe[e] \in {"pending", "acked"}

\* A payment is lost (recorded, never to be credited) only by a step on which
\* the process or a transaction fails, and one failure loses at most one
\* (stripeWebhook.ts:60-68).
LostOnlyByFailure ==
  [][\/ Lost' \subseteq Lost
     \/ /\ faults' > faults
        /\ \E e \in Events : Lost' \subseteq Lost \cup {e}]_vars

\* Every payment Stripe has taken is in the end credited, unless it is lost.
PaidIsCreditedOrLost ==
  \A e \in Events :
    (stripe[e] = "pending" /\ Actionable(e)) ~> (e \in credited \cup Lost)

\* stripeWebhook.ts:62-63 "Real retry of an event we already credited": whatever
\* is answered duplicate_ignored has been credited.
DuplicateWasCredited ==
  \A e \in Events : answer[e] = "duplicate_ignored" => e \in credited
=============================================================================
