------------------------- MODULE StripeIntakeProofs -------------------------
(***************************************************************************)
(* For every set of accounts and events and every number of failures:      *)
(* Stripe intake keeps the ledger sound and keeps what PaymentIntake       *)
(* promises.  The invariant that carries the proof is HandlingInv: the     *)
(* event between its two transactions is recorded and not yet credited.    *)
(***************************************************************************)
EXTENDS StripeIntake, CreditLedgerProofs, FiniteSetTheorems

HandlingInv ==
  handling # NoEvent =>
    /\ Actionable(handling)
    /\ handling \in processed
    /\ handling \notin credited

IntakeInv == TypeOK /\ LedgerSound /\ HandlingInv /\ AckedIsRecorded

LEMMA InitIntake == Init => IntakeInv
<1> SUFFICES ASSUME Init PROVE IntakeInv
  OBVIOUS
<1>1. LedgerTypeOK /\ LedgerSound
  BY LedgerInitSound DEF Init
<1>2. QED
  BY <1>1 DEF Init, IntakeInv, TypeOK, StripeStates, Answers, HandlingInv, AckedIsRecorded


LEMMA TopUpEventCents ==
  ASSUME NEW e \in Events, Actionable(e)
  PROVE  /\ EventBody[e].account \in Accounts
         /\ EventBody[e].cents \in Nat
         /\ AmountMills(e) \in Nat
         /\ ToCents(AmountMills(e)) = EventBody[e].cents
<1>1. EventBody[e].account \in Accounts /\ EventBody[e].cents \in Nat
  BY EventAssumption DEF Actionable
<1>2. AmountMills(e) \in Nat
  BY <1>1 DEF AmountMills
<1>3. ToCents(10 * EventBody[e].cents) = EventBody[e].cents
  BY <1>1, ToCentsOfCents
<1>4. QED
  BY <1>1, <1>2, <1>3 DEF AmountMills

\* What a step does to the ledger: nothing, one top-up or one charge.
LEMMA IntakeLedgerStep ==
  ASSUME IntakeInv, [Next]_vars
  PROVE  [LedgerNext]_ledgerVars
<1>1. ASSUME NEW e \in Events, TopUpEvent(e)
      PROVE  LedgerNext
  <2>1. Actionable(e)
    BY <1>1, EventAssumption DEF TopUpEvent, IntakeInv, HandlingInv
  <2>2. QED
    BY <2>1, <1>1, TopUpEventCents DEF TopUpEvent, LedgerNext
<1>2. ASSUME NEW a \in Accounts, Spend(a)
      PROVE  LedgerNext
  <2>1. \A cents \in 1 .. balance[a] : cents \in Nat
    BY DEF IntakeInv, TypeOK, LedgerTypeOK
  <2>2. QED
    BY <2>1, <1>2 DEF Spend, LedgerNext
<1>3. ASSUME NEW e \in Events,
             \/ OpenCheckout(e) \/ AnswerCheckout(e) \/ StripeEmits(e)
             \/ RejectSignature(e) \/ IgnoreEvent(e) \/ RecordEvent(e) \/ AnswerDuplicate(e)
             \/ RecordFails(e) \/ TopUpFails(e)
      PROVE  UNCHANGED ledgerVars
  BY <1>3 DEF OpenCheckout, AnswerCheckout, StripeEmits, RejectSignature, IgnoreEvent,
              RecordEvent, AnswerDuplicate, RecordFails, TopUpFails
<1>4. CASE Crash \/ Restart \/ UNCHANGED vars
  BY <1>4 DEF Crash, Restart, vars
<1>5. QED
  BY <1>1, <1>2, <1>3, <1>4 DEF Next, Webhook

LEMMA IntakeStep ==
  ASSUME IntakeInv, [Next]_vars
  PROVE  IntakeInv'
<1> USE DEF IntakeInv
<1>1. LedgerTypeOK' /\ LedgerSound'
  BY IntakeLedgerStep, LedgerStepSound DEF TypeOK
<1>2. TypeOK' /\ HandlingInv' /\ AckedIsRecorded'
  <2> USE <1>1 DEF TypeOK, HandlingInv, AckedIsRecorded, StripeStates, Answers, Actionable
  <2>1. ASSUME NEW e \in Events, OpenCheckout(e) \/ AnswerCheckout(e)
        PROVE  TypeOK' /\ HandlingInv' /\ AckedIsRecorded'
    BY <2>1 DEF OpenCheckout, AnswerCheckout, Idle
  <2>2. ASSUME NEW e \in Events, StripeEmits(e)
        PROVE  TypeOK' /\ HandlingInv' /\ AckedIsRecorded'
    BY <2>2 DEF StripeEmits
  <2>3. ASSUME NEW e \in Events, RejectSignature(e)
        PROVE  TypeOK' /\ HandlingInv' /\ AckedIsRecorded'
    BY <2>3 DEF RejectSignature, AnswerError, Fault
  <2>4. ASSUME NEW e \in Events, IgnoreEvent(e)
        PROVE  TypeOK' /\ HandlingInv' /\ AckedIsRecorded'
    BY <2>4 DEF IgnoreEvent, Answer200, Fault
  <2>5. ASSUME NEW e \in Events, RecordEvent(e)
        PROVE  TypeOK' /\ HandlingInv' /\ AckedIsRecorded'
    BY <2>5 DEF RecordEvent, Delivered
  <2>6. ASSUME NEW e \in Events, AnswerDuplicate(e)
        PROVE  TypeOK' /\ HandlingInv' /\ AckedIsRecorded'
    BY <2>6 DEF AnswerDuplicate, Answer200, Fault
  <2>7. ASSUME NEW e \in Events, TopUpEvent(e)
        PROVE  TypeOK' /\ HandlingInv' /\ AckedIsRecorded'
    BY <2>7, EventAssumption DEF TopUpEvent, Answer200, Fault
  <2>8. ASSUME NEW e \in Events, RecordFails(e) \/ TopUpFails(e)
        PROVE  TypeOK' /\ HandlingInv' /\ AckedIsRecorded'
    BY <2>8, EventAssumption DEF RecordFails, TopUpFails, AnswerError, Fault
  <2>9. ASSUME NEW a \in Accounts, Spend(a)
        PROVE  TypeOK' /\ HandlingInv' /\ AckedIsRecorded'
    BY <2>9 DEF Spend, intakeVars
  <2>10. CASE Crash
    <3>1. serverUp' = FALSE /\ faults' = faults + 1 /\ handling' = NoEvent
      BY ONLY <2>10 DEF Crash, Fault
    <3>2. serverUp' \in BOOLEAN
      BY ONLY <3>1
    <3>3. /\ UNCHANGED <<processed, answer, credited>>
          /\ stripe' = [e \in Events |->
               IF stripe[e] = "creating" THEN "abandoned" ELSE stripe[e]]
      BY ONLY <2>10 DEF Crash
    <3>4. QED
      BY <3>1, <3>2, <3>3
  <2>11. CASE Restart
    BY <2>11 DEF Restart
  <2>12. CASE UNCHANGED vars
    BY <2>12 DEF vars, intakeVars
  <2>13. QED
    BY <2>1, <2>2, <2>3, <2>4, <2>5, <2>6, <2>7, <2>8, <2>9, <2>10, <2>11,
       <2>12 DEF Next, Webhook
<1>3. QED
  BY <1>1, <1>2

LEMMA IntakeInvariant == Spec => []IntakeInv
<1>1. IntakeInv /\ [Next]_vars => IntakeInv'
  BY IntakeStep
<1>2. QED
  BY <1>1, InitIntake, PTL DEF Spec

\* Type correctness of the webhook's state and of the ledger beneath it.
THEOREM IntakeTypeOK == Spec => []TypeOK
<1>1. IntakeInv => TypeOK
  BY DEF IntakeInv
<1>2. QED
  BY <1>1, IntakeInvariant, PTL

\* Retries, crashes and failed transactions never make the ledger disagree
\* with itself or overdraw an account.
THEOREM IntakeLedgerSound == Spec => []LedgerSound
<1>1. IntakeInv => LedgerSound
  BY DEF IntakeInv
<1>2. QED
  BY <1>1, IntakeInvariant, PTL

\* Whatever Stripe stops retrying is on record, and whatever was credited was
\* recorded first (stripeWebhook.ts:60-70).
THEOREM IntakeAckedIsRecorded == Spec => []AckedIsRecorded
<1>1. IntakeInv => AckedIsRecorded
  BY DEF IntakeInv
<1>2. QED
  BY <1>1, IntakeInvariant, PTL

LossStep ==
  \/ Lost' \subseteq Lost
  \/ /\ faults' > faults
     /\ \E e \in Events : Lost' \subseteq Lost \cup {e}

LEMMA IntakeLossStep ==
  ASSUME IntakeInv, [Next]_vars
  PROVE  LossStep
<1> USE DEF Lost
<1>1. faults \in Nat
  BY DEF IntakeInv, TypeOK
<1>2. ASSUME NEW e \in Events, OpenCheckout(e) \/ AnswerCheckout(e) \/ StripeEmits(e)
      PROVE  Lost' \subseteq Lost
  BY <1>2 DEF OpenCheckout, AnswerCheckout, StripeEmits
<1>3. ASSUME NEW e \in Events, RejectSignature(e) \/ IgnoreEvent(e)
                               \/ AnswerDuplicate(e) \/ RecordFails(e)
      PROVE  Lost' \subseteq Lost
  BY <1>3 DEF RejectSignature, IgnoreEvent, AnswerDuplicate, RecordFails
<1>4. ASSUME NEW e \in Events, RecordEvent(e)
      PROVE  Lost' \subseteq Lost
  BY <1>4, EventAssumption DEF RecordEvent, Delivered, Idle, IntakeInv, TypeOK
<1>5. ASSUME NEW e \in Events, TopUpEvent(e)
      PROVE  Lost' \subseteq Lost
  BY <1>5 DEF TopUpEvent
<1>6. ASSUME NEW e \in Events, TopUpFails(e)
      PROVE  faults' > faults /\ Lost' \subseteq Lost \cup {e}
  BY <1>6, <1>1 DEF TopUpFails, AnswerError, Fault
<1>7. ASSUME NEW a \in Accounts, Spend(a)
      PROVE  Lost' \subseteq Lost
  BY <1>7 DEF Spend, intakeVars
<1>8. CASE Crash
  <2>1. /\ faults' > faults /\ UNCHANGED <<processed, credited>>
        /\ Lost' \subseteq Lost \cup {handling}
    BY <1>8, <1>1 DEF Crash, Fault
  <2>2. CASE handling = NoEvent
    <3>1. processed \subseteq Events /\ NoEvent \notin Events
      BY EventAssumption DEF IntakeInv, TypeOK
    <3>2. QED
      BY <2>1, <2>2, <3>1 DEF LossStep
  <2>3. CASE handling \in Events
    BY <2>1, <2>3 DEF LossStep
  <2>4. QED
    BY <2>2, <2>3 DEF IntakeInv, TypeOK
<1>9. CASE Restart \/ UNCHANGED vars
  BY <1>9 DEF Restart, vars, intakeVars, LossStep
<1>10. QED
  BY <1>2, <1>3, <1>4, <1>5, <1>6, <1>7, <1>8, <1>9 DEF Next, Webhook, LossStep

\* An event is lost only on a step that fails, and only one on such a step
\* (stripeWebhook.ts:60-68).
THEOREM IntakeLostOnlyByFailure == Spec => LostOnlyByFailure
<1>1. IntakeInv /\ [Next]_vars =>
        [\/ Lost' \subseteq Lost
         \/ /\ faults' > faults
            /\ \E e \in Events : Lost' \subseteq Lost \cup {e}]_vars
  BY IntakeLossStep DEF LossStep
<1>2. QED
  BY <1>1, IntakeInvariant, PTL DEF Spec, LostOnlyByFailure

LossBound == IsFiniteSet(Lost) /\ Cardinality(Lost) <= faults

\* There are never more lost payments than there were crashes, failed
\* transactions and lost answers: what an operator has to look for is bounded by
\* the failures he can see (stripeWebhook.ts:60-68).
THEOREM IntakeLossIsBounded == Spec => []LossBound
<1>1. Init => LossBound
  <2> SUFFICES ASSUME Init PROVE LossBound
    OBVIOUS
  <2>1. Lost = {}
    BY DEF Init, Lost
  <2>2. QED
    BY <2>1, FS_EmptySet DEF Init, LossBound
<1>2. IntakeInv /\ LossBound /\ [Next]_vars => LossBound'
  <2> SUFFICES ASSUME IntakeInv, LossBound, [Next]_vars
               PROVE  LossBound'
    OBVIOUS
  <2>1. faults \in Nat /\ faults' \in Nat /\ faults' >= faults
    <3>1. IntakeInv'
      BY IntakeStep
    <3>2. faults \in Nat /\ faults' \in Nat
      BY <3>1 DEF IntakeInv, TypeOK
    <3>3. faults' \in {faults, faults + 1}
      BY DEF Next, Webhook, OpenCheckout, AnswerCheckout, StripeEmits,
             RejectSignature, IgnoreEvent, RecordEvent, AnswerDuplicate, TopUpEvent,
             RecordFails, TopUpFails, Answer200, AnswerError, Fault, Spend,
             intakeVars, Crash, Restart, vars
    <3>4. QED
      BY <3>2, <3>3
  <2>2. IsFiniteSet(Lost) /\ Cardinality(Lost) \in Nat /\ Cardinality(Lost) <= faults
    BY FS_CardinalityType DEF LossBound
  <2>3. CASE Lost' \subseteq Lost
    <3>1. IsFiniteSet(Lost') /\ Cardinality(Lost') <= Cardinality(Lost)
      BY <2>2, <2>3, FS_Subset
    <3>2. Cardinality(Lost') \in Nat
      BY <3>1, FS_CardinalityType
    <3>3. QED
      BY <2>1, <2>2, <3>1, <3>2 DEF LossBound
  <2>4. ASSUME NEW e \in Events, faults' > faults, Lost' \subseteq Lost \cup {e}
        PROVE  LossBound'
    <3>1. /\ IsFiniteSet(Lost \cup {e})
          /\ Cardinality(Lost \cup {e}) \in Nat
          /\ Cardinality(Lost \cup {e}) <= Cardinality(Lost) + 1
      BY <2>2, FS_AddElement, FS_CardinalityType
    <3>2. IsFiniteSet(Lost') /\ Cardinality(Lost') <= Cardinality(Lost \cup {e})
      BY <2>4, <3>1, FS_Subset
    <3>3. Cardinality(Lost') \in Nat
      BY <3>2, FS_CardinalityType
    <3>4. QED
      BY <2>1, <2>2, <2>4, <3>1, <3>2, <3>3 DEF LossBound
  <2>5. QED
    BY <2>3, <2>4, IntakeLossStep DEF LossStep
<1>3. QED
  BY <1>1, <1>2, IntakeInvariant, PTL DEF Spec

----------------------------------------------------------------------------
(* Reconciliation: top-ups against payments.                               *)

CreditedTo(a) == {e \in credited : EventBody[e].account = a}

AnyHash == Hashes \cup {NoHash}

CreditsMatchTopUps ==
  \A a \in Accounts :
    \E entry \in Bijection(CreditedTo(a), Rows(a, "topup", AnyHash)) :
      \A e \in CreditedTo(a) : ledger[a][entry[e]].amount = EventBody[e].cents

LEMMA StepMatch ==
  ASSUME IntakeInv, CreditsMatchTopUps, [Next]_vars
  PROVE  CreditsMatchTopUps'
<1> SUFFICES ASSUME NEW a \in Accounts
             PROVE  \E entry \in Bijection(CreditedTo(a)', Rows(a, "topup", AnyHash)') :
                      \A e \in CreditedTo(a)' :
                        ledger'[a][entry[e]].amount = EventBody[e].cents
  BY DEF CreditsMatchTopUps, AnyHash
<1>1. PICK f \in Bijection(CreditedTo(a), Rows(a, "topup", AnyHash)) :
        \A e \in CreditedTo(a) : ledger[a][f[e]].amount = EventBody[e].cents
  BY DEF CreditsMatchTopUps
<1>2. f \in [CreditedTo(a) -> Rows(a, "topup", AnyHash)]
  BY DEF Bijection, Injection
<1>3. LedgerTypeOK
  BY DEF IntakeInv, TypeOK
<1>4. ASSUME UNCHANGED credited,
             Rows(a, "topup", AnyHash)' = Rows(a, "topup", AnyHash),
             \A i \in Rows(a, "topup", AnyHash) : ledger'[a][i] = ledger[a][i]
      PROVE  \E entry \in Bijection(CreditedTo(a)', Rows(a, "topup", AnyHash)') :
               \A e \in CreditedTo(a)' :
                 ledger'[a][entry[e]].amount = EventBody[e].cents
  <2>1. CreditedTo(a)' = CreditedTo(a)
    BY <1>4 DEF CreditedTo
  <2>2. QED
    BY <1>1, <1>2, <1>4, <2>1
<1>5. CASE UNCHANGED <<credited, ledger>>
  BY <1>4, <1>5 DEF Rows, AnyHash
<1>6. ASSUME NEW b \in Accounts, Spend(b)
      PROVE  \E entry \in Bijection(CreditedTo(a)', Rows(a, "topup", AnyHash)') :
               \A e \in CreditedTo(a)' :
                 ledger'[a][entry[e]].amount = EventBody[e].cents
  <2>1. PICK cents \in 1 .. balance[b], hash \in Hashes : Charge(b, cents, hash)
    BY <1>6 DEF Spend
  <2>2. cents \in Nat /\ balance[b] - cents \in Int
    BY <1>3 DEF LedgerTypeOK
  <2>3. Post(b, "charge", cents, hash, balance[b] - cents)
    BY <2>1 DEF Charge
  <2>4. /\ \A i \in Rows(a, "topup", AnyHash) : ledger'[a][i] = ledger[a][i]
        /\ Rows(a, "topup", AnyHash)' = Rows(a, "topup", AnyHash)
    BY <1>3, <2>2, <2>3, ChargeRows
  <2>5. QED
    BY <1>4, <1>6, <2>4 DEF Spend, intakeVars
<1>7. ASSUME NEW e \in Events, TopUpEvent(e)
      PROVE  \E entry \in Bijection(CreditedTo(a)', Rows(a, "topup", AnyHash)') :
               \A d \in CreditedTo(a)' :
                 ledger'[a][entry[d]].amount = EventBody[d].cents
  <2> DEFINE b == EventBody[e].account
             cents == EventBody[e].cents
  <2>1. Actionable(e) /\ e \notin credited
    BY <1>7, EventAssumption DEF TopUpEvent, IntakeInv, HandlingInv
  <2>2. /\ b \in Accounts /\ cents \in Nat /\ balance[b] + cents \in Int
        /\ Post(b, "topup", cents, NoHash, balance[b] + cents)
        /\ credited' = credited \cup {e}
    BY <1>3, <1>7, <2>1, TopUpEventCents DEF TopUpEvent, TopUp, LedgerTypeOK
  <2>3. NoHash \in Hashes \cup {NoHash} /\ NoHash \in AnyHash
    BY DEF AnyHash
  <2>4. /\ \A i \in Rows(a, "topup", AnyHash) : ledger'[a][i] = ledger[a][i]
        /\ a # b => Rows(a, "topup", AnyHash)' = Rows(a, "topup", AnyHash)
        /\ a = b => /\ Len(ledger[a]) + 1 \notin Rows(a, "topup", AnyHash)
                    /\ Rows(a, "topup", AnyHash)'
                         = Rows(a, "topup", AnyHash) \cup {Len(ledger[a]) + 1}
                    /\ ledger'[a][Len(ledger[a]) + 1].amount = cents
    <3> DEFINE left == balance[b] + cents
    <3> HIDE DEF b, cents, left
    <3>1. left \in Int /\ Post(b, "topup", cents, NoHash, left)
      BY <2>2 DEF left
    <3>2. QED
      BY <1>3, <2>2, <2>3, <3>1, TopUpPosts
  <2>5. CASE a # b
    <3>1. CreditedTo(a)' = CreditedTo(a)
      BY <2>2, <2>5 DEF CreditedTo
    <3>2. QED
      BY <1>1, <1>2, <2>4, <2>5, <3>1
  <2>6. CASE a = b
    <3> DEFINE n == Len(ledger[a]) + 1
               g == [d \in CreditedTo(a) \cup {e} |-> IF d = e THEN n ELSE f[d]]
    <3>1. e \notin CreditedTo(a) /\ CreditedTo(a)' = CreditedTo(a) \cup {e}
      BY <2>1, <2>2, <2>6 DEF CreditedTo
    <3>2. /\ n \notin Rows(a, "topup", AnyHash)
          /\ Rows(a, "topup", AnyHash)' = Rows(a, "topup", AnyHash) \cup {n}
          /\ ledger'[a][n].amount = EventBody[e].cents
          /\ \A i \in Rows(a, "topup", AnyHash) : ledger'[a][i] = ledger[a][i]
      BY <2>4, <2>6
    <3> HIDE DEF n, b, cents
    <3>3. g \in Bijection(CreditedTo(a)', Rows(a, "topup", AnyHash)')
      BY <3>1, <3>2, AddPair
    <3>4. \A d \in CreditedTo(a)' : ledger'[a][g[d]].amount = EventBody[d].cents
      BY <1>1, <1>2, <3>1, <3>2
    <3>5. QED
      BY <3>3, <3>4
  <2>7. QED
    BY <2>5, <2>6
<1>8. ASSUME NEW e \in Events,
             \/ OpenCheckout(e) \/ AnswerCheckout(e) \/ StripeEmits(e)
             \/ RejectSignature(e) \/ IgnoreEvent(e) \/ RecordEvent(e) \/ AnswerDuplicate(e)
             \/ RecordFails(e) \/ TopUpFails(e)
      PROVE  UNCHANGED <<credited, ledger>>
  BY <1>8 DEF OpenCheckout, AnswerCheckout, StripeEmits, RejectSignature, IgnoreEvent,
              RecordEvent, AnswerDuplicate, RecordFails, TopUpFails, ledgerVars
<1>9. CASE Crash \/ Restart \/ UNCHANGED vars
  BY <1>5, <1>9 DEF Crash, Restart, vars, intakeVars, ledgerVars
<1>10. QED
  BY <1>5, <1>6, <1>7, <1>8, <1>9 DEF Next, Webhook

\* The ledger can be reconciled with Stripe: each credited payment has a top-up
\* entry of its own, of the amount Stripe charged, in the account it was made
\* for, and there is no other top-up (stripeWebhook.ts:60-70,
\* creditLedger.ts:73-101).
THEOREM IntakeCreditsMatchTopUps == Spec => []CreditsMatchTopUps
<1>1. Init => CreditsMatchTopUps
  <2> SUFFICES ASSUME Init, NEW a \in Accounts
               PROVE  /\ CreditedTo(a) = {}
                      /\ << >> \in Bijection(CreditedTo(a), Rows(a, "topup", AnyHash))
    BY DEF CreditsMatchTopUps
  <2>1. CreditedTo(a) = {} /\ Rows(a, "topup", AnyHash) = {}
    BY DEF Init, LedgerInit, CreditedTo, Rows
  <2>2. QED
    BY <2>1 DEF Bijection, Injection, Surjection, IsInjective
<1>2. IntakeInv /\ CreditsMatchTopUps /\ [Next]_vars => CreditsMatchTopUps'
  BY StepMatch
<1>3. QED
  BY <1>1, <1>2, IntakeInvariant, PTL DEF Spec

\* The webhook implements PaymentIntake: no interleaving of retries, duplicates,
\* lost answers and crashes credits an event twice, or anything but its amount.
THEOREM IntakeImplementsPromise == Spec => CreditsAtMostOnce
<1>1. Init => Promise!Init
  BY DEF Init, LedgerInit, Promise!Init
<1>2. IntakeInv /\ [Next]_vars => [Promise!Next]_<<credited, balance>>
  <2> SUFFICES ASSUME IntakeInv, [Next]_vars
               PROVE  Promise!Next \/ UNCHANGED <<credited, balance>>
    OBVIOUS
  <2>1. ASSUME NEW e \in Events, TopUpEvent(e)
        PROVE  Promise!Next
    <3>1. Actionable(e) /\ e \notin credited
      BY <2>1, EventAssumption DEF TopUpEvent, IntakeInv, HandlingInv
    <3>2. balance' = [balance EXCEPT ![EventBody[e].account] =
                        @ + EventBody[e].cents]
      BY <2>1, <3>1, TopUpEventCents DEF TopUpEvent, TopUp, Post
    <3>3. Promise!Credit(e)
      BY <2>1, <3>1, <3>2 DEF TopUpEvent, Promise!Credit
    <3>4. QED
      BY <3>3 DEF Promise!Next
  <2>2. ASSUME NEW a \in Accounts, Spend(a)
        PROVE  Promise!Next
    <3>1. PICK cents \in 1 .. balance[a], hash \in Hashes : Charge(a, cents, hash)
      BY <2>2 DEF Spend
    <3>2. balance[a] \in Int
      BY DEF IntakeInv, TypeOK, LedgerTypeOK
    <3>3. balance[a] - cents \in 0 .. balance[a]
      BY <3>2
    <3>4. balance' = [balance EXCEPT ![a] = balance[a] - cents]
      BY <3>1 DEF Charge, Post
    <3>5. Promise!Spend(a)
      BY <2>2, <3>3, <3>4 DEF Spend, intakeVars, Promise!Spend
    <3>6. QED
      BY <3>5 DEF Promise!Next
  <2>3. ASSUME NEW e \in Events,
               \/ OpenCheckout(e) \/ AnswerCheckout(e) \/ StripeEmits(e)
               \/ RejectSignature(e) \/ IgnoreEvent(e) \/ RecordEvent(e) \/ AnswerDuplicate(e)
               \/ RecordFails(e) \/ TopUpFails(e)
        PROVE  UNCHANGED <<credited, balance>>
    BY <2>3 DEF OpenCheckout, AnswerCheckout, StripeEmits, RejectSignature, IgnoreEvent,
                RecordEvent, AnswerDuplicate, RecordFails, TopUpFails, ledgerVars
  <2>4. CASE Crash \/ Restart \/ UNCHANGED vars
    BY <2>4 DEF Crash, Restart, vars, intakeVars, ledgerVars
  <2>5. QED
    BY <2>1, <2>2, <2>3, <2>4 DEF Next, Webhook
<1>3. QED
  BY <1>1, <1>2, IntakeInvariant, PTL DEF Spec, CreditsAtMostOnce, Promise!Spec

----------------------------------------------------------------------------
(* What a duplicate can mean.                                              *)

\* Whatever is answered as a duplicate is on record, and not being handled.
DuplicateInv ==
  \A e \in Events :
    answer[e] = "duplicate_ignored" => e \in processed /\ handling # e

LEMMA StepDuplicate ==
  ASSUME IntakeInv, DuplicateInv, [Next]_vars
  PROVE  DuplicateInv'
<1> USE DEF DuplicateInv
<1>1. answer \in [Events -> Answers] /\ NoEvent \notin Events
  BY EventAssumption DEF IntakeInv, TypeOK
<1>2. ASSUME NEW e \in Events, OpenCheckout(e) \/ AnswerCheckout(e) \/ StripeEmits(e)
      PROVE  DuplicateInv'
  BY <1>2 DEF OpenCheckout, AnswerCheckout, StripeEmits
<1>3. ASSUME NEW e \in Events, RejectSignature(e) \/ IgnoreEvent(e) \/ RecordFails(e)
      PROVE  DuplicateInv'
  BY <1>1, <1>3 DEF RejectSignature, IgnoreEvent, RecordFails, Answer200, AnswerError
<1>4. ASSUME NEW e \in Events, RecordEvent(e)
      PROVE  DuplicateInv'
  BY <1>1, <1>4 DEF RecordEvent
<1>5. ASSUME NEW e \in Events, AnswerDuplicate(e)
      PROVE  DuplicateInv'
  BY <1>1, <1>5 DEF AnswerDuplicate, Answer200, Delivered, Idle
<1>6. ASSUME NEW e \in Events, TopUpEvent(e) \/ TopUpFails(e)
      PROVE  DuplicateInv'
  BY <1>1, <1>6 DEF TopUpEvent, TopUpFails, Answer200, AnswerError
<1>7. ASSUME NEW a \in Accounts, Spend(a)
      PROVE  DuplicateInv'
  BY <1>7 DEF Spend, intakeVars
<1>8. CASE Crash \/ Restart \/ UNCHANGED vars
  BY <1>1, <1>8 DEF Crash, Restart, vars, intakeVars
<1>9. QED
  BY <1>2, <1>3, <1>4, <1>5, <1>6, <1>7, <1>8 DEF Next, Webhook

DuplicateIsExplained ==
  /\ \A e \in Events : answer[e] = "duplicate_ignored" => e \in credited \cup Lost
  /\ faults = 0 => DuplicateWasCredited

\* What the comment at stripeWebhook.ts:62-63 takes for granted holds as long as
\* nothing fails; and whatever is answered as a duplicate without having been
\* credited is one of the lost payments, which the failures bound.
THEOREM IntakeDuplicateIsExplained == Spec => []DuplicateIsExplained
<1>1. Init => DuplicateInv
  BY DEF Init, DuplicateInv
<1>2. IntakeInv /\ DuplicateInv /\ [Next]_vars => DuplicateInv'
  BY StepDuplicate
<1>3. IntakeInv /\ DuplicateInv /\ LossBound => DuplicateIsExplained
  <2> SUFFICES ASSUME IntakeInv, DuplicateInv, LossBound
               PROVE  DuplicateIsExplained
    OBVIOUS
  <2>1. \A e \in Events : answer[e] = "duplicate_ignored" => e \in credited \cup Lost
    BY DEF DuplicateInv, Lost
  <2>2. faults = 0 => Lost = {}
    <3>1. Cardinality(Lost) \in Nat
      BY FS_CardinalityType DEF LossBound
    <3>2. faults = 0 => Cardinality(Lost) = 0
      BY <3>1 DEF LossBound
    <3>3. QED
      BY <3>2, FS_EmptySet DEF LossBound
  <2>3. QED
    BY <2>1, <2>2 DEF DuplicateIsExplained, DuplicateWasCredited
<1>4. QED
  BY <1>1, <1>2, <1>3, IntakeInvariant, IntakeLossIsBounded, PTL DEF Spec
=============================================================================
