------------------------- MODULE BearerRoutesProofs -------------------------
(***************************************************************************)
(* The bearer routes keep the ledger sound, account for every pod and      *)
(* spend nothing new through a revoked key, for any number of keys,        *)
(* requests, faults and any prices.                                        *)
(***************************************************************************)
EXTENDS BearerRoutes, CreditLedgerProofs

\* The answers a booking can get once the vendor was asked.
AfterDispatch == {"booked", "unsettled", "vendor_declined", "internal_error",
                  "dropped", "dropped_charged"}

\* The vendor was asked only for a booking that waits for it or has waited, and
\* what is said of a pod is said of one that exists: PodsAccountedFor with what
\* it needs to know of the requests that are still in flight.
DispatchInv ==
  \A r \in Requests :
    /\ vendor[r] # "idle" =>
         \/ phase[r] = "waiting"
         \/ phase[r] = "done" /\ reply[r] \in AfterDispatch
    /\ reply[r] \in {"booked", "unsettled"} => vendor[r] = "created"
    /\ reply[r] = "dropped_charged" /\ Route(r) = "book" => vendor[r] = "created"

\* Where a handler is tells what it has said and whose it is: only a quote is
\* charged before it is answered, only a booking waits and is booked, and what it
\* was charged for is an offer it has.
RequestInv ==
  \A r \in Requests :
    /\ phase[r] # "done" => reply[r] = "none"
    /\ phase[r] = "charged" => Route(r) = "quote"
    /\ phase[r] = "waiting" \/ reply[r] = "booked" =>
         Route(r) = "book" /\ offer[r] \in Prices
    /\ reply[r] = "ok" => Route(r) # "book"
    /\ reply[r] = "dropped_charged" /\ Route(r) = "book" => offer[r] \in Prices

IInv ==
  /\ TypeOK /\ LedgerSound
  /\ DispatchInv /\ KeyHasAccount
  /\ RequestInv /\ BillingMatchesAnswers

LEMMA BodyTypes ==
  ASSUME NEW r \in Requests
  PROVE  /\ Account(r) \in Accounts
         /\ Key(r) \in Keys
         /\ Body[r].hash \in Hashes
         /\ Body[r].hours \in Nat
  BY BearerAssumption DEF Account, Key

LEMMA ProductNat ==
  ASSUME NEW m \in Nat, NEW n \in Nat
  PROVE  m * n \in Nat
  OBVIOUS

\* A booking's price is a number of cents, whatever the hours, the rate and the
\* margin (book.ts:118-121).
LEMMA PriceNat ==
  ASSUME NEW r \in Requests, NEW hourly \in Prices \cup {0}
  PROVE  Price(r, hourly) \in Nat
<1>1. hourly \in Nat /\ Body[r].hours \in Nat /\ 100 + MarginPercent \in Nat
  BY BearerAssumption, BodyTypes
<1>2. VendorCost(Body[r].hours, hourly) \in Nat
  BY <1>1, ProductNat, ToCentsNat DEF VendorCost
<1>3. VendorCost(Body[r].hours, hourly) * (100 + MarginPercent) \in Nat
  BY <1>1, <1>2, ProductNat
<1>4. QED
  BY <1>3 DEF Price, QuotedPrice

\* An error of -4 to 5 tenths, scaled.
LEMMA ScaledError ==
  ASSUME NEW x \in -4 .. 5, NEW n \in Nat
  PROVE  /\ x * n \in Int
         /\ -(4 * n) <= x * n /\ x * n <= 5 * n
<1>1. x \in {-4, -3, -2, -1, 0, 1, 2, 3, 4, 5}
  OBVIOUS
<1>2. QED
  BY <1>1

\* Division rounds down: by less than one.
LEMMA DivBounds ==
  ASSUME NEW n \in Nat, NEW d \in Nat \ {0}
  PROVE  /\ n \div d \in Nat
         /\ d * (n \div d) <= n
         /\ n < d * (n \div d) + d
  OBVIOUS

\* What rounding to whole cents twice can do to the price of a booking, for any
\* hours, rate and margin.  exact is what the vendor asks, in tenths of a cent:
\* the cost entered for it is off by at most half a cent, the price by at most
\* half a cent more, and while the price is never below the cost as entered it may
\* be below what the vendor asks, by up to 0.4 cents (book.ts:118-121).
THEOREM BookingPrice ==
  ASSUME NEW r \in Requests, NEW hourly \in Prices
  PROVE  LET exact == Body[r].hours * hourly
             cost  == VendorCost(Body[r].hours, hourly)
             price == Price(r, hourly)
         IN  /\ 10 * cost - exact \in -4 .. 5
             /\ 100 * price - cost * (100 + MarginPercent) \in -49 .. 50
             /\ price >= cost
<1> DEFINE exact == Body[r].hours * hourly
           cost  == VendorCost(Body[r].hours, hourly)
           price == Price(r, hourly)
           full  == cost * (100 + MarginPercent)
<1>1. /\ exact \in Nat
      /\ MarginPercent \in Nat /\ 100 + MarginPercent \in Nat
  BY BodyTypes, BearerAssumption, ProductNat
<1>2. cost = (exact + 5) \div 10
  BY DEF VendorCost, ToCents
<1>3. cost \in Nat /\ 10 * cost - exact \in -4 .. 5
  <2>1. exact + 5 \in Nat
    BY <1>1
  <2> HIDE DEF exact, cost
  <2>2. QED
    BY <1>1, <1>2, <2>1, DivBounds
<1>4. price = (full + 50) \div 100
  BY DEF Price, QuotedPrice
<1>5. full \in Nat /\ full >= 100 * cost
  <2> HIDE DEF cost
  <2>1. cost * (100 + MarginPercent) = 100 * cost + cost * MarginPercent
    BY <1>1, <1>3
  <2>2. cost * MarginPercent \in Nat
    BY <1>1, <1>3, ProductNat
  <2>3. QED
    BY <1>3, <2>1, <2>2
<1> HIDE DEF full, price, cost, exact
<1>6. price \in Nat /\ 100 * price <= full + 50 /\ full + 50 < 100 * price + 100
  BY <1>4, <1>5, DivBounds
<1>7. price >= cost
  BY <1>3, <1>5, <1>6
<1>8. /\ 10 * cost - exact \in -4 .. 5
      /\ 100 * price - full \in -49 .. 50
      /\ price >= cost
  BY <1>3, <1>5, <1>6, <1>7
<1>9. QED
  BY <1>8 DEF full, price, cost, exact

----------------------------------------------------------------------------
(* Every step is a step of the ledger.                                     *)

LEMMA StepLedger ==
  ASSUME TypeOK, [Next]_vars
  PROVE  [LedgerNext]_ledgerVars
<1>1. ASSUME NEW a \in Accounts, NEW mills \in TopUpMills, TopUp(a, mills)
      PROVE  LedgerNext
  BY <1>1, BearerAssumption DEF LedgerNext
<1>2. ASSUME NEW k \in Keys, EnsureAccount(KeyAccount[k])
      PROVE  LedgerNext
  BY <1>2, BearerAssumption DEF LedgerNext
<1>3. ASSUME NEW r \in Requests, Charge(Account(r), RoutePrice, Body[r].hash)
      PROVE  LedgerNext
  BY <1>3, BodyTypes, BearerAssumption DEF LedgerNext
<1>4. ASSUME NEW r \in Requests, Booked(r) \/ CutAfterCharge(r)
      PROVE  LedgerNext
  <2>1. Price(r, offer[r]) \in Nat /\ Due(r) \in Nat
    BY PriceNat, BearerAssumption DEF TypeOK, RoutesTypeOK, Due
  <2>2. CASE Booked(r)
    BY <2>1, <2>2, BodyTypes DEF Booked, LedgerNext
  <2>3. CASE CutAfterCharge(r)
    BY <2>1, <2>3, BodyTypes DEF CutAfterCharge, LedgerNext
  <2>4. QED
    BY <1>4, <2>2, <2>3
<1>5. CASE \E k \in Keys : CreateKey(k) \/ CreateKeyCut(k) \/ RevokeKey(k)
  BY <1>5, <1>2 DEF CreateKey, CreateKeyCut, RevokeKey
<1>6. CASE \E a \in Accounts : AdminTopUp(a)
  BY <1>6, <1>1 DEF AdminTopUp
<1>7. ASSUME NEW r \in Requests,
             \/ RefuseBody(r) \/ RefuseKey(r) \/ RefuseBroke(r)
             \/ AnswerNoOffer(r) \/ Dispatch(r) \/ VendorDecides(r)
             \/ ChargeThrows(r)
      PROVE  UNCHANGED ledgerVars
  BY <1>7 DEF RefuseBody, RefuseKey, RefuseBroke, AnswerNoOffer, Dispatch,
              VendorDecides, ChargeThrows
<1>8. ASSUME NEW r \in Requests, Quote(r) \/ Rank(r)
      PROVE  [LedgerNext]_ledgerVars
  BY <1>8, <1>3 DEF Quote, ChargeQuote, RefuseQuote, AnswerQuote, Rank,
                    AnswerRank, RefuseRank
<1>9. ASSUME NEW r \in Requests, BookReturns(r)
      PROVE  [LedgerNext]_ledgerVars
  BY <1>9, <1>4 DEF BookReturns, AnswerDeclined, VendorAnswerLost,
                    AnswerUnsettled
<1>10. CASE Crash \/ Restart \/ UNCHANGED vars
  BY <1>10 DEF Crash, Restart, vars
<1>11. QED
  BY <1>4, <1>5, <1>6, <1>7, <1>8, <1>9, <1>10 DEF Next

----------------------------------------------------------------------------
(* What each action does to a request.                                     *)

\* Answers given without waiting: the vendor was never asked for this request.
Immediate(r) ==
  \/ RefuseBody(r) \/ RefuseKey(r) \/ RefuseBroke(r) \/ AnswerNoOffer(r)
  \/ Quote(r) \/ Rank(r)

\* An immediate answer, or the quote's charge, ends no wait and reports no pod.
LEMMA ImmediateStep ==
  ASSUME NEW r \in Requests, Immediate(r)
  PROVE  /\ phase[r] \in {"new", "charged"}
         /\ \E to \in {"charged", "done"} : phase' = [phase EXCEPT ![r] = to]
         /\ \E answer \in Replies \ AfterDispatch :
              reply' \in {reply, [reply EXCEPT ![r] = answer]}
         /\ UNCHANGED <<keys, serverUp, offer, vendor, faults>>
<1>1. CASE RefuseBody(r)
  BY <1>1 DEF RefuseBody, Finish, Replies, AfterDispatch
<1>2. CASE RefuseKey(r)
  BY <1>2 DEF RefuseKey, Arrives, Finish, Replies, AfterDispatch
<1>3. CASE RefuseBroke(r)
  BY <1>3 DEF RefuseBroke, Arrives, Finish, Replies, AfterDispatch
<1>4. CASE AnswerNoOffer(r)
  BY <1>4 DEF AnswerNoOffer, Admitted, Arrives, Finish, Replies, AfterDispatch
<1>5. CASE Quote(r)
  BY <1>5 DEF Quote, ChargeQuote, RefuseQuote, AnswerQuote, Arrives, Finish,
              Replies, AfterDispatch
<1>6. CASE Rank(r)
  BY <1>6 DEF Rank, AnswerRank, RefuseRank, Admitted, Arrives, Finish, Replies,
              AfterDispatch
<1>7. QED
  BY <1>1, <1>2, <1>3, <1>4, <1>5, <1>6 DEF Immediate

\* The end of a wait: a pod is reported only if the vendor has created it.
LEMMA ReturnStep ==
  ASSUME NEW r \in Requests, BookReturns(r)
  PROVE  /\ phase[r] = "waiting"
         /\ phase' = [phase EXCEPT ![r] = "done"]
         /\ \E answer \in AfterDispatch :
              /\ reply' = [reply EXCEPT ![r] = answer]
              /\ answer \in {"booked", "unsettled"} => vendor[r] = "created"
         /\ UNCHANGED <<keys, serverUp, offer, vendor, faults>>
<1>1. CASE AnswerDeclined(r) \/ VendorAnswerLost(r)
  BY <1>1 DEF AnswerDeclined, VendorAnswerLost, Waiting, Finish, AfterDispatch
<1>2. CASE Booked(r) \/ AnswerUnsettled(r)
  BY <1>2 DEF Booked, AnswerUnsettled, Waiting, Finish, AfterDispatch
<1>3. QED
  BY <1>1, <1>2 DEF BookReturns

\* A charge that throws ends the request it was for.
LEMMA ThrowStep ==
  ASSUME NEW r \in Requests, ChargeThrows(r), faults \in Nat
  PROVE  /\ phase[r] \in {"new", "waiting"}
         /\ phase' = [phase EXCEPT ![r] = "done"]
         /\ reply' = [reply EXCEPT ![r] = "internal_error"]
         /\ UNCHANGED <<keys, serverUp, offer, vendor>>
         /\ faults' \in Nat
  BY DEF ChargeThrows, AtCharge, Admitted, Arrives, Waiting, Fault, Finish

\* The end of the process as one request sees it, charged or not.
Dies(q, owed) ==
  /\ phase'[q] = IF owed \/ phase[q] \in {"charged", "waiting"} THEN "done" ELSE phase[q]
  /\ reply'[q] = IF owed THEN "dropped_charged"
                 ELSE IF phase[q] = "waiting" THEN "dropped" ELSE reply[q]

LEMMA DieOwingStep ==
  ASSUME RoutesTypeOK, NEW charged \in SUBSET Requests, DieOwing(charged),
         ChargedFirst \subseteq charged
  PROVE  /\ phase' \in [Requests -> {"new", "charged", "waiting", "done"}]
         /\ reply' \in [Requests -> Replies]
         /\ serverUp' = FALSE
         /\ \A q \in Requests : Dies(q, q \in charged)
<1>1. serverUp' = FALSE /\ phase' \in [Requests -> {"new", "charged", "waiting", "done"}]
  BY DEF RoutesTypeOK, DieOwing
<1>2. reply' \in [Requests -> Replies]
  BY DEF RoutesTypeOK, DieOwing, Replies
<1>3. ASSUME NEW q \in Requests
      PROVE  Dies(q, q \in charged)
  BY DEF Dies, DieOwing, ChargedFirst, InFlight
<1>4. QED
  BY <1>1, <1>2, <1>3

\* The process ends, before or behind the charge of a rank or a booking: what is
\* in flight ends with it, what was charged as such.
LEMMA DieStep ==
  ASSUME RoutesTypeOK, Die
  PROVE  /\ phase' \in [Requests -> {"new", "charged", "waiting", "done"}]
         /\ reply' \in [Requests -> Replies]
         /\ serverUp' = FALSE
         /\ \A q \in Requests : Dies(q, phase[q] = "charged")
<1>1. ChargedFirst \in SUBSET Requests /\ DieOwing(ChargedFirst)
  BY DEF Die, ChargedFirst
<1>2. \A q \in Requests : q \in ChargedFirst <=> phase[q] = "charged"
  BY DEF ChargedFirst
<1>3. QED
  BY <1>1, <1>2, DieOwingStep DEF Dies

LEMMA CutStep ==
  ASSUME RoutesTypeOK, NEW r \in Requests, CutAfterCharge(r)
  PROVE  /\ \/ phase[r] = "new" /\ Route(r) = "rank" /\ Known(r)
            \/ phase[r] = "waiting" /\ vendor[r] = "created"
         /\ phase' \in [Requests -> {"new", "charged", "waiting", "done"}]
         /\ reply' \in [Requests -> Replies]
         /\ serverUp' = FALSE
         /\ \A q \in Requests \ {r} : Dies(q, phase[q] = "charged")
         /\ phase'[r] = "done" /\ reply'[r] = "dropped_charged"
         /\ UNCHANGED <<keys, offer, vendor>>
         /\ faults' \in Nat
<1> DEFINE charged == ChargedFirst \cup {r}
<1>1. \/ phase[r] = "new" /\ Route(r) = "rank" /\ Known(r)
      \/ phase[r] = "waiting" /\ vendor[r] = "created"
  BY DEF CutAfterCharge, AtCharge, Admitted, Arrives, Waiting
<1>2. charged \in SUBSET Requests /\ ChargedFirst \subseteq charged /\ DieOwing(charged)
  BY DEF CutAfterCharge, ChargedFirst
<1>3. \A q \in Requests : q \in charged <=> q = r \/ phase[q] = "charged"
  BY DEF ChargedFirst
<1>4. faults' \in Nat /\ UNCHANGED <<keys, offer, vendor>>
  BY DEF CutAfterCharge, Fault, RoutesTypeOK
<1> HIDE DEF charged
<1>5. /\ phase' \in [Requests -> {"new", "charged", "waiting", "done"}]
      /\ reply' \in [Requests -> Replies]
      /\ serverUp' = FALSE
      /\ \A q \in Requests : Dies(q, q \in charged)
  BY <1>2, DieOwingStep
<1>6. QED
  BY <1>1, <1>3, <1>4, <1>5 DEF Dies

LEMMA StepRoutesType ==
  ASSUME RoutesTypeOK, [Next]_vars
  PROVE  RoutesTypeOK'
<1> USE DEF RoutesTypeOK
<1>1. CASE \E k \in Keys : CreateKey(k) \/ RevokeKey(k)
  BY <1>1 DEF CreateKey, RevokeKey
<1>2. CASE \E a \in Accounts : AdminTopUp(a)
  BY <1>2 DEF AdminTopUp, routeVars
<1>3. ASSUME NEW r \in Requests, Immediate(r)
      PROVE  RoutesTypeOK'
  BY <1>3, ImmediateStep
<1>4. ASSUME NEW r \in Requests, BookReturns(r) \/ ChargeThrows(r)
      PROVE  RoutesTypeOK'
  BY <1>4, ReturnStep, ThrowStep DEF AfterDispatch, Replies
<1>5. ASSUME NEW r \in Requests, Dispatch(r) \/ VendorDecides(r)
      PROVE  RoutesTypeOK'
  BY <1>5 DEF Dispatch, VendorDecides
<1>6. CASE Crash \/ \E k \in Keys : CreateKeyCut(k)
  <2>1. /\ phase' \in [Requests -> {"new", "charged", "waiting", "done"}]
        /\ reply' \in [Requests -> Replies]
        /\ serverUp' \in BOOLEAN
    <3>1. CASE Die
      BY <3>1, DieStep
    <3>2. CASE UNCHANGED <<serverUp, phase, reply>>
      BY <3>2
    <3>3. QED
      BY <1>6, <3>1, <3>2 DEF Crash, CreateKeyCut
  <2>2. faults' \in Nat /\ UNCHANGED <<keys, offer, vendor>>
    BY <1>6 DEF Crash, CreateKeyCut, Fault
  <2>3. QED
    BY <2>1, <2>2
<1>7. CASE Restart
  BY <1>7 DEF Restart
<1>8. CASE UNCHANGED vars
  BY <1>8 DEF vars, routeVars
<1>9. ASSUME NEW r \in Requests, CutAfterCharge(r)
      PROVE  RoutesTypeOK'
  BY <1>9, CutStep
<1>10. QED
  BY <1>1, <1>2, <1>3, <1>4, <1>5, <1>6, <1>7, <1>8, <1>9 DEF Next, Immediate

LEMMA StepDispatch ==
  ASSUME RoutesTypeOK, DispatchInv, RequestInv, [Next]_vars
  PROVE  DispatchInv'
<1> USE DEF RoutesTypeOK, DispatchInv, Route
<1>1. CASE UNCHANGED <<phase, reply, vendor>>
  BY <1>1
<1>2. CASE \E k \in Keys : CreateKey(k) \/ RevokeKey(k)
  BY <1>2, <1>1 DEF CreateKey, RevokeKey
<1>3. CASE \E a \in Accounts : AdminTopUp(a)
  BY <1>3, <1>1 DEF AdminTopUp, routeVars
<1>4. ASSUME NEW r \in Requests, Immediate(r)
      PROVE  DispatchInv'
  <2>1. vendor[r] = "idle"
    BY <1>4, ImmediateStep
  <2>2. QED
    BY <1>4, <2>1, ImmediateStep DEF AfterDispatch
<1>5. ASSUME NEW r \in Requests, BookReturns(r)
      PROVE  DispatchInv'
  BY <1>5, ReturnStep DEF BookReturns, AnswerDeclined, VendorAnswerLost, Booked,
                          AnswerUnsettled, Finish
<1>6. ASSUME NEW r \in Requests, Dispatch(r)
      PROVE  DispatchInv'
  BY <1>6 DEF Dispatch, Admitted, Arrives
<1>7. ASSUME NEW r \in Requests, VendorDecides(r)
      PROVE  DispatchInv'
  BY <1>7 DEF VendorDecides
<1>8. CASE Crash \/ \E k \in Keys : CreateKeyCut(k)
  <2>1. UNCHANGED vendor /\ (Die \/ UNCHANGED <<phase, reply>>)
    BY <1>8 DEF Crash, CreateKeyCut
  <2>2. CASE Die
    <3>1. \A q \in Requests : Dies(q, phase[q] = "charged")
      BY <2>2, DieStep
    <3>2. QED
      BY <2>1, <3>1 DEF Dies, AfterDispatch, RequestInv
  <2>3. QED
    BY <2>1, <2>2, <1>1
<1>9. CASE Restart \/ UNCHANGED vars
  BY <1>9, <1>1 DEF Restart, vars, routeVars
<1>10. ASSUME NEW r \in Requests, ChargeThrows(r)
       PROVE  DispatchInv'
  BY <1>10, ThrowStep DEF AfterDispatch
<1>11. ASSUME NEW r \in Requests, CutAfterCharge(r)
       PROVE  DispatchInv'
  <2>1. /\ UNCHANGED vendor
        /\ phase'[r] = "done" /\ reply'[r] = "dropped_charged"
        /\ Route(r) = "rank" \/ vendor[r] = "created"
        /\ \A q \in Requests \ {r} : Dies(q, phase[q] = "charged")
    BY <1>11, CutStep
  <2>2. QED
    BY <2>1 DEF Dies, AfterDispatch, RequestInv
<1>12. QED
  BY <1>2, <1>3, <1>4, <1>5, <1>6, <1>7, <1>8, <1>9, <1>10, <1>11
     DEF Next, Immediate

\* Rows are never deleted, and a key comes after its account's row.
LEMMA StepKeys ==
  ASSUME TypeOK, KeyHasAccount, [Next]_vars
  PROVE  KeyHasAccount'
<1>1. accounts \subseteq accounts'
  <2>1. [LedgerNext]_ledgerVars
    BY StepLedger
  <2>2. QED
    BY <2>1 DEF LedgerNext, EnsureAccount, TopUp, Charge, Post, ledgerVars
<1>2. CASE UNCHANGED keys
  BY <1>1, <1>2 DEF KeyHasAccount
<1>3. ASSUME NEW k \in Keys, CreateKey(k) \/ RevokeKey(k)
      PROVE  KeyHasAccount'
  BY <1>1, <1>3 DEF CreateKey, RevokeKey, EnsureAccount, KeyHasAccount, TypeOK,
                    RoutesTypeOK
<1>4. ASSUME NEW r \in Requests,
             \/ Immediate(r) \/ BookReturns(r) \/ ChargeThrows(r)
             \/ CutAfterCharge(r) \/ Dispatch(r) \/ VendorDecides(r)
      PROVE  UNCHANGED keys
  BY <1>4, ImmediateStep, ReturnStep
     DEF ChargeThrows, CutAfterCharge, Finish, Dispatch, VendorDecides
<1>5. CASE \/ \E k \in Keys : CreateKeyCut(k)
           \/ \E a \in Accounts : AdminTopUp(a)
           \/ Crash \/ Restart \/ UNCHANGED vars
  BY <1>2, <1>5 DEF CreateKeyCut, AdminTopUp, Crash, Restart, vars, routeVars
<1>6. QED
  BY <1>2, <1>3, <1>4, <1>5 DEF Next, Immediate

----------------------------------------------------------------------------
(* Requests move on, and what each step does to what is billed.            *)

LEMMA StepRequests ==
  ASSUME RoutesTypeOK, RequestInv, [Next]_vars
  PROVE  RequestInv'
<1> USE DEF RoutesTypeOK, RequestInv, Route
<1>1. CASE UNCHANGED <<phase, reply, offer>>
  BY <1>1
<1>2. CASE \E k \in Keys : CreateKey(k) \/ RevokeKey(k)
  BY <1>2, <1>1 DEF CreateKey, RevokeKey
<1>3. CASE \E a \in Accounts : AdminTopUp(a)
  BY <1>3, <1>1 DEF AdminTopUp, routeVars
<1>4. ASSUME NEW r \in Requests,
             \/ RefuseBody(r) \/ RefuseKey(r) \/ RefuseBroke(r) \/ AnswerNoOffer(r)
             \/ RefuseQuote(r) \/ AnswerQuote(r) \/ AnswerRank(r) \/ RefuseRank(r)
             \/ BookReturns(r) \/ ChargeThrows(r)
      PROVE  RequestInv'
  <2>1. /\ UNCHANGED offer
        /\ \E answer : /\ Finish(r, answer)
                       /\ answer # "dropped_charged"
                       /\ answer = "booked" => phase[r] = "waiting"
                       /\ answer = "ok" => Route(r) # "book"
    BY <1>4 DEF RefuseBody, RefuseKey, RefuseBroke, AnswerNoOffer, RefuseQuote,
                AnswerQuote, AnswerRank, RefuseRank, BookReturns, AnswerDeclined,
                VendorAnswerLost, Booked, AnswerUnsettled, ChargeThrows, Waiting,
                Admitted, Arrives
  <2>2. PICK answer : /\ Finish(r, answer)
                      /\ answer # "dropped_charged"
                      /\ answer = "booked" => phase[r] = "waiting"
                      /\ answer = "ok" => Route(r) # "book"
    BY <2>1
  <2>3. /\ phase' = [phase EXCEPT ![r] = "done"]
        /\ reply' = [reply EXCEPT ![r] = answer]
    BY <2>2 DEF Finish
  <2>4. ASSUME NEW q \in Requests, q # r
        PROVE  phase'[q] = phase[q] /\ reply'[q] = reply[q]
    BY <2>3, <2>4
  <2>5. phase'[r] = "done" /\ reply'[r] = answer
    BY <2>3
  <2>6. QED
    BY <2>1, <2>2, <2>4, <2>5
<1>5. ASSUME NEW r \in Requests, ChargeQuote(r)
      PROVE  RequestInv'
  BY <1>5 DEF ChargeQuote, Arrives
<1>6. ASSUME NEW r \in Requests, Dispatch(r)
      PROVE  RequestInv'
  BY <1>6 DEF Dispatch, Admitted, Arrives
<1>7. ASSUME NEW r \in Requests, VendorDecides(r)
      PROVE  RequestInv'
  BY <1>7, <1>1 DEF VendorDecides
<1>8. CASE Crash \/ \E k \in Keys : CreateKeyCut(k)
  <2>1. UNCHANGED offer /\ (Die \/ UNCHANGED <<phase, reply>>)
    BY <1>8 DEF Crash, CreateKeyCut
  <2>2. QED
    BY <2>1, <1>1, DieStep DEF Dies
<1>9. CASE Restart \/ UNCHANGED vars
  BY <1>9, <1>1 DEF Restart, vars, routeVars
<1>10. ASSUME NEW r \in Requests, CutAfterCharge(r)
       PROVE  RequestInv'
  <2>1. /\ UNCHANGED offer
        /\ phase'[r] = "done" /\ reply'[r] = "dropped_charged"
        /\ Route(r) = "rank" \/ phase[r] = "waiting"
        /\ \A q \in Requests \ {r} : Dies(q, phase[q] = "charged")
    BY <1>10, CutStep
  <2>2. QED
    BY <2>1 DEF Dies
<1>11. QED
  BY <1>2, <1>3, <1>4, <1>5, <1>6, <1>7, <1>8, <1>9, <1>10 DEF Next, Quote, Rank

\* No account is charged: at most a row or a top-up is written.
NoCharge ==
  \/ UNCHANGED ledgerVars
  \/ \E k \in Keys : EnsureAccount(KeyAccount[k])
  \/ \E a \in Accounts, mills \in TopUpMills : TopUp(a, mills)

SameBills ==
  \A q \in Requests : /\ Billed(q)' <=> Billed(q)
                      /\ Billed(q) => offer'[q] = offer[q]

\* The three kinds of step: nothing is sold; something sold earlier is
\* delivered; a request is billed and its account charged.
Quiet ==
  /\ SameBills
  /\ \A q \in Requests : Delivered(q)' <=> Delivered(q)
  /\ NoCharge

Delivery(r) ==
  /\ SameBills
  /\ UNCHANGED ledgerVars
  /\ Billed(r) /\ ~Delivered(r) /\ Delivered(r)'
  /\ \A q \in Requests \ {r} : Delivered(q)' <=> Delivered(q)

Sale(r) ==
  /\ ~Billed(r) /\ Billed(r)'
  /\ \A q \in Requests \ {r} : /\ Billed(q)' <=> Billed(q)
                               /\ Delivered(q)' <=> Delivered(q)
  /\ Charge(Account(r), Due(r), Body[r].hash)
  /\ Route(r) = "book" => offer[r] \in Prices
  /\ UNCHANGED offer

LEMMA StepKind ==
  ASSUME RoutesTypeOK, RequestInv, [Next]_vars
  PROVE  Quiet \/ \E r \in Requests : Delivery(r) \/ Sale(r)
<1> USE DEF RoutesTypeOK, RequestInv, Billed, Delivered, Route
<1>1. ASSUME UNCHANGED <<phase, reply, offer>>, NoCharge
      PROVE  Quiet
  BY <1>1 DEF Quiet, SameBills
<1>2. ASSUME NEW k \in Keys, CreateKey(k) \/ RevokeKey(k)
      PROVE  Quiet
  BY <1>2, <1>1 DEF CreateKey, RevokeKey, NoCharge
<1>3. ASSUME NEW a \in Accounts, AdminTopUp(a)
      PROVE  Quiet
  BY <1>3, <1>1 DEF AdminTopUp, NoCharge, routeVars
<1>4. ASSUME NEW r \in Requests,
             \/ RefuseBody(r) \/ RefuseKey(r) \/ RefuseBroke(r) \/ AnswerNoOffer(r)
             \/ RefuseQuote(r) \/ RefuseRank(r)
             \/ AnswerDeclined(r) \/ VendorAnswerLost(r) \/ AnswerUnsettled(r)
             \/ ChargeThrows(r)
      PROVE  Quiet
  <2>1. /\ phase[r] \in {"new", "waiting"}
        /\ UNCHANGED <<ledgerVars, offer>>
        /\ \E answer \in {"invalid_request", "unknown_key", "insufficient_credits",
                          "no_offer", "vendor_declined", "unsettled",
                          "internal_error"} : Finish(r, answer)
    BY <1>4 DEF RefuseBody, RefuseKey, RefuseBroke, AnswerNoOffer, RefuseQuote,
                RefuseRank, AnswerDeclined, VendorAnswerLost, AnswerUnsettled,
                ChargeThrows, AtCharge, Admitted, Arrives, Waiting
  <2>2. QED
    BY <2>1 DEF Finish, Quiet, SameBills, NoCharge
<1>5. ASSUME NEW r \in Requests, ChargeQuote(r)
      PROVE  Sale(r)
  BY <1>5 DEF ChargeQuote, Arrives, Sale, Due
<1>6. ASSUME NEW r \in Requests, AnswerQuote(r)
      PROVE  Delivery(r)
  BY <1>6 DEF AnswerQuote, Finish, Delivery, SameBills
<1>7. ASSUME NEW r \in Requests, AnswerRank(r)
      PROVE  Sale(r)
  BY <1>7 DEF AnswerRank, Admitted, Arrives, Finish, Sale, Due
<1>8. ASSUME NEW r \in Requests, Booked(r)
      PROVE  Sale(r)
  BY <1>8 DEF Booked, Waiting, Finish, Sale, Due
<1>9. ASSUME NEW r \in Requests, Dispatch(r)
      PROVE  Quiet
  BY <1>9 DEF Dispatch, Admitted, Arrives, Quiet, SameBills, NoCharge
<1>10. ASSUME NEW r \in Requests, VendorDecides(r)
       PROVE  Quiet
  BY <1>10, <1>1 DEF VendorDecides, NoCharge
<1>11. CASE Crash \/ \E k \in Keys : CreateKeyCut(k)
  <2>1. /\ UNCHANGED offer /\ NoCharge
        /\ Die \/ UNCHANGED <<phase, reply>>
    BY <1>11 DEF Crash, CreateKeyCut, NoCharge
  <2>2. QED
    BY <2>1, <1>1, DieStep DEF Dies, Quiet, SameBills
<1>12. CASE Restart \/ UNCHANGED vars
  BY <1>12, <1>1 DEF Restart, NoCharge, vars, routeVars
<1>13. ASSUME NEW r \in Requests, CutAfterCharge(r)
       PROVE  Sale(r)
  <2>1. /\ ~Billed(r) /\ Billed(r)'
        /\ \A q \in Requests \ {r} : /\ Billed(q)' <=> Billed(q)
                                     /\ Delivered(q)' <=> Delivered(q)
    <3>1. /\ phase'[r] = "done" /\ reply'[r] = "dropped_charged"
          /\ phase[r] \in {"new", "waiting"}
          /\ \A q \in Requests \ {r} : Dies(q, phase[q] = "charged")
      BY <1>13, CutStep
    <3>2. QED
      BY <3>1 DEF Dies
  <2>2. Route(r) = "book" => offer[r] \in Prices
    BY <1>13, CutStep
  <2>3. QED
    BY <1>13, <2>1, <2>2 DEF CutAfterCharge, Sale
<1>14. QED
  BY <1>2, <1>3, <1>4, <1>5, <1>6, <1>7, <1>8, <1>9, <1>10, <1>11, <1>12, <1>13
     DEF Next, Quote, Rank, BookReturns

----------------------------------------------------------------------------
(* Billing: each billed request keeps the charge it was matched with, and  *)
(* a sale adds one request and one charge, which are matched.              *)

LEMMA ChargesAreRows ==
  ASSUME NEW a, NEW hash
  PROVE  /\ ChargesFor(a, hash) = Rows(a, "charge", {hash})
         /\ ChargesFor(a, hash)' = Rows(a, "charge", {hash})'
  BY DEF ChargesFor, Rows

\* A charge is added under its own account and hash; every other account and
\* hash keeps the charges it had.
LEMMA PostCharges ==
  ASSUME LedgerTypeOK,
         NEW b \in Accounts, NEW cents \in Nat, NEW h \in Hashes, NEW left \in Int,
         Post(b, "charge", cents, h, left),
         NEW a \in Accounts, NEW hash \in Hashes
  PROVE  /\ \A i \in ChargesFor(a, hash) : ledger'[a][i] = ledger[a][i]
         /\ IF a = b /\ h = hash
            THEN /\ Len(ledger[a]) + 1 \notin ChargesFor(a, hash)
                 /\ ChargesFor(a, hash)'
                      = ChargesFor(a, hash) \cup {Len(ledger[a]) + 1}
                 /\ ledger'[a][Len(ledger[a]) + 1].amount = cents
            ELSE ChargesFor(a, hash)' = ChargesFor(a, hash)
<1> DEFINE type == "charge"
<1>1. type \in {"topup", "charge"} /\ h \in Hashes \cup {NoHash}
  OBVIOUS
<1>2. Post(b, type, cents, h, left)
  OBVIOUS
<1>3. /\ \A i \in Rows(a, "charge", {hash}) : ledger'[a][i] = ledger[a][i]
      /\ IF a = b /\ type = "charge" /\ h \in {hash}
         THEN /\ Len(ledger[a]) + 1 \notin Rows(a, "charge", {hash})
              /\ Rows(a, "charge", {hash})'
                   = Rows(a, "charge", {hash}) \cup {Len(ledger[a]) + 1}
              /\ ledger'[a][Len(ledger[a]) + 1].amount = cents
         ELSE Rows(a, "charge", {hash})' = Rows(a, "charge", {hash})
  <2> HIDE DEF type
  <2>1. QED
    BY <1>1, <1>2, PostRows
<1>4. QED
  BY <1>3, ChargesAreRows

LEMMA NoChargeKeeps ==
  ASSUME LedgerTypeOK, NoCharge, NEW a \in Accounts, NEW hash \in Hashes
  PROVE  /\ ChargesFor(a, hash)' = ChargesFor(a, hash)
         /\ \A i \in ChargesFor(a, hash) : ledger'[a][i] = ledger[a][i]
<1>1. CASE UNCHANGED ledger
  BY <1>1 DEF ChargesFor
<1>2. ASSUME NEW b \in Accounts, NEW mills \in TopUpMills, TopUp(b, mills)
      PROVE  /\ ChargesFor(a, hash)' = ChargesFor(a, hash)
             /\ \A i \in ChargesFor(a, hash) : ledger'[a][i] = ledger[a][i]
  <2>1. mills \in Nat
    BY BearerAssumption
  <2>2. ToCents(mills) \in Nat /\ balance[b] + ToCents(mills) \in Int
    BY <2>1, ToCentsNat DEF LedgerTypeOK
  <2>3. Post(b, "topup", ToCents(mills), NoHash, balance[b] + ToCents(mills))
    BY <1>2 DEF TopUp
  <2>4. /\ \A i \in Rows(a, "charge", {hash}) : ledger'[a][i] = ledger[a][i]
        /\ Rows(a, "charge", {hash})' = Rows(a, "charge", {hash})
    BY <2>2, <2>3, TopUpRows
  <2>5. QED
    BY <2>4, ChargesAreRows
<1>3. QED
  BY <1>1, <1>2 DEF NoCharge, EnsureAccount, ledgerVars

\* No step takes a charge from the request it was made for, or charges for one
\* that is not billed.
LEMMA StepBilling ==
  ASSUME TypeOK, RequestInv, BillingMatchesAnswers, [Next]_vars
  PROVE  BillingMatchesAnswers'
<1> SUFFICES ASSUME NEW a \in Accounts, NEW hash \in Hashes
             PROVE  (\E entry \in Bijection(BilledUnder(a, hash),
                                            ChargesFor(a, hash)) :
                       \A r \in BilledUnder(a, hash) :
                         ledger[a][entry[r]].amount = Due(r))'
  BY DEF BillingMatchesAnswers
<1>1. PICK f \in Bijection(BilledUnder(a, hash), ChargesFor(a, hash)) :
        \A r \in BilledUnder(a, hash) : ledger[a][f[r]].amount = Due(r)
  BY DEF BillingMatchesAnswers
<1>2. f \in [BilledUnder(a, hash) -> ChargesFor(a, hash)]
  BY DEF Bijection, Injection
<1>3. LedgerTypeOK /\ RoutesTypeOK
  BY DEF TypeOK
<1>4. ASSUME SameBills, NoCharge
      PROVE  (\E entry \in Bijection(BilledUnder(a, hash), ChargesFor(a, hash)) :
                \A r \in BilledUnder(a, hash) :
                  ledger[a][entry[r]].amount = Due(r))'
  <2>1. BilledUnder(a, hash)' = BilledUnder(a, hash)
    BY <1>4 DEF SameBills, BilledUnder, Account, Key
  <2>2. \A r \in BilledUnder(a, hash) : Due(r)' = Due(r)
    BY <1>4 DEF SameBills, BilledUnder, Due, Price, Route
  <2>3. /\ ChargesFor(a, hash)' = ChargesFor(a, hash)
        /\ \A i \in ChargesFor(a, hash) : ledger'[a][i] = ledger[a][i]
    BY <1>3, <1>4, NoChargeKeeps
  <2>4. \A r \in BilledUnder(a, hash) : ledger'[a][f[r]].amount = Due(r)'
    BY <1>1, <1>2, <2>2, <2>3
  <2>5. QED
    BY <2>1, <2>3, <2>4
<1>5. ASSUME NEW s \in Requests, Sale(s)
      PROVE  (\E entry \in Bijection(BilledUnder(a, hash), ChargesFor(a, hash)) :
                \A r \in BilledUnder(a, hash) :
                  ledger[a][entry[r]].amount = Due(r))'
  <2>1. /\ Account(s) \in Accounts /\ Body[s].hash \in Hashes
        /\ Due(s) \in Nat /\ balance[Account(s)] - Due(s) \in Int
    <3>1. Account(s) \in Accounts /\ Body[s].hash \in Hashes
      BY BodyTypes
    <3>2. Due(s) \in Nat
      BY <1>3, PriceNat, BearerAssumption DEF Due, RoutesTypeOK
    <3>3. QED
      BY <1>3, <3>1, <3>2 DEF LedgerTypeOK
  <2>2. Post(Account(s), "charge", Due(s), Body[s].hash,
             balance[Account(s)] - Due(s))
    BY <1>5 DEF Sale, Charge
  <2>3. \A r \in Requests : Due(r)' = Due(r)
    BY <1>5 DEF Sale, Due, Price, Route
  <2>4. CASE a = Account(s) /\ hash = Body[s].hash
    <3> DEFINE n == Len(ledger[a]) + 1
               g == [r \in BilledUnder(a, hash) \cup {s} |->
                       IF r = s THEN n ELSE f[r]]
    <3>1. /\ s \notin BilledUnder(a, hash)
          /\ BilledUnder(a, hash)' = BilledUnder(a, hash) \cup {s}
      BY <1>5, <2>4 DEF Sale, BilledUnder, Account, Key
    <3>2. /\ n \notin ChargesFor(a, hash)
          /\ ChargesFor(a, hash)' = ChargesFor(a, hash) \cup {n}
          /\ ledger'[a][n].amount = Due(s)
          /\ \A i \in ChargesFor(a, hash) : ledger'[a][i] = ledger[a][i]
      BY <1>3, <2>1, <2>2, <2>4, PostCharges
    <3> HIDE DEF n
    <3>3. g \in Bijection(BilledUnder(a, hash)', ChargesFor(a, hash)')
      BY <3>1, <3>2, AddPair
    <3>4. \A r \in BilledUnder(a, hash)' : ledger'[a][g[r]].amount = Due(r)'
      <4>1. ASSUME NEW r \in BilledUnder(a, hash)
            PROVE  ledger'[a][g[r]].amount = Due(r)'
        <5>1. r # s /\ r \in Requests
          BY <3>1 DEF BilledUnder
        <5>2. g[r] = f[r] /\ f[r] \in ChargesFor(a, hash)
          BY <1>2, <5>1
        <5>3. QED
          BY <1>1, <2>3, <3>2, <5>1, <5>2
      <4>2. ledger'[a][g[s]].amount = Due(s)'
        BY <2>3, <3>2
      <4>3. QED
        BY <3>1, <4>1, <4>2
    <3>5. QED
      BY <3>3, <3>4
  <2>5. CASE ~(a = Account(s) /\ hash = Body[s].hash)
    <3>1. BilledUnder(a, hash)' = BilledUnder(a, hash)
      BY <1>5, <2>5 DEF Sale, BilledUnder, Account, Key
    <3>2. /\ ChargesFor(a, hash)' = ChargesFor(a, hash)
          /\ \A i \in ChargesFor(a, hash) : ledger'[a][i] = ledger[a][i]
      BY <1>3, <2>1, <2>2, <2>5, PostCharges
    <3>3. \A r \in BilledUnder(a, hash) : ledger'[a][f[r]].amount = Due(r)'
      BY <1>1, <1>2, <2>3, <3>2 DEF BilledUnder
    <3>4. QED
      BY <3>1, <3>2, <3>3
  <2>6. QED
    BY <2>4, <2>5
<1>6. QED
  BY <1>3, <1>4, <1>5, StepKind DEF Quiet, Delivery, NoCharge

----------------------------------------------------------------------------
LEMMA BearerInitIInv == Init => IInv
<1> SUFFICES ASSUME Init
             PROVE  IInv
  OBVIOUS
<1>1. LedgerTypeOK /\ LedgerSound
  BY LedgerInitSound DEF Init
<1>2. RoutesTypeOK /\ DispatchInv
  BY DEF Init, RoutesTypeOK, DispatchInv, Replies
<1>3. KeyHasAccount
  BY DEF Init, KeyHasAccount
<1>4. RequestInv
  BY DEF Init, RequestInv
<1>5. BillingMatchesAnswers
  <2> SUFFICES ASSUME NEW a \in Accounts, NEW hash \in Hashes
               PROVE  << >> \in Bijection(BilledUnder(a, hash), ChargesFor(a, hash))
                      /\ BilledUnder(a, hash) = {}
    BY DEF BillingMatchesAnswers
  <2>1. BilledUnder(a, hash) = {}
    BY DEF Init, BilledUnder, Billed
  <2>2. ChargesFor(a, hash) = {}
    BY DEF Init, LedgerInit, ChargesFor
  <2>3. QED
    BY <2>1, <2>2 DEF Bijection, Injection, Surjection, IsInjective
<1>6. QED
  BY <1>1, <1>2, <1>3, <1>4, <1>5 DEF IInv, TypeOK

LEMMA BearerStepIInv ==
  ASSUME IInv, [Next]_vars
  PROVE  IInv'
<1>1. LedgerTypeOK /\ RoutesTypeOK
  BY DEF IInv, TypeOK
<1>2. LedgerTypeOK' /\ LedgerSound'
  BY <1>1, StepLedger, LedgerStepSound DEF IInv
<1>3. RoutesTypeOK'
  BY <1>1, StepRoutesType
<1>4. DispatchInv'
  BY <1>1, StepDispatch DEF IInv
<1>5. TypeOK'
  BY <1>2, <1>3 DEF TypeOK
<1>6. KeyHasAccount'
  BY StepKeys DEF IInv
<1>7. RequestInv' /\ BillingMatchesAnswers'
  BY <1>1, StepRequests, StepBilling DEF IInv
<1>8. QED
  BY <1>2, <1>4, <1>5, <1>6, <1>7 DEF IInv

LEMMA BearerIInv == Spec => []IInv
<1>1. IInv /\ [Next]_vars => IInv'
  BY BearerStepIInv
<1>2. QED
  BY BearerInitIInv, <1>1, PTL DEF Spec

\* The state of the routes keeps its types.
THEOREM BearerTypeOK == Spec => []TypeOK
  BY BearerIInv, PTL DEF IInv

\* The ledger stays sound under quotes, ranks, bookings and top-ups in any
\* interleaving, across crashes (creditLedger.ts:73-138).
THEOREM BearerLedgerSound == Spec => []LedgerSound
  BY BearerIInv, PTL DEF IInv

\* Whatever the routes do, an account's balance is what was added to it less what
\* was charged, and no request ever spent what had not been added before
\* (creditLedger.ts:73-138).
THEOREM BearerAddsUp == Spec => []BalanceAddsUp
<1>1. IInv => BalanceAddsUp
  BY SoundAddsUp DEF IInv, TypeOK
<1>2. QED
  BY BearerIInv, <1>1, PTL

\* Wherever the creation of a key is cut short, no key is left without its
\* account (apiKeyStore.ts:67-77).
THEOREM BearerKeyHasAccount == Spec => []KeyHasAccount
  BY BearerIInv, PTL DEF IInv

\* A booking is billed, or reported as unsettled, only for a pod that exists,
\* and an unreported pod comes only from a lost answer, a crash or a failed
\* transaction (book.ts:106-135).
THEOREM BearerPodsAccountedFor == Spec => []PodsAccountedFor
<1>1. IInv => PodsAccountedFor
  BY DEF IInv, DispatchInv, RequestInv, PodsAccountedFor, AfterDispatch, Billed
<1>2. QED
  BY BearerIInv, <1>1, PTL

\* Each billed request has its own charge, of the right amount, and there are no
\* others (rank.ts:131-132, book.ts:59-67).
THEOREM BearerBillingMatches == Spec => []BillingMatchesAnswers
  BY BearerIInv, PTL DEF IInv

\* What the vendor asks for the pod of a booking, in tenths of a cent.
Ask(r) == Body[r].hours * offer[r]

\* An amount in cents is the ask and the margin, rounded: less than the ask by
\* 0.4 cents at most, never less when 100/M cents or so of it are the margin's, and
\* off the exact price by the two roundings and no more.
Follows(paid, ask) ==
  /\ 10 * paid >= ask - 4
  /\ (ask - 4) * MarginPercent >= 890 => 10 * paid >= ask
  /\ 1000 * paid - ask * (100 + MarginPercent)
       \in -(490 + 4 * (100 + MarginPercent)) .. 500 + 5 * (100 + MarginPercent)

LEMMA PriceFollows ==
  ASSUME NEW r \in Requests, NEW hourly \in Prices
  PROVE  Follows(Price(r, hourly), Body[r].hours * hourly)
<1> DEFINE ask   == Body[r].hours * hourly
           cost  == VendorCost(Body[r].hours, hourly)
           price == Price(r, hourly)
           scale == 100 + MarginPercent
           off   == 10 * cost - ask
<1>1. ask \in Nat /\ MarginPercent \in Nat /\ scale \in Nat
  BY BodyTypes, BearerAssumption, ProductNat
<1>2. cost \in Nat /\ price \in Nat
  <2>1. hourly \in Prices \cup {0} /\ Body[r].hours * hourly \in Nat
    BY <1>1
  <2>2. QED
    BY <2>1, PriceNat, ToCentsNat DEF VendorCost
<1>3. off \in -4 .. 5 /\ 100 * price - cost * scale \in -49 .. 50 /\ price >= cost
  BY BookingPrice
<1>4. cost * scale = 100 * cost + cost * MarginPercent
  <2> HIDE DEF cost
  <2>1. QED
    BY <1>1, <1>2 DEF scale
<1>5. 10 * (cost * scale) - ask * scale = off * scale
  <2> HIDE DEF cost, ask, scale
  <2>1. QED
    BY <1>1, <1>2 DEF off
<1>6. 10 * (cost * MarginPercent) = (ask + off) * MarginPercent
  <2> HIDE DEF cost, ask
  <2>1. QED
    BY <1>1, <1>2 DEF off
<1>7. /\ cost * scale \in Nat /\ ask * scale \in Nat
      /\ cost * MarginPercent \in Nat
      /\ off * scale \in Int
      /\ -(4 * scale) <= off * scale /\ off * scale <= 5 * scale
  <2> HIDE DEF cost, ask, scale, off
  <2>1. QED
    BY <1>1, <1>2, <1>3, ProductNat, ScaledError
<1>8. (ask - 4) * MarginPercent <= (ask + off) * MarginPercent
  <2>1. off + 4 \in Nat
    BY <1>3
  <2>2. (off + 4) * MarginPercent \in Nat
    BY <1>1, <2>1, ProductNat
  <2>3. (ask + off) * MarginPercent = (ask - 4) * MarginPercent + (off + 4) * MarginPercent
    <3> HIDE DEF ask, off
    <3>1. QED
      BY <1>1, <1>3
  <2>4. (ask - 4) * MarginPercent \in Int
    BY <1>1
  <2>5. QED
    BY <2>2, <2>3, <2>4
<1> HIDE DEF ask, cost, price, off
<1>9. 10 * price >= ask - 4
  BY <1>1, <1>2, <1>3 DEF off
<1>10. ASSUME (ask - 4) * MarginPercent >= 890
       PROVE  10 * price >= ask
  <2>1. 10 * (cost * MarginPercent) >= 890
    <3>1. (ask - 4) * MarginPercent \in Int /\ (ask + off) * MarginPercent \in Int
      BY <1>1, <1>3
    <3>2. QED
      BY <3>1, <1>6, <1>7, <1>8, <1>10
  <2>2. 100 * price >= 100 * cost + 40
    BY <1>1, <1>2, <1>3, <1>4, <1>7, <2>1
  <2>3. QED
    BY <1>1, <1>2, <1>3, <2>2 DEF off
<1>11. 1000 * price - ask * scale \in -(490 + 4 * scale) .. 500 + 5 * scale
  <2> HIDE DEF scale
  <2>1. QED
    BY <1>1, <1>2, <1>3, <1>5, <1>7
<1>12. QED
  BY <1>9, <1>10, <1>11 DEF Follows, ask, price, scale

BookingsFollowTheAsk ==
  \A r \in Requests :
    Route(r) = "book" /\ Billed(r) =>
      \E i \in ChargesFor(Account(r), Body[r].hash) :
        Follows(ledger[Account(r)][i].amount, Ask(r))

\* A booking that was billed, also one whose answer a crash took, has a charge in
\* the ledger that follows what the vendor asks for the pod: it is the ask and the
\* margin up to the two roundings, and only for pods of a few cents may it fall
\* short of the ask, by at most 0.4 cents (book.ts:118-122).
THEOREM BearerBookingsFollowTheAsk == Spec => []BookingsFollowTheAsk
<1>1. IInv => BookingsFollowTheAsk
  <2> SUFFICES ASSUME IInv, NEW r \in Requests, Route(r) = "book", Billed(r)
               PROVE  \E i \in ChargesFor(Account(r), Body[r].hash) :
                        Follows(ledger[Account(r)][i].amount, Ask(r))
    BY DEF BookingsFollowTheAsk
  <2>1. Account(r) \in Accounts /\ Body[r].hash \in Hashes
    BY BodyTypes
  <2>2. r \in BilledUnder(Account(r), Body[r].hash)
    BY DEF BilledUnder
  <2>3. PICK f \in Bijection(BilledUnder(Account(r), Body[r].hash),
                             ChargesFor(Account(r), Body[r].hash)) :
               ledger[Account(r)][f[r]].amount = Due(r)
    BY <2>1, <2>2 DEF IInv, BillingMatchesAnswers
  <2>4. f[r] \in ChargesFor(Account(r), Body[r].hash)
    BY <2>2 DEF Bijection, Injection
  <2>5. offer[r] \in Prices
    BY DEF IInv, RequestInv, Billed
  <2>6. Follows(Due(r), Ask(r))
    BY <2>5, PriceFollows DEF Due, Ask
  <2>7. QED
    BY <2>3, <2>4, <2>6
<1>2. QED
  BY <1>1, BearerIInv, PTL

----------------------------------------------------------------------------
(* The routes implement PrepaidAccess.                                     *)

LEMMA QuietStutters ==
  ASSUME IInv, Quiet
  PROVE  [Promise!Next]_<<balance, {r \in Requests : Billed(r)},
                          {r \in Requests : Delivered(r)}>>
<1>1. /\ {r \in Requests : Billed(r)}' = {r \in Requests : Billed(r)}
      /\ {r \in Requests : Delivered(r)}' = {r \in Requests : Delivered(r)}
  BY DEF Quiet, SameBills
<1>2. CASE UNCHANGED balance
  BY <1>1, <1>2
<1>3. ASSUME NEW a \in Accounts, NEW mills \in TopUpMills, TopUp(a, mills)
      PROVE  Promise!Next
  <2>1. balance' = [balance EXCEPT ![a] = @ + ToCents(mills)]
    BY <1>3 DEF TopUp, Post
  <2>2. ToCents(mills) \in (mills + 4) \div 10 .. (mills + 5) \div 10
    BY BearerAssumption DEF ToCents
  <2>3. Promise!Add(a)
    BY <1>1, <2>1, <2>2 DEF Promise!Add
  <2>4. QED
    BY <2>3 DEF Promise!Next
<1>4. QED
  BY <1>2, <1>3 DEF Quiet, NoCharge, EnsureAccount, ledgerVars

LEMMA DeliveryDelivers ==
  ASSUME IInv, NEW s \in Requests, Delivery(s)
  PROVE  Promise!Next
<1>1. /\ {r \in Requests : Billed(r)}' = {r \in Requests : Billed(r)}
      /\ UNCHANGED balance
      /\ s \in {r \in Requests : Billed(r)} \ {r \in Requests : Delivered(r)}
  BY DEF Delivery, SameBills, ledgerVars
<1>2. {r \in Requests : Delivered(r)}' = {r \in Requests : Delivered(r)} \cup {s}
  BY DEF Delivery
<1>3. Promise!Deliver(s)
  BY <1>1, <1>2 DEF Promise!Deliver
<1>4. QED
  BY <1>3 DEF Promise!Next

LEMMA SaleSells ==
  ASSUME IInv, NEW s \in Requests, Sale(s)
  PROVE  Promise!Next
<1> DEFINE cost == [r \in Requests |->
                      IF Route(r) = "book" THEN {Price(r, hourly) : hourly \in Prices}
                      ELSE {RoutePrice}]
           owner == [r \in Requests |-> Account(r)]
<1>1. Due(s) \in cost[s] /\ owner[s] = Account(s)
  BY DEF Sale, Due
<1>2. /\ Due(s) <= balance[owner[s]]
      /\ balance' = [balance EXCEPT ![owner[s]] = @ - Due(s)]
  <2>1. Due(s) <= balance[Account(s)]
    <3>1. balance[Account(s)] >= Due(s)
      BY DEF Sale, Charge, Affordable
    <3>2. QED
      BY <3>1
  <2>2. balance' = [balance EXCEPT ![Account(s)] = balance[Account(s)] - Due(s)]
    BY DEF Sale, Charge, Post
  <2>3. QED
    BY <1>1, <2>1, <2>2
<1>3. /\ s \notin {r \in Requests : Billed(r)}
      /\ {r \in Requests : Billed(r)}' = {r \in Requests : Billed(r)} \cup {s}
  BY DEF Sale
<1>4. {r \in Requests : Delivered(r)}'
        \in {{r \in Requests : Delivered(r)},
             {r \in Requests : Delivered(r)} \cup {s}}
  <2>1. ~Delivered(s)
    BY DEF Sale, Delivered, Billed
  <2>2. CASE Delivered(s)'
    <3>1. {r \in Requests : Delivered(r)}' = {r \in Requests : Delivered(r)} \cup {s}
      BY <2>2 DEF Sale
    <3>2. QED
      BY <3>1
  <2>3. CASE ~Delivered(s)'
    <3>1. {r \in Requests : Delivered(r)}' = {r \in Requests : Delivered(r)}
      BY <2>1, <2>3 DEF Sale
    <3>2. QED
      BY <3>1
  <2>4. QED
    BY <2>2, <2>3
<1>5. Promise!Sell(s)
  <2>1. \E price \in cost[s] :
          /\ price <= balance[owner[s]]
          /\ balance' = [balance EXCEPT ![owner[s]] = @ - price]
    BY <1>1, <1>2
  <2>2. QED
    BY <1>3, <1>4, <2>1 DEF Promise!Sell
<1>6. QED
  BY <1>5 DEF Promise!Next

\* The routes implement PrepaidAccess: no interleaving of requests, revocations,
\* awaits and crashes serves what was not paid for, charges a request twice or
\* at another price, or spends what is not there (auth.ts:260-276,
\* rank.ts:224-229, book.ts:118-122).
THEOREM BearerImplementsPromise == Spec => SellsForCredit
<1>1. Init => Promise!Init
  BY DEF Init, LedgerInit, Promise!Init, Billed, Delivered
<1>2. IInv /\ [Next]_vars =>
        [Promise!Next]_<<balance, {r \in Requests : Billed(r)},
                         {r \in Requests : Delivered(r)}>>
  BY StepKind, QuietStutters, DeliveryDelivers, SaleSells DEF IInv, TypeOK
<1>3. QED
  BY <1>1, <1>2, BearerIInv, PTL DEF Spec, SellsForCredit, Promise!Spec

----------------------------------------------------------------------------
LEMMA StepRevoked ==
  ASSUME RoutesTypeOK, [Next]_vars, NEW q \in Requests,
         Billed(q)', ~Billed(q), ~Known(q)
  PROVE  phase[q] = "waiting"
<1> USE DEF RoutesTypeOK, Billed
<1>1. CASE UNCHANGED <<phase, reply>>
  BY <1>1 DEF Route
<1>2. CASE \E k \in Keys : CreateKey(k) \/ RevokeKey(k)
  BY <1>2, <1>1 DEF CreateKey, RevokeKey
<1>3. CASE \E a \in Accounts : AdminTopUp(a)
  BY <1>3, <1>1 DEF AdminTopUp, routeVars
<1>4. ASSUME NEW r \in Requests,
             RefuseBody(r) \/ RefuseKey(r) \/ RefuseBroke(r) \/ AnswerNoOffer(r)
      PROVE  phase[q] = "waiting"
  BY <1>4 DEF RefuseBody, RefuseKey, RefuseBroke, AnswerNoOffer, Finish, Route
<1>5. ASSUME NEW r \in Requests, Quote(r)
      PROVE  phase[q] = "waiting"
  BY <1>5 DEF Quote, ChargeQuote, RefuseQuote, AnswerQuote, Finish, Route
<1>6. ASSUME NEW r \in Requests, Rank(r)
      PROVE  phase[q] = "waiting"
  BY <1>6 DEF Rank, AnswerRank, RefuseRank, Admitted, Finish, Route
<1>7. ASSUME NEW r \in Requests, BookReturns(r) \/ ChargeThrows(r)
      PROVE  phase[q] = "waiting"
  BY <1>7, ReturnStep, ThrowStep
<1>8. ASSUME NEW r \in Requests, Dispatch(r) \/ VendorDecides(r)
      PROVE  phase[q] = "waiting"
  BY <1>8 DEF Dispatch, VendorDecides, Route
<1>9. CASE Crash \/ \E k \in Keys : CreateKeyCut(k)
  <2>1. Die \/ UNCHANGED <<phase, reply>>
    BY <1>9 DEF Crash, CreateKeyCut
  <2>2. QED
    BY <2>1, <1>1, DieStep DEF Dies
<1>10. CASE Restart \/ UNCHANGED vars
  BY <1>10, <1>1 DEF Restart, vars, routeVars
<1>11. ASSUME NEW r \in Requests, CutAfterCharge(r)
       PROVE  phase[q] = "waiting"
  BY <1>11, CutStep DEF Dies
<1>12. QED
  BY <1>2, <1>3, <1>4, <1>5, <1>6, <1>7, <1>8, <1>9, <1>10, <1>11 DEF Next

\* Through a revoked key nothing is billed but a booking that was already at the
\* vendor when the key was revoked (book.ts:85-122).
THEOREM BearerRevokedKey == Spec => RevokedKeySpendsNothingNew
<1>1. IInv /\ [Next]_vars =>
        [\A r \in Requests :
           Billed(r)' /\ ~Billed(r) /\ ~Known(r) => phase[r] = "waiting"]_vars
  BY StepRevoked DEF IInv, TypeOK
<1>2. QED
  BY BearerIInv, <1>1, PTL DEF Spec, RevokedKeySpendsNothingNew
=============================================================================
