---------------------------- MODULE BearerRoutes ----------------------------
(***************************************************************************)
(* The routes a prepaid API key pays for:                                  *)
(*                                                                         *)
(*   POST /v1/route/quote    charge in a preHandler, then read the cache   *)
(*   POST /v1/compute/rank   score first, then charge                      *)
(*   POST /v1/route/book     rank, have the vendor create a pod, charge    *)
(*                                                                         *)
(* and the admin routes that issue and revoke keys and add credit.  A      *)
(* handler runs without interruption up to an await.  Only book awaits a   *)
(* remote answer, so that while one booking waits at the vendor other      *)
(* requests spend from its account and the operator revokes its key.       *)
(*                                                                         *)
(* A request that presents no known key is handed to the x402 rail by      *)
(* quote and rank; that rail touches none of this state.                   *)
(***************************************************************************)
EXTENDS CreditLedger, FiniteSets, Functions

CONSTANTS
  Keys,          \* API keys that may be issued
  KeyAccount,    \* [Keys -> Accounts]: the account a key is issued for
  Requests,
  Body,          \* [Requests -> [route, key, hash, hours, valid]], hours in tenths
  Prices,        \* vendor hourly prices, in cents
  RoutePrice,    \* routePriceUsdc, in cents
  MarginPercent, \* DEFAULT_BOOKING_MARGIN, in percent
  TopUpMills,    \* amounts the operator may add, in mills
  MaxTopUps,     \* bound on top-ups of an account
  MaxFaults      \* bound on crashes and failed transactions

ASSUME BearerAssumption ==
  /\ KeyAccount \in [Keys -> Accounts]
  /\ Prices \subseteq Nat \ {0}
  /\ RoutePrice \in Nat
  /\ MarginPercent \in Nat
  /\ TopUpMills \subseteq Nat
  /\ Body \in [Requests -> [route : {"quote", "rank", "book"}, key : Keys,
                            hash : Hashes, hours : Nat \ {0}, valid : BOOLEAN]]

VARIABLES
  keys,          \* none, active or revoked
  serverUp,
  phase,         \* new; charged (quote, before its handler); waiting (book); done
  reply,         \* how the request was answered
  offer,         \* hourly price of the offer a booking was dispatched for
  vendor,        \* the vendor's side of a booking: idle, asked, created, declined
  faults         \* failures so far, bounded by MaxFaults

routeVars == <<keys, serverUp, phase, reply, offer, vendor, faults>>
vars == <<ledgerVars, routeVars>>

Replies == {"none", "invalid_request", "unknown_key", "insufficient_credits", "no_offer", "ok",
            "vendor_declined", "booked", "unsettled", "internal_error", "dropped",
            "dropped_charged"}

Init ==
  /\ LedgerInit
  /\ keys = [k \in Keys |-> "none"]
  /\ serverUp = TRUE
  /\ phase = [r \in Requests |-> "new"]
  /\ reply = [r \in Requests |-> "none"]
  /\ offer = [r \in Requests |-> 0]
  /\ vendor = [r \in Requests |-> "idle"]
  /\ faults = 0

Key(r) == Body[r].key
Account(r) == KeyAccount[Key(r)]
Route(r) == Body[r].route

InFlight(r) == phase[r] \in {"charged", "waiting"}

\* lookupByRawKey finds a key only while it is issued and not revoked.
Known(r) == keys[Key(r)] = "active"

----------------------------------------------------------------------------
(* Prices of a booking, in cents: rounded to whole cents twice.            *)

VendorCost(hours, hourly) == ToCents(hours * hourly)

QuotedPrice(cost) == (cost * (100 + MarginPercent) + 50) \div 100

Price(r, hourly) == QuotedPrice(VendorCost(Body[r].hours, hourly))

\* What a request is charged, a booking for the offer it was dispatched for.
Due(r) == IF Route(r) = "book" THEN Price(r, offer[r]) ELSE RoutePrice

----------------------------------------------------------------------------
(* Failure.                                                                *)

Fault == faults < MaxFaults /\ faults' = faults + 1

\* Requests in flight, and those in `charged`, whose charge is in the database
\* file, end with the process and without an answer.
DieOwing(charged) ==
  /\ serverUp' = FALSE
  /\ phase' = [r \in Requests |->
                 IF r \in charged \/ InFlight(r) THEN "done" ELSE phase[r]]
  /\ reply' = [r \in Requests |->
                 IF r \in charged THEN "dropped_charged"
                 ELSE IF InFlight(r) THEN "dropped" ELSE reply[r]]

ChargedFirst == {r \in Requests : phase[r] = "charged"}

Die == DieOwing(ChargedFirst)

----------------------------------------------------------------------------
(* Admin and sign-up.  A sign-up issues a key for an account of its own.   *)

\* ApiKeyStore.create: the account row, then the key.
CreateKey(k) ==
  /\ serverUp
  /\ keys[k] = "none"
  /\ keys' = [keys EXCEPT ![k] = "active"]
  /\ EnsureAccount(KeyAccount[k])
  /\ UNCHANGED <<serverUp, phase, reply, offer, vendor, faults>>

\* A bug that inserts the key first.
CreateKeyCutAfterKey(k) ==
  /\ serverUp
  /\ keys[k] = "none"
  /\ keys' = [keys EXCEPT ![k] = "active"]
  /\ Die \/ UNCHANGED <<serverUp, phase, reply>>
  /\ Fault
  /\ UNCHANGED <<ledgerVars, offer, vendor>>

\* The two inserts are no transaction: the second throws and the caller is
\* answered 500, or the process dies between them.
CreateKeyCut(k) ==
  /\ serverUp
  /\ keys[k] = "none"
  /\ EnsureAccount(KeyAccount[k])
  /\ Die \/ UNCHANGED <<serverUp, phase, reply>>
  /\ Fault
  /\ UNCHANGED <<keys, offer, vendor>>

RevokeKey(k) ==
  /\ serverUp
  /\ keys[k] \in {"active", "revoked"}
  /\ keys' = [keys EXCEPT ![k] = "revoked"]
  /\ UNCHANGED <<ledgerVars, serverUp, phase, reply, offer, vendor, faults>>

TopUps(a) == {i \in 1 .. Len(ledger[a]) : ledger[a][i].type = "topup"}

AdminTopUp(a) ==
  /\ serverUp
  /\ Cardinality(TopUps(a)) < MaxTopUps
  /\ \E mills \in TopUpMills : TopUp(a, mills)
  /\ UNCHANGED routeVars

----------------------------------------------------------------------------
(* Requests.                                                               *)

\* A request whose body the route accepts; every route looks at the body first.
Arrives(r, route) ==
  serverUp /\ phase[r] = "new" /\ Route(r) = route /\ Body[r].valid

\* The request is answered; nothing else about it changes.
Finish(r, answer) ==
  /\ phase' = [phase EXCEPT ![r] = "done"]
  /\ reply' = [reply EXCEPT ![r] = answer]
  /\ UNCHANGED <<keys, serverUp>>

\* validateQuoteRequest, RankRequestBody or BookRequestBody fails: 400, before
\* the key is looked at and for free.
RefuseBody(r) ==
  /\ serverUp
  /\ phase[r] = "new"
  /\ ~Body[r].valid
  /\ Finish(r, "invalid_request")
  /\ UNCHANGED <<ledgerVars, offer, vendor, faults>>

\* An unknown or revoked key: book answers 401, quote and rank go on to x402.
RefuseKey(r) ==
  /\ Arrives(r, Route(r))
  /\ ~Known(r)
  /\ Finish(r, "unknown_key")
  /\ UNCHANGED <<ledgerVars, offer, vendor, faults>>

\* quote: the auth preHandler charges before anything is computed.
ChargeQuote(r) ==
  /\ Arrives(r, "quote")
  /\ Known(r)
  /\ Charge(Account(r), RoutePrice, Body[r].hash)
  /\ phase' = [phase EXCEPT ![r] = "charged"]
  /\ UNCHANGED <<keys, serverUp, reply, offer, vendor, faults>>

RefuseQuote(r) ==
  /\ Arrives(r, "quote")
  /\ Known(r)
  /\ ~Affordable(Account(r), RoutePrice)
  /\ Finish(r, "insufficient_credits")
  /\ UNCHANGED <<ledgerVars, offer, vendor, faults>>

\* A bug that charges for the quote again when it has been computed.
AnswerQuoteCharged(r) ==
  /\ serverUp
  /\ phase[r] = "charged"
  /\ Charge(Account(r), RoutePrice, Body[r].hash)
  /\ Finish(r, "ok")
  /\ UNCHANGED <<offer, vendor, faults>>

\* The quote is answered 200 even when the cache holds nothing to quote.
AnswerQuote(r) ==
  /\ serverUp
  /\ phase[r] = "charged"
  /\ Finish(r, "ok")
  /\ UNCHANGED <<ledgerVars, offer, vendor, faults>>

\* rank and book refuse a balance of zero before they look for an offer.
RefuseBroke(r) ==
  /\ Arrives(r, "rank") \/ Arrives(r, "book")
  /\ Known(r)
  /\ balance[Account(r)] <= 0
  /\ Finish(r, "insufficient_credits")
  /\ UNCHANGED <<ledgerVars, offer, vendor, faults>>

Admitted(r, route) ==
  /\ Arrives(r, route)
  /\ Known(r)
  /\ balance[Account(r)] > 0

\* A bug that charges a rank before it knows whether anything matches.
AnswerNoOfferCharged(r) ==
  /\ Admitted(r, "rank") \/ Admitted(r, "book")
  /\ Finish(r, "no_offer")
  /\ Charge(Account(r), RoutePrice, Body[r].hash)
  /\ UNCHANGED <<offer, vendor, faults>>

\* no_inventory or no_match: answered without a charge.
AnswerNoOffer(r) ==
  /\ Admitted(r, "rank") \/ Admitted(r, "book")
  /\ Finish(r, "no_offer")
  /\ UNCHANGED <<ledgerVars, offer, vendor, faults>>

\* A bug that trusts a key it has looked up before.
AnswerRankUnchecked(r) ==
  /\ Arrives(r, "rank")
  /\ Charge(Account(r), RoutePrice, Body[r].hash)
  /\ Finish(r, "ok")
  /\ UNCHANGED <<offer, vendor, faults>>

AnswerRank(r) ==
  /\ Admitted(r, "rank")
  /\ Charge(Account(r), RoutePrice, Body[r].hash)
  /\ Finish(r, "ok")
  /\ UNCHANGED <<offer, vendor, faults>>

\* Some credit, but less than the price: found out only by the charge.
RefuseRank(r) ==
  /\ Admitted(r, "rank")
  /\ ~Affordable(Account(r), RoutePrice)
  /\ Finish(r, "insufficient_credits")
  /\ UNCHANGED <<ledgerVars, offer, vendor, faults>>

\* book calls the vendor and awaits its answer.
Dispatch(r) ==
  /\ Admitted(r, "book")
  /\ \E hourly \in Prices : offer' = [offer EXCEPT ![r] = hourly]
  /\ phase' = [phase EXCEPT ![r] = "waiting"]
  /\ vendor' = [vendor EXCEPT ![r] = "asked"]
  /\ UNCHANGED <<ledgerVars, keys, serverUp, reply, faults>>

\* The vendor decides, whether or not the caller is still there to hear it.
VendorDecides(r) ==
  /\ vendor[r] = "asked"
  /\ \E verdict \in {"created", "declined"} :
       vendor' = [vendor EXCEPT ![r] = verdict]
  /\ UNCHANGED <<ledgerVars, keys, serverUp, phase, reply, offer, faults>>

Waiting(r) == serverUp /\ phase[r] = "waiting"

AnswerDeclined(r) ==
  /\ Waiting(r)
  /\ vendor[r] = "declined"
  /\ Finish(r, "vendor_declined")
  /\ UNCHANGED <<ledgerVars, offer, vendor, faults>>

\* A bug: no end to the wait for a vendor that has not decided.
VendorAnswerAwaited(r) ==
  /\ Waiting(r)
  /\ vendor[r] # "asked"
  /\ Finish(r, "vendor_declined")
  /\ UNCHANGED <<ledgerVars, offer, vendor, faults>>

\* The call fails on the way out or back, times out, or its answer names no
\* pod: RunPodBooker.book returns ok:false whatever the vendor did or will do.
VendorAnswerLost(r) ==
  /\ Waiting(r)
  /\ Finish(r, "vendor_declined")
  /\ UNCHANGED <<ledgerVars, offer, vendor, faults>>

\* A bug that charges before the vendor has confirmed the pod.
BookedEarly(r) ==
  /\ Waiting(r)
  /\ Charge(Account(r), Price(r, offer[r]), Body[r].hash)
  /\ Finish(r, "booked")
  /\ UNCHANGED <<offer, vendor, faults>>

Booked(r) ==
  /\ Waiting(r)
  /\ vendor[r] = "created"
  /\ Charge(Account(r), Price(r, offer[r]), Body[r].hash)
  /\ Finish(r, "booked")
  /\ UNCHANGED <<offer, vendor, faults>>

\* The pod exists and cannot be paid for: 402 with a warning and the pod's id.
AnswerUnsettled(r) ==
  /\ Waiting(r)
  /\ vendor[r] = "created"
  /\ ~Affordable(Account(r), Price(r, offer[r]))
  /\ Finish(r, "unsettled")
  /\ UNCHANGED <<ledgerVars, offer, vendor, faults>>

\* Where a route charges: quote in its preHandler, rank with a ranking to give,
\* book with a pod.
AtCharge(r) ==
  \/ Arrives(r, "quote") /\ Known(r)
  \/ Admitted(r, "rank")
  \/ Waiting(r) /\ vendor[r] = "created"

\* The charge itself throws (disk full, I/O error): Fastify answers 500.
ChargeThrows(r) ==
  /\ AtCharge(r)
  /\ Fault
  /\ Finish(r, "internal_error")
  /\ UNCHANGED <<ledgerVars, offer, vendor>>

\* The process ends with the charge of a rank or a booking committed and its
\* answer not sent.  A quote in that place is in phase "charged".
CutAfterCharge(r) ==
  /\ AtCharge(r)
  /\ Route(r) # "quote"
  /\ Charge(Account(r), Due(r), Body[r].hash)
  /\ DieOwing(ChargedFirst \cup {r})
  /\ Fault
  /\ UNCHANGED <<keys, offer, vendor>>

----------------------------------------------------------------------------
Crash ==
  /\ serverUp
  /\ Die
  /\ Fault
  /\ UNCHANGED <<ledgerVars, keys, offer, vendor>>

Restart ==
  /\ ~serverUp
  /\ serverUp' = TRUE
  /\ UNCHANGED <<ledgerVars, keys, phase, reply, offer, vendor, faults>>

Quote(r) == ChargeQuote(r) \/ RefuseQuote(r) \/ AnswerQuote(r)

Rank(r) == AnswerRank(r) \/ RefuseRank(r)

BookReturns(r) ==
  AnswerDeclined(r) \/ VendorAnswerLost(r) \/ Booked(r) \/ AnswerUnsettled(r)

Next ==
  \/ \E k \in Keys : CreateKey(k) \/ CreateKeyCut(k) \/ RevokeKey(k)
  \/ \E a \in Accounts : AdminTopUp(a)
  \/ \E r \in Requests :
       \/ RefuseBody(r) \/ RefuseKey(r) \/ RefuseBroke(r) \/ AnswerNoOffer(r)
       \/ Quote(r) \/ Rank(r)
       \/ Dispatch(r) \/ VendorDecides(r) \/ BookReturns(r)
       \/ ChargeThrows(r) \/ CutAfterCharge(r)
  \/ Crash
  \/ Restart

Spec == Init /\ [][Next]_vars

\* The host restarts the process, a started handler runs on, and a call to the
\* vendor that is never answered is ended by fetch's own timeout.
Fairness ==
  /\ WF_vars(Restart)
  /\ \A r \in Requests : WF_vars(AnswerQuote(r)) /\ WF_vars(BookReturns(r))

FairSpec == Spec /\ Fairness

----------------------------------------------------------------------------
(* Properties.                                                             *)

RoutesTypeOK ==
  /\ keys \in [Keys -> {"none", "active", "revoked"}]
  /\ serverUp \in BOOLEAN
  /\ phase \in [Requests -> {"new", "charged", "waiting", "done"}]
  /\ reply \in [Requests -> Replies]
  /\ offer \in [Requests -> Prices \cup {0}]
  /\ vendor \in [Requests -> {"idle", "asked", "created", "declined"}]
  /\ faults \in Nat

TypeOK == LedgerTypeOK /\ RoutesTypeOK

\* What was billed: what an answer says was, and what lost its answer after that.
Billed(r) ==
  reply[r] \in {"ok", "booked", "dropped_charged"} \/ phase[r] = "charged"

ChargesFor(a, hash) ==
  {i \in 1 .. Len(ledger[a]) :
     ledger[a][i].type = "charge" /\ ledger[a][i].requestHash = hash}

BilledUnder(a, hash) ==
  {r \in Requests : Account(r) = a /\ Body[r].hash = hash /\ Billed(r)}

\* The ledger and the answers agree, entry by entry: under each request hash an
\* account has a charge of its own, of the right amount, for each of its requests
\* that was answered as billed or lost its answer to a crash behind the charge, and
\* none besides for those refused, unmatched, declined, failed or left unsettled
\* (rank.ts:131-132, book.ts:59-67).
BillingMatchesAnswers ==
  \A a \in Accounts, hash \in Hashes :
    \E entry \in Bijection(BilledUnder(a, hash), ChargesFor(a, hash)) :
      \A r \in BilledUnder(a, hash) : ledger[a][entry[r]].amount = Due(r)

Delivered(r) == reply[r] \in {"ok", "booked"}

\* The routes keep what PrepaidAccess promises: whatever awaits, crashes and
\* other requests of the account come in between, a request is paid for at most
\* once, at its own price, before or as it is served, and never on credit, and an
\* amount in dollars adds its nearest number of cents, also when that is none
\* (auth.ts:248-276, rank.ts:224-229, book.ts:118-122, creditLedger.ts:73-102).
Promise == INSTANCE PrepaidAccess WITH
  Owners <- Accounts,
  Owner <- [r \in Requests |-> Account(r)],
  MayCost <- [r \in Requests |->
                IF Route(r) = "book" THEN {Price(r, hourly) : hourly \in Prices}
                ELSE {RoutePrice}],
  Amounts <- UNION {(mills + 4) \div 10 .. (mills + 5) \div 10 : mills \in TopUpMills},
  funds <- balance,
  paid <- {r \in Requests : Billed(r)},
  delivered <- {r \in Requests : Delivered(r)}

SellsForCredit == Promise!Spec

\* A booking is billed, or reported as unsettled, only for a pod that exists;
\* and a pod nobody was told about comes only from a lost answer, a crash or a
\* failed transaction (book.ts:106-135).
PodsAccountedFor ==
  \A r \in Requests :
    /\ (Route(r) = "book" /\ Billed(r)) \/ reply[r] = "unsettled" =>
         vendor[r] = "created"
    /\ vendor[r] = "created" /\ phase[r] = "done" =>
         reply[r] \in {"booked", "unsettled", "vendor_declined",
                       "internal_error", "dropped", "dropped_charged"}

\* No key is without the account it spends from, wherever its creation was cut
\* short: what a cut leaves behind is an account without a key
\* (apiKeyStore.ts:67-77).
KeyHasAccount == \A k \in Keys : keys[k] # "none" => KeyAccount[k] \in accounts

\* Once a key is revoked no request is billed through it, except a booking that
\* was already at the vendor: its key is looked up before the await and never
\* again (book.ts:85-122).
RevokedKeySpendsNothingNew ==
  [][\A r \in Requests :
       Billed(r)' /\ ~Billed(r) /\ ~Known(r) => phase[r] = "waiting"]_vars

\* Every request that has been charged or dispatched comes to an end.
InFlightEnds == \A r \in Requests : InFlight(r) ~> phase[r] = "done"

\* book.ts:61-67 "The one real edge case this ordering can't fully close ...
\* Surfaced explicitly in that response": a pod the vendor created is paid for,
\* or its caller was given the warning.
UnpaidPodIsSurfaced ==
  \A r \in Requests :
    vendor[r] = "created" /\ phase[r] = "done" =>
      reply[r] \in {"booked", "unsettled", "dropped_charged"}
=============================================================================
