---------------------------- MODULE X402Payment ----------------------------
(***************************************************************************)
(* Paying for one request with USDC: verifyX402Payment, which both quote   *)
(* and rank call.  The handler awaits three remote answers in turn         *)
(*                                                                         *)
(*   verifying    PayAI's /verify                                          *)
(*   settling     PayAI's /settle, which broadcasts the transfer           *)
(*   confirming   the chain's receipt for the transaction PayAI named      *)
(*                                                                         *)
(* and other requests, a restart and the chain itself run in between.      *)
(* PayAI is not trusted: it may call any transaction the settlement of any *)
(* authorization, and may broadcast one whose settlement it reported as    *)
(* failed.  The chain is: it executes an authorization its payer signed    *)
(* at most once, inside its validity window.  A transaction is named by    *)
(* the authorization it executes.                                          *)
(***************************************************************************)
EXTENDS Integers

CONSTANTS
  Requests,
  Hash,          \* [Requests -> request hashes]
  Auths,         \* EIP-3009 authorizations, by nonce
  NoAuth,
  AuthBody,      \* [Auths -> [from, signer, to, value, validAfter, validBefore]]
  Treasury,
  Price,         \* routePriceUsdc, in atomic units
  ReceiptTTL,    \* RECEIPT_TTL_SECONDS
  MaxClock,      \* bound on the clock
  MaxCrashes     \* bound on crashes

ASSUME PaymentAssumption ==
  /\ NoAuth \notin Auths
  /\ Price \in Nat
  /\ ReceiptTTL \in Nat
  /\ MaxClock \in Nat
  /\ \A a \in Auths : /\ AuthBody[a].value \in Nat
                      /\ AuthBody[a].validAfter \in Nat
                      /\ AuthBody[a].validBefore \in Nat

VARIABLES
  clock,        \* Date.now(), never stepped back
  serverUp,
  phase,        \* new, verifying, settling, confirming, done
  reply,
  \* a handler's locals, reset when it ends; a request that was served keeps
  \* them, and the time, as history
  auth,         \* the authorization a request pays with
  start,        \* `now`, captured when a request arrives
  tx,           \* the transaction PayAI says settled it
  grantedAt,
  processed,    \* transactions in processed_payment_events
  receipts,     \* X-Payment-Receipt tokens signed so far
  submitted,    \* authorizations PayAI was asked to settle
  mined,        \* authorizations executed on chain
  crashes       \* crashes so far, bounded by MaxCrashes

handlerVars == <<phase, reply, auth, start, tx, grantedAt>>
chainVars == <<submitted, mined>>
vars == <<clock, serverUp, handlerVars, processed, receipts, chainVars, crashes>>

\* The error code of a refusal, or how the request ended.  A code of PayAI's own
\* is "not_settled"; the server's codes for its own checks of the authorization
\* are "invalid_authorization".
Replies == {"none", "payment_required", "invalid_authorization", "not_settled",
            "duplicate_settlement", "unexpected_verify_error",
            "invalid_transaction_state", "invalid_payload", "internal_error",
            "granted", "reused", "dropped"}

Init ==
  /\ clock = 0
  /\ serverUp = TRUE
  /\ phase = [r \in Requests |-> "new"]
  /\ reply = [r \in Requests |-> "none"]
  /\ auth = [r \in Requests |-> NoAuth]
  /\ start = [r \in Requests |-> 0]
  /\ tx = [r \in Requests |-> NoAuth]
  /\ grantedAt = [r \in Requests |-> 0]
  /\ processed = {}
  /\ receipts = {}
  /\ submitted = {}
  /\ mined = {}
  /\ crashes = 0

----------------------------------------------------------------------------
(* What the server can check by itself.                                    *)

\* recoverEip3009Signer finds the address the authorization claims to be from.
Signed(a) == AuthBody[a].signer = AuthBody[a].from

\* To the treasury, for at least the price.
PaysEnough(a) == AuthBody[a].to = Treasury /\ AuthBody[a].value >= Price

\* A bug that checks the validity window and not what is paid, and to whom.
InWindow(a, now) ==
  /\ AuthBody[a].validAfter <= now
  /\ now < AuthBody[a].validBefore

\* checkEip3009AuthorizationBounds
InBounds(a, now) ==
  /\ PaysEnough(a)
  /\ AuthBody[a].validAfter <= now
  /\ now < AuthBody[a].validBefore

Receipt(hash, issued) == [requestHash |-> hash, expiresAt |-> issued + ReceiptTTL]

----------------------------------------------------------------------------
(* The chain and the clock.                                                *)

Tick ==
  /\ clock < MaxClock
  /\ clock' = clock + 1
  /\ UNCHANGED <<serverUp, handlerVars, processed, receipts, chainVars, crashes>>

\* transferWithAuthorization: whoever holds the signed authorization, the payer
\* included, broadcasts it at a time of its choosing.
Mine(a) ==
  /\ a \notin mined
  /\ Signed(a)
  /\ AuthBody[a].validAfter < clock
  /\ clock < AuthBody[a].validBefore
  /\ mined' = mined \cup {a}
  /\ UNCHANGED <<clock, serverUp, handlerVars, processed, receipts, submitted, crashes>>

----------------------------------------------------------------------------
(* verifyX402Payment.                                                      *)

At(r, where) == serverUp /\ phase[r] = where

\* The handler stops at its next await.
Await(r, where) ==
  /\ phase' = [phase EXCEPT ![r] = where]
  /\ UNCHANGED <<clock, serverUp, reply, grantedAt, crashes>>

Finish(r, answer) ==
  /\ phase' = [phase EXCEPT ![r] = "done"]
  /\ reply' = [reply EXCEPT ![r] = answer]
  /\ UNCHANGED <<clock, serverUp, crashes>>

\* The request ends unserved.
Refuse(r, answer) ==
  /\ Finish(r, answer)
  /\ auth' = [auth EXCEPT ![r] = NoAuth]
  /\ start' = [start EXCEPT ![r] = 0]
  /\ tx' = [tx EXCEPT ![r] = NoAuth]
  /\ UNCHANGED <<grantedAt, processed, receipts, chainVars>>

\* A bug that checks what the receipt is for and not how old it is.
ReuseAnyReceipt(r) ==
  /\ At(r, "new")
  /\ \E rc \in receipts : rc.requestHash = Hash[r]
  /\ start' = [start EXCEPT ![r] = clock]
  /\ Finish(r, "reused")
  /\ UNCHANGED <<auth, tx, grantedAt, processed, receipts, chainVars>>

\* A signed, unexpired receipt for the same request is enough, again and again.
ReuseReceipt(r) ==
  /\ At(r, "new")
  /\ \E rc \in receipts : rc.requestHash = Hash[r] /\ clock <= rc.expiresAt
  /\ start' = [start EXCEPT ![r] = clock]
  /\ Finish(r, "reused")
  /\ UNCHANGED <<auth, tx, grantedAt, processed, receipts, chainVars>>

\* No usable receipt and no payment: the 402 challenge.
AskPayment(r) == At(r, "new") /\ Refuse(r, "payment_required")

\* A payment the server's own checks turn down.
RefuseAuth(r) ==
  /\ At(r, "new")
  /\ \E a \in Auths : ~(Signed(a) /\ InBounds(a, clock))
  /\ Refuse(r, "invalid_authorization")

AskVerify(r) ==
  /\ At(r, "new")
  /\ \E a \in Auths :
       /\ Signed(a) /\ InBounds(a, clock)
       /\ auth' = [auth EXCEPT ![r] = a]
  /\ start' = [start EXCEPT ![r] = clock]
  /\ Await(r, "verifying")
  /\ UNCHANGED <<tx, processed, receipts, chainVars>>

AskSettle(r) ==
  /\ At(r, "verifying")
  /\ submitted' = submitted \cup {auth[r]}
  /\ Await(r, "settling")
  /\ UNCHANGED <<auth, start, tx, processed, receipts, mined>>

\* PayAI says no, is out of reach, does not answer, or answers in a shape the
\* server does not accept.
RemoteFails(r) ==
  /\ \E where \in {"verifying", "settling"} : At(r, where)
  /\ Refuse(r, "not_settled")

\* A bug that takes any settlement for a new one.
SettledUnchecked(r) ==
  /\ At(r, "settling")
  /\ \E t \in Auths : tx' = [tx EXCEPT ![r] = t]
  /\ Await(r, "confirming")
  /\ UNCHANGED <<auth, start, processed, receipts, chainVars>>

\* PayAI says t settled it, and t has not been used here before.
Settled(r) ==
  /\ At(r, "settling")
  /\ \E t \in Auths \ processed : tx' = [tx EXCEPT ![r] = t]
  /\ Await(r, "confirming")
  /\ UNCHANGED <<auth, start, processed, receipts, chainVars>>

\* duplicate_settlement
RefuseDuplicate(r) ==
  /\ At(r, "settling")
  /\ processed # {}
  /\ Refuse(r, "duplicate_settlement")

\* A bug that waits until the chain knows the transaction.
UnconfirmedOnceMined(r) ==
  /\ At(r, "confirming")
  /\ tx[r] \in mined
  /\ \E code \in {"unexpected_verify_error", "invalid_transaction_state"} :
       Refuse(r, code)

\* The chain cannot be read, or the node asked does not know the transaction, or
\* not yet, or saw it revert.  It is asked once.
Unconfirmed(r) ==
  /\ At(r, "confirming")
  /\ \E code \in {"unexpected_verify_error", "invalid_transaction_state"} :
       Refuse(r, code)

\* A bug that trusts PayAI's word that the transaction was executed.
ConfirmsUnmined(t, a) ==
  /\ AuthBody[t].from = AuthBody[a].from
  /\ PaysEnough(t)

\* A bug that asks for the price to the unit, where the authorization may be
\* for more.
ConfirmsExactly(t, a) ==
  /\ t \in mined
  /\ AuthBody[t].from = AuthBody[a].from
  /\ AuthBody[t].to = Treasury
  /\ AuthBody[t].value = Price

\* verifyOnChainUsdcTransfer: t moved enough from this payer to the treasury.
Confirms(t, a) ==
  /\ t \in mined
  /\ AuthBody[t].from = AuthBody[a].from
  /\ PaysEnough(t)

\* The transaction was executed and is not a payment for this request.
Mismatch(r) ==
  /\ At(r, "confirming")
  /\ tx[r] \in mined
  /\ ~Confirms(tx[r], auth[r])
  /\ Refuse(r, "invalid_payload")

\* A bug that binds the receipt to the payment instead of the request.
GrantForPayment(r) ==
  /\ At(r, "confirming")
  /\ Confirms(tx[r], auth[r])
  /\ processed' = processed \cup {tx[r]}
  /\ receipts' = receipts \cup {Receipt(auth[r], start[r])}
  /\ grantedAt' = [grantedAt EXCEPT ![r] = clock]
  /\ Finish(r, "granted")
  /\ UNCHANGED <<auth, start, tx, chainVars>>

\* A bug that dates the receipt from the end of the settlement.
GrantFromNow(r) ==
  /\ At(r, "confirming")
  /\ Confirms(tx[r], auth[r])
  /\ processed' = processed \cup {tx[r]}
  /\ receipts' = receipts \cup {Receipt(Hash[r], clock)}
  /\ grantedAt' = [grantedAt EXCEPT ![r] = clock]
  /\ Finish(r, "granted")
  /\ UNCHANGED <<auth, start, tx, chainVars>>

\* What recordIfNew returns is not looked at.
Grant(r) ==
  /\ At(r, "confirming")
  /\ Confirms(tx[r], auth[r])
  /\ processed' = processed \cup {tx[r]}
  /\ receipts' = receipts \cup {Receipt(Hash[r], start[r])}
  /\ grantedAt' = [grantedAt EXCEPT ![r] = clock]
  /\ Finish(r, "granted")
  /\ UNCHANGED <<auth, start, tx, chainVars>>

\* recordIfNew throws (disk full, I/O error): Fastify answers 500.
RecordThrows(r) ==
  /\ At(r, "confirming")
  /\ Confirms(tx[r], auth[r])
  /\ Refuse(r, "internal_error")

Handler(r) ==
  \/ ReuseReceipt(r) \/ AskPayment(r) \/ RefuseAuth(r) \/ AskVerify(r)
  \/ AskSettle(r) \/ RemoteFails(r)
  \/ Settled(r) \/ RefuseDuplicate(r)
  \/ Unconfirmed(r) \/ Mismatch(r) \/ Grant(r) \/ RecordThrows(r)

----------------------------------------------------------------------------
InFlight(r) == phase[r] \in {"verifying", "settling", "confirming"}

\* Requests in flight end with the process; table and receipts do not.
Die ==
  /\ serverUp
  /\ crashes < MaxCrashes
  /\ crashes' = crashes + 1
  /\ serverUp' = FALSE
  /\ LET Dropped(f, x) == [r \in Requests |-> IF InFlight(r) THEN x ELSE f[r]]
     IN  /\ phase' = Dropped(phase, "done")
         /\ reply' = Dropped(reply, "dropped")
         /\ auth' = Dropped(auth, NoAuth)
         /\ start' = Dropped(start, 0)
         /\ tx' = Dropped(tx, NoAuth)
  /\ UNCHANGED <<clock, grantedAt, receipts, chainVars>>

Crash == Die /\ UNCHANGED processed

\* recordIfNew has committed and the answer has not been sent: the transaction is
\* used up, and neither the answer nor the receipt has got to anybody.
CrashAfterRecord(r) ==
  /\ At(r, "confirming")
  /\ Confirms(tx[r], auth[r])
  /\ processed' = processed \cup {tx[r]}
  /\ Die

Restart ==
  /\ ~serverUp
  /\ serverUp' = TRUE
  /\ UNCHANGED <<clock, handlerVars, processed, receipts, chainVars, crashes>>

Next ==
  \/ Tick
  \/ \E a \in Auths : Mine(a)
  \/ \E r \in Requests : Handler(r) \/ CrashAfterRecord(r)
  \/ Crash
  \/ Restart

Spec == Init /\ [][Next]_vars

\* fetch, or the chain reader, ends a call that is never answered.
CallEnds(r) == RemoteFails(r) \/ Unconfirmed(r)

\* The process is restarted, and every remote call ends.
Fairness == WF_vars(Restart) /\ \A r \in Requests : WF_vars(CallEnds(r))

FairSpec == Spec /\ Fairness

----------------------------------------------------------------------------
(* Properties.                                                             *)

TypeOK ==
  /\ clock \in 0 .. MaxClock
  /\ serverUp \in BOOLEAN
  /\ phase \in [Requests -> {"new", "verifying", "settling", "confirming", "done"}]
  /\ reply \in [Requests -> Replies]
  /\ auth \in [Requests -> Auths \cup {NoAuth}]
  /\ start \in [Requests -> Nat]
  /\ tx \in [Requests -> Auths \cup {NoAuth}]
  /\ grantedAt \in [Requests -> Nat]
  /\ processed \subseteq Auths
  /\ receipts \subseteq [requestHash : {Hash[r] : r \in Requests}, expiresAt : Nat]
  /\ submitted \subseteq Auths
  /\ mined \subseteq Auths
  /\ crashes \in Nat

\* Nothing is granted on PayAI's word: behind every grant is a transfer the
\* chain executed, from the payer who signed for the request, to the treasury,
\* of at least the price; and it is on record (auth.ts:194-202).
GrantIsPaid ==
  \A r \in Requests :
    reply[r] = "granted" =>
      /\ tx[r] \in mined \cap processed
      /\ PaysEnough(tx[r])
      /\ AuthBody[tx[r]].from = AuthBody[auth[r]].signer

\* The server never has money moved that it would then refuse to accept: the
\* bounds are checked before PayAI is asked to settle (auth.ts:147-179).
OnlyAcceptableMoneyMoves == \A a \in submitted : Signed(a) /\ PaysEnough(a)

\* One transaction is granted to two requests only when they overlapped: a
\* request that arrives after a grant cannot use its transaction again, not
\* even after a restart (auth.ts:186-192).
DoubleGrantNeedsOverlap ==
  \A r, s \in Requests :
    (reply[r] = "granted" /\ reply[s] = "granted" /\ tx[r] = tx[s])
      => start[r] <= grantedAt[s]

\* A receipt buys the same request again, and only within the TTL of the
\* request that paid: a caller without payment is served only for a hash
\* somebody paid for at most ReceiptTTL before (auth.ts:114-123).
ReuseWasPaid ==
  \A r \in Requests :
    reply[r] = "reused" =>
      \E p \in Requests : /\ reply[p] = "granted"
                          /\ Hash[p] = Hash[r]
                          /\ start[r] <= start[p] + ReceiptTTL

\* A payer whose own transfer PayAI reports and the chain executed is never told
\* that it paid wrongly: what the bounds let through before the money moved the
\* receipt's check lets through after it, and what is left are failures to look
\* (baseVerification.ts:114-127, 195-221; auth.ts:148, 196).
ExecutedTransferIsAccepted ==
  [][\A r \in Requests :
       (phase[r] = "confirming" /\ tx[r] = auth[r] /\ phase[r]' = "done")
         => reply[r]' # "invalid_payload"]_vars

\* Whatever PayAI, the chain and the host do, a request is answered.
EveryRequestEnds == \A r \in Requests : InFlight(r) ~> phase[r] = "done"

\* PaidAccess, with purchases and repeats read off the answers.
Purchase(r) == [request |-> r, transfer |-> tx[r],
                arrived |-> start[r], at |-> grantedAt[r]]

Access == INSTANCE PaidAccess WITH
  Wants <- Hash,
  Transfers <- {a \in Auths : Signed(a)},
  Acceptable <- {a \in Auths : PaysEnough(a)},
  now <- clock,
  executed <- mined,
  purchases <- {Purchase(r) : r \in {q \in Requests : reply[q] = "granted"}},
  repeated <- {r \in Requests : reply[r] = "reused"}

\* With its remote calls, its table, its receipts and its crashes the rail does
\* nothing but sell requests for transfers and repeat what was bought
\* (auth.ts:105-212).
SellsForTransfers == Access!Spec

\* auth.ts:186-188 "this exact settled transaction hasn't already been used to
\* grant a DIFFERENT request on our side".
OneGrantPerTransaction ==
  \A r, s \in Requests :
    (r # s /\ reply[r] = "granted" /\ reply[s] = "granted") => tx[r] # tx[s]
=============================================================================
