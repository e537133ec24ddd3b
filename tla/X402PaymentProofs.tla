------------------------- MODULE X402PaymentProofs -------------------------
(***************************************************************************)
(* Every grant is paid on chain, only acceptable money moves, replay needs *)
(* an overlap and a receipt a payment: for any requests, authorizations,   *)
(* prices, times and crashes.                                              *)
(***************************************************************************)
EXTENDS X402Payment, TLAPS

\* A request's locals while it is in flight, and what is left of them after.
LocalsInv ==
  \A r \in Requests :
    /\ start[r] <= clock
    /\ phase[r] # "done" => reply[r] = "none"
    /\ InFlight(r) \/ reply[r] = "granted" =>
         /\ auth[r] \in Auths
         /\ Signed(auth[r])
         /\ PaysEnough(auth[r])

\* DoubleGrantNeedsOverlap from the moment a transaction is found unused.
OverlapInv ==
  \A r, s \in Requests :
    (/\ phase[r] = "confirming" \/ reply[r] = "granted"
     /\ reply[s] = "granted"
     /\ tx[r] = tx[s])
      => start[r] <= grantedAt[s]

\* Every receipt was signed for a request that was granted.
ReceiptInv ==
  \A rc \in receipts :
    \E p \in Requests : /\ reply[p] = "granted"
                        /\ Hash[p] = rc.requestHash
                        /\ start[p] + ReceiptTTL = rc.expiresAt

IInv ==
  /\ TypeOK
  /\ LocalsInv
  /\ GrantIsPaid
  /\ OnlyAcceptableMoneyMoves
  /\ OverlapInv
  /\ ReceiptInv
  /\ ReuseWasPaid

----------------------------------------------------------------------------
(* What a step of a request's handler leaves alone.                        *)

LEMMA HandlerFrame ==
  ASSUME TypeOK, NEW r \in Requests, Handler(r)
  PROVE  /\ phase[r] # "done"
         /\ UNCHANGED <<clock, serverUp, mined, crashes>>
         /\ processed \subseteq processed'
         /\ \A s \in Requests \ {r} :
              /\ phase'[s] = phase[s]
              /\ reply'[s] = reply[s]
              /\ auth'[s] = auth[s]
              /\ start'[s] = start[s]
              /\ tx'[s] = tx[s]
              /\ grantedAt'[s] = grantedAt[s]
<1> USE DEF TypeOK, At
<1>1. CASE \E answer \in Replies : Refuse(r, answer) /\ phase[r] # "done"
  BY <1>1 DEF Refuse, Finish, chainVars
<1>2. CASE AskPayment(r) \/ RefuseAuth(r) \/ RemoteFails(r)
           \/ RefuseDuplicate(r) \/ Unconfirmed(r) \/ Mismatch(r)
           \/ RecordThrows(r)
  BY <1>2, <1>1 DEF AskPayment, RefuseAuth, RemoteFails, RefuseDuplicate,
                    Unconfirmed, Mismatch, RecordThrows, Replies
<1>3. CASE ReuseReceipt(r)
  BY <1>3 DEF ReuseReceipt, Finish, chainVars
<1>4. CASE AskVerify(r)
  BY <1>4 DEF AskVerify, Await, chainVars
<1>5. CASE AskSettle(r)
  BY <1>5 DEF AskSettle, Await
<1>6. CASE Settled(r)
  BY <1>6 DEF Settled, Await, chainVars
<1>7. CASE Grant(r)
  BY <1>7 DEF Grant, Finish, chainVars
<1>8. QED
  BY <1>2, <1>3, <1>4, <1>5, <1>6, <1>7 DEF Handler

----------------------------------------------------------------------------
(* One lemma for each way a handler can go on.                             *)

\* An unserved request leaves no trace but its answer.
LEMMA RefuseKeepsIInv ==
  ASSUME IInv, NEW r \in Requests,
         NEW answer \in Replies \ {"granted", "reused"},
         Handler(r), Refuse(r, answer)
  PROVE  IInv'
<1>1. TypeOK
  BY DEF IInv
<1>2. /\ phase'[r] = "done" /\ reply'[r] = answer /\ start'[r] = 0
      /\ UNCHANGED <<clock, mined, submitted, processed, receipts>>
      /\ reply[r] = "none"
  BY <1>1, HandlerFrame DEF TypeOK, Refuse, Finish, chainVars, IInv, LocalsInv
<1>3. TypeOK'
  BY <1>1 DEF TypeOK, Refuse, Finish, chainVars
<1>4. LocalsInv'
  BY <1>1, <1>2, HandlerFrame DEF IInv, LocalsInv, InFlight, TypeOK
<1>5. GrantIsPaid' /\ OnlyAcceptableMoneyMoves'
  BY <1>1, <1>2, HandlerFrame DEF IInv, GrantIsPaid, OnlyAcceptableMoneyMoves
<1>6. OverlapInv'
  BY <1>1, <1>2, HandlerFrame DEF IInv, OverlapInv
<1>7. ReceiptInv' /\ ReuseWasPaid'
  BY <1>1, <1>2, HandlerFrame DEF IInv, ReceiptInv, ReuseWasPaid
<1>8. QED
  BY <1>3, <1>4, <1>5, <1>6, <1>7 DEF IInv

\* A receipt that has not run out was signed for a request that was paid.
LEMMA ReuseKeepsIInv ==
  ASSUME IInv, NEW r \in Requests, Handler(r), ReuseReceipt(r)
  PROVE  IInv'
<1>1. TypeOK
  BY DEF IInv
<1>2. /\ phase'[r] = "done" /\ reply'[r] = "reused" /\ start'[r] = clock
      /\ UNCHANGED <<clock, mined, submitted, processed, receipts>>
      /\ reply[r] = "none"
  BY <1>1, HandlerFrame DEF TypeOK, ReuseReceipt, Finish, chainVars, IInv,
                            LocalsInv
<1>3. TypeOK'
  BY <1>1 DEF TypeOK, ReuseReceipt, Finish, chainVars, Replies
<1>4. LocalsInv'
  BY <1>1, <1>2, HandlerFrame DEF IInv, LocalsInv, InFlight, TypeOK
<1>5. GrantIsPaid' /\ OnlyAcceptableMoneyMoves'
  BY <1>1, <1>2, HandlerFrame DEF IInv, GrantIsPaid, OnlyAcceptableMoneyMoves
<1>6. OverlapInv'
  BY <1>1, <1>2, HandlerFrame DEF IInv, OverlapInv
<1>7. ReceiptInv'
  BY <1>1, <1>2, HandlerFrame DEF IInv, ReceiptInv
<1>8. ReuseWasPaid'
  <2>1. PICK rc \in receipts : rc.requestHash = Hash[r] /\ clock <= rc.expiresAt
    BY DEF ReuseReceipt
  <2>2. PICK p \in Requests : /\ reply[p] = "granted"
                              /\ Hash[p] = rc.requestHash
                              /\ start[p] + ReceiptTTL = rc.expiresAt
    BY <2>1 DEF IInv, ReceiptInv
  <2>3. p # r
    BY <1>2, <2>2
  <2>4. /\ reply'[p] = "granted" /\ Hash[p] = Hash[r]
        /\ start'[r] <= start'[p] + ReceiptTTL
    BY <1>1, <1>2, <2>1, <2>2, <2>3, HandlerFrame
  <2>5. QED
    BY <1>1, <1>2, <2>4, HandlerFrame DEF IInv, ReuseWasPaid
<1>9. QED
  BY <1>3, <1>4, <1>5, <1>6, <1>7, <1>8 DEF IInv

\* The server has checked what it asks PayAI to verify.
LEMMA VerifyKeepsIInv ==
  ASSUME IInv, NEW r \in Requests, Handler(r), AskVerify(r)
  PROVE  IInv'
<1>1. TypeOK
  BY DEF IInv
<1>2. /\ phase'[r] = "verifying" /\ reply'[r] = "none" /\ start'[r] = clock
      /\ auth'[r] \in Auths /\ Signed(auth'[r]) /\ PaysEnough(auth'[r])
      /\ UNCHANGED <<clock, mined, submitted, processed, receipts>>
      /\ reply[r] = "none"
  BY <1>1, HandlerFrame DEF TypeOK, AskVerify, At, Await, InBounds, chainVars,
                            IInv, LocalsInv
<1>3. TypeOK'
  BY <1>1 DEF TypeOK, AskVerify, Await, chainVars
<1>4. LocalsInv'
  BY <1>1, <1>2, HandlerFrame DEF IInv, LocalsInv, InFlight, TypeOK
<1>5. GrantIsPaid' /\ OnlyAcceptableMoneyMoves'
  BY <1>1, <1>2, HandlerFrame DEF IInv, GrantIsPaid, OnlyAcceptableMoneyMoves
<1>6. OverlapInv'
  BY <1>1, <1>2, HandlerFrame DEF IInv, OverlapInv
<1>7. ReceiptInv' /\ ReuseWasPaid'
  BY <1>1, <1>2, HandlerFrame DEF IInv, ReceiptInv, ReuseWasPaid
<1>8. QED
  BY <1>3, <1>4, <1>5, <1>6, <1>7 DEF IInv

LEMMA SettleKeepsIInv ==
  ASSUME IInv, NEW r \in Requests, Handler(r), AskSettle(r)
  PROVE  IInv'
<1>1. TypeOK
  BY DEF IInv
<1>2. /\ phase[r] = "verifying" /\ phase'[r] = "settling"
      /\ submitted' = submitted \cup {auth[r]}
      /\ UNCHANGED <<clock, mined, processed, receipts>>
      /\ UNCHANGED <<reply, auth, start, tx, grantedAt>>
      /\ reply[r] = "none"
  BY <1>1 DEF TypeOK, AskSettle, At, Await, IInv, LocalsInv
<1>3. auth[r] \in Auths /\ Signed(auth[r]) /\ PaysEnough(auth[r])
  BY <1>2 DEF IInv, LocalsInv, InFlight
<1>4. TypeOK'
  BY <1>1, <1>3 DEF TypeOK, AskSettle, Await
<1>5. LocalsInv'
  BY <1>1, <1>2, <1>3, HandlerFrame DEF IInv, LocalsInv, InFlight
<1>6. GrantIsPaid' /\ OnlyAcceptableMoneyMoves'
  BY <1>2, <1>3 DEF IInv, GrantIsPaid, OnlyAcceptableMoneyMoves
<1>7. OverlapInv'
  BY <1>1, <1>2, HandlerFrame DEF IInv, OverlapInv
<1>8. ReceiptInv' /\ ReuseWasPaid'
  BY <1>2 DEF IInv, ReceiptInv, ReuseWasPaid
<1>9. QED
  BY <1>4, <1>5, <1>6, <1>7, <1>8 DEF IInv

\* A transaction found unused was granted to nobody so far.
LEMMA SettledKeepsIInv ==
  ASSUME IInv, NEW r \in Requests, Handler(r), Settled(r)
  PROVE  IInv'
<1>1. TypeOK
  BY DEF IInv
<1>2. /\ phase[r] = "settling" /\ phase'[r] = "confirming"
      /\ tx'[r] \in Auths \ processed
      /\ UNCHANGED <<clock, mined, submitted, processed, receipts>>
      /\ UNCHANGED <<reply, auth, start, grantedAt>>
      /\ reply[r] = "none"
  BY <1>1 DEF TypeOK, Settled, At, Await, chainVars, IInv, LocalsInv
<1>3. TypeOK'
  BY <1>1 DEF TypeOK, Settled, Await, chainVars
<1>4. LocalsInv'
  BY <1>1, <1>2, HandlerFrame DEF IInv, LocalsInv, InFlight
<1>5. GrantIsPaid' /\ OnlyAcceptableMoneyMoves'
  BY <1>1, <1>2, HandlerFrame DEF IInv, GrantIsPaid, OnlyAcceptableMoneyMoves
<1>6. OverlapInv'
  <2> SUFFICES ASSUME NEW q \in Requests, NEW s \in Requests,
                      phase'[q] = "confirming" \/ reply'[q] = "granted",
                      reply'[s] = "granted",
                      tx'[q] = tx'[s]
               PROVE  start'[q] <= grantedAt'[s]
    BY DEF OverlapInv
  <2>1. s # r /\ tx'[s] \in processed
    BY <1>1, <1>2, HandlerFrame DEF IInv, GrantIsPaid
  <2>2. q # r
    BY <1>2, <2>1
  <2>3. QED
    BY <1>1, <1>2, <2>1, <2>2, HandlerFrame DEF IInv, OverlapInv
<1>7. ReceiptInv' /\ ReuseWasPaid'
  BY <1>2 DEF IInv, ReceiptInv, ReuseWasPaid
<1>8. QED
  BY <1>3, <1>4, <1>5, <1>6, <1>7 DEF IInv

\* The grant comes after the start of every request, and signs its receipt.
LEMMA GrantKeepsIInv ==
  ASSUME IInv, NEW r \in Requests, Handler(r), Grant(r)
  PROVE  IInv'
<1>1. TypeOK
  BY DEF IInv
<1>2. /\ phase[r] = "confirming" /\ phase'[r] = "done" /\ reply'[r] = "granted"
      /\ grantedAt'[r] = clock
      /\ processed' = processed \cup {tx[r]}
      /\ receipts' = receipts \cup {Receipt(Hash[r], start[r])}
      /\ UNCHANGED <<clock, mined, submitted, auth, start, tx>>
      /\ reply[r] = "none"
  BY <1>1 DEF TypeOK, Grant, At, Finish, chainVars, IInv, LocalsInv
<1>3. /\ auth[r] \in Auths /\ Signed(auth[r]) /\ PaysEnough(auth[r])
      /\ tx[r] \in mined /\ PaysEnough(tx[r])
      /\ AuthBody[tx[r]].from = AuthBody[auth[r]].from
  BY <1>2 DEF IInv, LocalsInv, InFlight, Grant, Confirms
<1>4. TypeOK'
  <2>1. Receipt(Hash[r], start[r])
          \in [requestHash : {Hash[q] : q \in Requests}, expiresAt : Nat]
    BY <1>1, PaymentAssumption DEF TypeOK, Receipt
  <2>2. /\ reply' \in [Requests -> Replies] /\ grantedAt' \in [Requests -> Nat]
        /\ phase' \in [Requests -> {"new", "verifying", "settling",
                                    "confirming", "done"}]
    BY <1>1, PaymentAssumption DEF TypeOK, Grant, Finish, Replies
  <2>3. UNCHANGED <<serverUp, crashes>>
    BY DEF Grant, Finish
  <2>4. QED
    BY <1>1, <1>2, <1>3, <2>1, <2>2, <2>3 DEF TypeOK
<1>5. LocalsInv'
  BY <1>1, <1>2, <1>3, HandlerFrame DEF IInv, LocalsInv, InFlight
<1>6. GrantIsPaid'
  BY <1>1, <1>2, <1>3, HandlerFrame DEF IInv, GrantIsPaid, Signed
<1>7. OnlyAcceptableMoneyMoves'
  BY <1>2 DEF IInv, OnlyAcceptableMoneyMoves
<1>8. OverlapInv'
  <2> SUFFICES ASSUME NEW q \in Requests, NEW s \in Requests,
                      phase'[q] = "confirming" \/ reply'[q] = "granted",
                      reply'[s] = "granted",
                      tx'[q] = tx'[s]
               PROVE  start'[q] <= grantedAt'[s]
    BY DEF OverlapInv
  <2>1. CASE s = r
    BY <1>2, <2>1 DEF IInv, LocalsInv
  <2>2. CASE s # r
    BY <1>1, <1>2, <2>2, HandlerFrame DEF IInv, OverlapInv
  <2>3. QED
    BY <2>1, <2>2
<1>9. ReceiptInv'
  BY <1>1, <1>2, HandlerFrame DEF IInv, ReceiptInv, Receipt
<1>10. ReuseWasPaid'
  BY <1>1, <1>2, HandlerFrame DEF IInv, ReuseWasPaid
<1>11. QED
  BY <1>4, <1>5, <1>6, <1>7, <1>8, <1>9, <1>10 DEF IInv

LEMMA HandlerKeepsIInv ==
  ASSUME IInv, NEW r \in Requests, Handler(r)
  PROVE  IInv'
<1>1. CASE AskPayment(r) \/ RefuseAuth(r) \/ RemoteFails(r)
           \/ RefuseDuplicate(r)
  BY <1>1, RefuseKeepsIInv DEF AskPayment, RefuseAuth, RemoteFails,
                               RefuseDuplicate, Replies
<1>2. CASE Unconfirmed(r) \/ Mismatch(r) \/ RecordThrows(r)
  BY <1>2, RefuseKeepsIInv DEF Unconfirmed, Mismatch, RecordThrows, Replies
<1>3. QED
  BY <1>1, <1>2, ReuseKeepsIInv, VerifyKeepsIInv, SettleKeepsIInv,
     SettledKeepsIInv, GrantKeepsIInv DEF Handler

----------------------------------------------------------------------------
(* The rest of the world.                                                  *)

LEMMA TickKeepsIInv ==
  ASSUME IInv, Tick
  PROVE  IInv'
<1>1. TypeOK'
  BY PaymentAssumption DEF IInv, TypeOK, Tick, handlerVars, chainVars
<1>2. LocalsInv'
  BY DEF IInv, TypeOK, LocalsInv, InFlight, Tick, handlerVars
<1>3. QED
  BY <1>1, <1>2 DEF IInv, GrantIsPaid, OnlyAcceptableMoneyMoves, OverlapInv,
                    ReceiptInv, ReuseWasPaid, Tick, handlerVars, chainVars

LEMMA MineKeepsIInv ==
  ASSUME IInv, NEW a \in Auths, Mine(a)
  PROVE  IInv'
<1>1. TypeOK'
  BY DEF IInv, TypeOK, Mine, handlerVars
<1>2. QED
  BY <1>1 DEF IInv, LocalsInv, InFlight, GrantIsPaid, OnlyAcceptableMoneyMoves,
              OverlapInv, ReceiptInv, ReuseWasPaid, Mine, handlerVars

Crashes == Crash \/ \E r \in Requests : CrashAfterRecord(r)

\* What a crash may still write is a transaction the chain has executed.
LEMMA CrashStep ==
  ASSUME TypeOK, Crashes
  PROVE  /\ Die
         /\ processed \subseteq processed' /\ processed' \subseteq Auths
<1>1. CASE Crash
  BY <1>1 DEF Crash, TypeOK
<1>2. ASSUME NEW r \in Requests, CrashAfterRecord(r)
      PROVE  Die /\ processed \subseteq processed' /\ processed' \subseteq Auths
  BY <1>2 DEF CrashAfterRecord, Confirms, TypeOK
<1>3. QED
  BY <1>1, <1>2 DEF Crashes

\* A crash takes the requests in flight and nothing that was granted.
LEMMA CrashKeepsIInv ==
  ASSUME IInv, Crashes
  PROVE  IInv'
<1>1. TypeOK
  BY DEF IInv
<1> Die /\ processed \subseteq processed' /\ processed' \subseteq Auths
  BY <1>1, CrashStep
<1>2. /\ UNCHANGED <<clock, grantedAt, receipts, submitted, mined>>
      /\ \A r \in Requests :
           IF InFlight(r)
             THEN phase'[r] = "done" /\ reply'[r] = "dropped" /\ start'[r] = 0
             ELSE /\ phase'[r] = phase[r] /\ reply'[r] = reply[r]
                  /\ auth'[r] = auth[r] /\ start'[r] = start[r]
                  /\ tx'[r] = tx[r]
  BY DEF Die, chainVars
<1>3. \A r \in Requests : reply[r] \in {"granted", "reused"} => ~InFlight(r)
  BY DEF IInv, LocalsInv, InFlight
<1>4. TypeOK'
  <2>1. crashes' \in Nat
    BY <1>1 DEF TypeOK, Die
  <2>2. /\ phase' \in [Requests -> {"new", "verifying", "settling",
                                    "confirming", "done"}]
        /\ reply' \in [Requests -> Replies]
    BY <1>1 DEF TypeOK, Die, Replies
  <2>3. /\ auth' \in [Requests -> Auths \cup {NoAuth}]
        /\ start' \in [Requests -> Nat]
        /\ tx' \in [Requests -> Auths \cup {NoAuth}]
    BY <1>1 DEF TypeOK, Die
  <2>4. serverUp' \in BOOLEAN
    BY DEF Die
  <2>5. QED
    BY <1>1, <1>2, <2>1, <2>2, <2>3, <2>4 DEF TypeOK
<1>5. LocalsInv'
  BY <1>1, <1>2 DEF IInv, LocalsInv, InFlight, TypeOK
<1>6. GrantIsPaid' /\ OnlyAcceptableMoneyMoves'
  BY <1>2 DEF IInv, GrantIsPaid, OnlyAcceptableMoneyMoves
<1>7. OverlapInv'
  BY <1>2 DEF IInv, OverlapInv
<1>8. ReceiptInv' /\ ReuseWasPaid'
  BY <1>2, <1>3 DEF IInv, ReceiptInv, ReuseWasPaid
<1>9. QED
  BY <1>4, <1>5, <1>6, <1>7, <1>8 DEF IInv

LEMMA StutterKeepsIInv ==
  ASSUME IInv, Restart \/ UNCHANGED vars
  PROVE  IInv'
<1>1. UNCHANGED <<clock, handlerVars, processed, receipts, chainVars, crashes>>
      /\ serverUp' \in BOOLEAN
  BY DEF IInv, TypeOK, Restart, vars
<1>2. TypeOK'
  BY <1>1 DEF IInv, TypeOK, handlerVars, chainVars
<1>3. QED
  BY <1>1, <1>2 DEF IInv, LocalsInv, InFlight, GrantIsPaid, OverlapInv,
                    OnlyAcceptableMoneyMoves, ReceiptInv, ReuseWasPaid,
                    handlerVars, chainVars

----------------------------------------------------------------------------
LEMMA X402InitIInv == Init => IInv
  BY PaymentAssumption
     DEF Init, IInv, TypeOK, Replies, LocalsInv, InFlight, GrantIsPaid,
         OnlyAcceptableMoneyMoves, OverlapInv, ReceiptInv, ReuseWasPaid

LEMMA X402IInv == Spec => []IInv
<1>1. IInv /\ [Next]_vars => IInv'
  BY HandlerKeepsIInv, TickKeepsIInv, MineKeepsIInv, CrashKeepsIInv,
     StutterKeepsIInv DEF Next, Crashes
<1>2. QED
  BY X402InitIInv, <1>1, PTL DEF Spec

\* The state of the x402 rail keeps its types.
THEOREM X402TypeOK == Spec => []TypeOK
  BY X402IInv, PTL DEF IInv

\* Behind every grant is a transfer the chain executed, from the payer who signed
\* for the request, to the treasury, of at least the price (auth.ts:194-202).
THEOREM X402GrantIsPaid == Spec => []GrantIsPaid
  BY X402IInv, PTL DEF IInv

\* PayAI is never asked to settle what the server would not accept
\* (auth.ts:147-179).
THEOREM X402OnlyAcceptableMoneyMoves == Spec => []OnlyAcceptableMoneyMoves
  BY X402IInv, PTL DEF IInv

\* One transaction is granted to two requests only when they overlapped
\* (auth.ts:186-192).
THEOREM X402DoubleGrantNeedsOverlap == Spec => []DoubleGrantNeedsOverlap
<1>1. IInv => DoubleGrantNeedsOverlap
  BY DEF IInv, OverlapInv, DoubleGrantNeedsOverlap
<1>2. QED
  BY X402IInv, <1>1, PTL

\* A receipt buys only what somebody paid for at most ReceiptTTL before
\* (auth.ts:114-123).
THEOREM X402ReuseWasPaid == Spec => []ReuseWasPaid
  BY X402IInv, PTL DEF IInv

\* A payer whose own transfer was executed is never told that it paid wrongly
\* (baseVerification.ts:114-127, 195-221).
THEOREM X402ExecutedTransferIsAccepted == Spec => ExecutedTransferIsAccepted
<1>1. ASSUME IInv, [Next]_vars, NEW r \in Requests,
             phase[r] = "confirming", tx[r] = auth[r], phase'[r] = "done"
      PROVE  reply'[r] # "invalid_payload"
  <2>1. TypeOK /\ reply[r] = "none" /\ PaysEnough(auth[r]) /\ InFlight(r)
    BY <1>1 DEF IInv, LocalsInv, InFlight
  <2>2. CASE Handler(r)
    <3>1. ~Mismatch(r)
      BY <1>1, <2>1 DEF Mismatch, Confirms
    <3>2. CASE Unconfirmed(r)
      BY <2>1, <3>2 DEF Unconfirmed, Refuse, Finish, TypeOK
    <3>3. CASE Grant(r)
      BY <2>1, <3>3 DEF Grant, Finish, TypeOK
    <3>4. CASE RecordThrows(r)
      BY <2>1, <3>4 DEF RecordThrows, Refuse, Finish, TypeOK
    <3>5. Unconfirmed(r) \/ Mismatch(r) \/ Grant(r) \/ RecordThrows(r)
      BY <1>1, <2>2 DEF Handler, At, ReuseReceipt, AskPayment, RefuseAuth,
                        AskVerify, AskSettle, RemoteFails, Settled,
                        RefuseDuplicate
    <3>6. QED
      BY <3>1, <3>2, <3>3, <3>4, <3>5
  <2>3. CASE \E s \in Requests \ {r} : Handler(s)
    BY <1>1, <2>1, <2>3, HandlerFrame
  <2>4. CASE Crashes
    BY <2>1, <2>4, CrashStep DEF Die
  <2>5. CASE \/ Tick \/ Restart \/ UNCHANGED vars
             \/ \E a \in Auths : Mine(a)
    BY <1>1, <2>1, <2>5 DEF Tick, Restart, Mine, vars, handlerVars
  <2>6. QED
    BY <1>1, <2>2, <2>3, <2>4, <2>5 DEF Next, Crashes
<1>2. IInv /\ [Next]_vars =>
        [\A r \in Requests :
           (phase[r] = "confirming" /\ tx[r] = auth[r] /\ phase[r]' = "done")
             => reply[r]' # "invalid_payload"]_vars
  BY <1>1
<1>3. QED
  BY <1>2, X402IInv, PTL DEF Spec, ExecutedTransferIsAccepted

----------------------------------------------------------------------------
(* The rail implements PaidAccess.                                         *)

Purchases == {Purchase(r) : r \in {q \in Requests : reply[q] = "granted"}}
Repeated == {r \in Requests : reply[r] = "reused"}

\* What was sold is a history no later step touches.
LEMMA SoldStays ==
  ASSUME TypeOK, TypeOK',
         \A r \in Requests :
           /\ reply'[r] \in {"granted", "reused"} <=> reply[r] \in {"granted", "reused"}
           /\ reply[r] \in {"granted", "reused"} =>
                /\ reply'[r] = reply[r] /\ tx'[r] = tx[r]
                /\ start'[r] = start[r] /\ grantedAt'[r] = grantedAt[r]
  PROVE  UNCHANGED <<Purchases, Repeated>>
<1>1. \A r \in Requests : reply'[r] = "granted" <=> reply[r] = "granted"
  OBVIOUS
<1>2. \A r \in Requests : reply'[r] = "reused" <=> reply[r] = "reused"
  OBVIOUS
<1>3. \A r \in Requests : reply[r] = "granted" => Purchase(r)' = Purchase(r)
  BY DEF Purchase
<1>4. QED
  BY <1>1, <1>2, <1>3 DEF Purchases, Repeated

\* Nobody is sold to twice.
LEMMA UnservedIsUnsold ==
  ASSUME NEW r \in Requests, reply[r] = "none"
  PROVE  ~Access!Served(r)
  BY DEF Access!Served, Purchase

\* A step of a handler that serves nobody is none of the abstract machine.
LEMMA UnservedStepStutters ==
  ASSUME IInv, IInv', NEW r \in Requests, Handler(r),
         reply'[r] \notin {"granted", "reused"}
  PROVE  UNCHANGED <<clock, mined, Purchases, Repeated>>
<1>1. TypeOK /\ TypeOK' /\ reply[r] = "none"
  BY HandlerFrame DEF IInv, LocalsInv
<1>2. QED
  BY <1>1, HandlerFrame, SoldStays

LEMMA GrantBuys ==
  ASSUME IInv, IInv', NEW r \in Requests, Handler(r), Grant(r)
  PROVE  Access!Buy(r, tx[r], start[r])
<1>1. /\ TypeOK /\ TypeOK' /\ reply[r] = "none" /\ start[r] \in 0 .. clock
      /\ phase[r] = "confirming"
  BY HandlerFrame DEF IInv, LocalsInv, TypeOK, Grant, At
<1>2. /\ reply'[r] = "granted" /\ grantedAt'[r] = clock
      /\ UNCHANGED <<clock, mined, start, tx>>
  BY <1>1 DEF TypeOK, Grant, Finish, chainVars
<1>3. tx[r] \in mined \cap {a \in Auths : PaysEnough(a)}
  BY <1>1 DEF TypeOK, Grant, Confirms
<1>4. \A p \in Purchases : p.transfer = tx[r] => start[r] <= p.at
  BY <1>1 DEF Purchases, Purchase, IInv, OverlapInv
<1>5. Purchases' = Purchases \cup {Purchase(r)'}
  <2>1. \A s \in Requests \ {r} : /\ reply'[s] = reply[s]
                                  /\ Purchase(s)' = Purchase(s)
    BY HandlerFrame, <1>1 DEF Purchase
  <2>2. reply'[r] = "granted" /\ reply[r] # "granted"
    BY <1>1, <1>2
  <2>3. QED
    BY <2>1, <2>2 DEF Purchases
<1>6. Repeated' = Repeated
  BY <1>1, <1>2, HandlerFrame DEF Repeated
<1>7. Purchase(r)' = [request |-> r, transfer |-> tx[r],
                      arrived |-> start[r], at |-> clock]
  BY <1>2 DEF Purchase
<1>8. QED
  BY <1>1, <1>2, <1>3, <1>4, <1>5, <1>6, <1>7, UnservedIsUnsold
     DEF Access!Buy, Purchases, Repeated

LEMMA ReuseRepeats ==
  ASSUME IInv, IInv', NEW r \in Requests, Handler(r), ReuseReceipt(r)
  PROVE  Access!Repeat(r)
<1>1. TypeOK /\ TypeOK' /\ reply[r] = "none"
  BY HandlerFrame DEF IInv, LocalsInv
<1>2. reply'[r] = "reused" /\ UNCHANGED <<clock, mined>>
  BY <1>1 DEF TypeOK, ReuseReceipt, Finish, chainVars
<1>3. \E p \in Purchases : /\ Hash[p.request] = Hash[r]
                           /\ clock <= p.arrived + ReceiptTTL
  <2>1. PICK rc \in receipts : rc.requestHash = Hash[r] /\ clock <= rc.expiresAt
    BY DEF ReuseReceipt
  <2>2. PICK q \in Requests : /\ reply[q] = "granted"
                              /\ Hash[q] = rc.requestHash
                              /\ start[q] + ReceiptTTL = rc.expiresAt
    BY <2>1 DEF IInv, ReceiptInv
  <2>3. Purchase(q) \in Purchases
    BY <2>2 DEF Purchases
  <2>4. QED
    BY <2>1, <2>2, <2>3 DEF Purchase
<1>4. Purchases' = Purchases
  <2>1. \A s \in Requests \ {r} : /\ reply'[s] = reply[s]
                                  /\ Purchase(s)' = Purchase(s)
    BY HandlerFrame, <1>1 DEF Purchase
  <2>2. QED
    BY <2>1, <1>1, <1>2 DEF Purchases
<1>5. Repeated' = Repeated \cup {r}
  BY <1>1, <1>2, HandlerFrame DEF Repeated
<1>6. QED
  BY <1>1, <1>2, <1>3, <1>4, <1>5, UnservedIsUnsold
     DEF Access!Repeat, Purchases, Repeated

\* The chain executes what its payer signed.
MinedInv == \A a \in mined : Signed(a)

LEMMA X402MinedInv == Spec => []MinedInv
<1>1. Init => MinedInv
  BY DEF Init, MinedInv
<1>2. IInv /\ MinedInv /\ [Next]_vars => MinedInv'
  <2> SUFFICES ASSUME IInv, MinedInv, [Next]_vars
               PROVE  MinedInv'
    OBVIOUS
  <2>1. ASSUME NEW r \in Requests, Handler(r)
        PROVE  MinedInv'
    BY <2>1, HandlerFrame DEF IInv, MinedInv
  <2>2. ASSUME NEW a \in Auths, Mine(a)
        PROVE  MinedInv'
    BY <2>2 DEF Mine, MinedInv
  <2>3. CASE Tick \/ Restart \/ UNCHANGED vars
    BY <2>3 DEF Tick, Restart, vars, chainVars, MinedInv
  <2>4. CASE Crashes
    BY <2>4, CrashStep DEF IInv, Die, chainVars, MinedInv
  <2>5. QED
    BY <2>1, <2>2, <2>3, <2>4 DEF Next, Crashes
<1>3. QED
  BY <1>1, <1>2, X402IInv, PTL DEF Spec

\* The x402 rail sells requests for executed transfers, repeats what was bought,
\* and does nothing else (auth.ts:105-212).
THEOREM X402Implements == Spec => SellsForTransfers
<1>1. Init => Access!Init
  BY DEF Init, Access!Init
<1>2. IInv /\ IInv' /\ MinedInv /\ [Next]_vars
        => [Access!Next]_<<clock, mined, Purchases, Repeated>>
  <2> SUFFICES ASSUME IInv, IInv', MinedInv, [Next]_vars
               PROVE  \/ Access!Next
                      \/ UNCHANGED <<clock, mined, Purchases, Repeated>>
    OBVIOUS
  <2> USE DEF Access!Next
  <2>1. ASSUME NEW r \in Requests, Handler(r)
        PROVE  \/ Access!Next
               \/ UNCHANGED <<clock, mined, Purchases, Repeated>>
    <3>1. CASE Grant(r)
      <4>1. tx[r] \in {a \in Auths : Signed(a)} /\ start[r] \in 0 .. clock
        BY <2>1, <3>1 DEF IInv, LocalsInv, TypeOK, MinedInv, Grant, Confirms
      <4>2. PICK t \in {a \in Auths : Signed(a)}, since \in 0 .. clock :
              t = tx[r] /\ since = start[r]
        BY <4>1
      <4>3. Access!Buy(r, t, since)
        BY <2>1, <3>1, <4>2, GrantBuys DEF Access!Buy, Access!Served
      <4>4. QED
        BY <4>3
    <3>2. CASE ReuseReceipt(r)
      BY <2>1, <3>2, ReuseRepeats
    <3>3. CASE ~Grant(r) /\ ~ReuseReceipt(r)
      <4>1. reply'[r] \notin {"granted", "reused"}
        BY <2>1, <3>3 DEF Handler, AskPayment, RefuseAuth, AskVerify, AskSettle,
             RemoteFails, Settled, RefuseDuplicate, Unconfirmed, Mismatch,
             RecordThrows, Refuse, Finish, Await, At, IInv, TypeOK, LocalsInv
      <4>2. QED
        BY <2>1, <4>1, UnservedStepStutters
    <3>4. QED
      BY <3>1, <3>2, <3>3
  <2>2. CASE Tick
    <3>1. UNCHANGED <<mined, Purchases, Repeated>>
      BY <2>2 DEF Tick, handlerVars, chainVars, Purchases, Repeated, Purchase
    <3>2. QED
      BY <2>2, <3>1 DEF Tick, Access!Wait, Purchases, Repeated
  <2>3. ASSUME NEW a \in Auths, Mine(a)
        PROVE  Access!Next
    <3>1. UNCHANGED <<clock, Purchases, Repeated>>
      BY <2>3 DEF Mine, handlerVars, Purchases, Repeated, Purchase
    <3>2. QED
      BY <2>3, <3>1 DEF Mine, Access!Execute, Purchases, Repeated
  <2>4. CASE Crashes
    <3> Die
      BY <2>4, CrashStep DEF IInv
    <3>1. \A r \in Requests :
            /\ InFlight(r) => reply[r] = "none" /\ reply'[r] = "dropped"
            /\ ~InFlight(r) => /\ reply'[r] = reply[r] /\ tx'[r] = tx[r]
                               /\ start'[r] = start[r]
            /\ grantedAt'[r] = grantedAt[r]
      BY DEF Die, IInv, LocalsInv, InFlight
    <3>2. UNCHANGED <<Purchases, Repeated>>
      BY <3>1, SoldStays DEF IInv
    <3>3. QED
      BY <3>2 DEF Die, chainVars
  <2>5. CASE Restart \/ UNCHANGED vars
    BY <2>5 DEF Restart, vars, handlerVars, chainVars, Purchases, Repeated,
                Purchase
  <2>6. QED
    BY <2>1, <2>2, <2>3, <2>4, <2>5 DEF Next, Crashes
<1>3. QED
  BY <1>1, <1>2, X402IInv, X402MinedInv, PTL
     DEF Spec, SellsForTransfers, Access!Spec, Purchases, Repeated
=============================================================================
