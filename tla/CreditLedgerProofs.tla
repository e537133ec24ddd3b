------------------------- MODULE CreditLedgerProofs -------------------------
(***************************************************************************)
(* The ledger is sound whatever the accounts, amounts and hashes are.      *)
(***************************************************************************)
EXTENDS CreditLedger, Functions, WellFoundedInduction, TLAPS

\* toCents of a whole number of cents is that number: what Stripe charged is
\* what is credited (stripeWebhook.ts:104, creditLedger.ts:50-52).
LEMMA ToCentsOfCents ==
  ASSUME NEW c \in Int
  PROVE  ToCents(10 * c) = c
  BY DEF ToCents

\* toCents of a positive amount is a number of cents (creditLedger.ts:50-52).
LEMMA ToCentsNat ==
  ASSUME NEW m \in Nat
  PROVE  ToCents(m) \in Nat
  BY DEF ToCents

\* Appending leaves the earlier entries where they are.
LEMMA AppendFacts ==
  ASSUME NEW S, NEW s \in Seq(S), NEW e \in S, NEW t, t = Append(s, e)
  PROVE  /\ Len(s) \in Nat
         /\ Len(t) = Len(s) + 1
         /\ t[Len(s) + 1] = e
         /\ \A i \in 1 .. Len(s) : t[i] = s[i]
         /\ t # << >>
<1>1. Len(s) \in Nat /\ t \in Seq(S) /\ Len(t) = Len(s) + 1
  OBVIOUS
<1>2. t[Len(s) + 1] = e /\ \A i \in 1 .. Len(s) : t[i] = s[i]
  OBVIOUS
<1>3. t # << >>
  BY <1>1
<1>4. QED
  BY <1>1, <1>2, <1>3

LEMMA LedgerInitSound ==
  LedgerInit => LedgerTypeOK /\ LedgerSound
  BY DEF LedgerInit, LedgerTypeOK, LedgerSound, LedgerChained, NoOverdraft,
         HistoryHasRow, ClosingBalance

\* Posting one entry whose balance is the old one moved by the entry's amount
\* keeps the ledger sound; both operations post (creditLedger.ts:73-138).
LEMMA PostSound ==
  ASSUME LedgerTypeOK, LedgerSound,
         NEW a \in Accounts, NEW type \in {"topup", "charge"},
         NEW cents \in Nat, NEW hash \in Hashes \cup {NoHash},
         NEW new \in Nat,
         new = balance[a] + (IF type = "topup" THEN cents ELSE -cents),
         Post(a, type, cents, hash, new)
  PROVE  LedgerTypeOK' /\ LedgerSound'
<1> DEFINE entry == [type |-> type, amount |-> cents,
                     requestHash |-> hash, balanceAfter |-> new]
<1>1. entry \in Entry
  BY DEF Entry
<1>2. LedgerTypeOK'
  BY <1>1 DEF LedgerTypeOK, Post
<1>3. /\ ledger'[a] = Append(ledger[a], entry)
      /\ balance'[a] = new
      /\ a \in accounts'
  BY DEF LedgerTypeOK, Post
<1>4. ASSUME NEW b \in Accounts, b # a
      PROVE  ledger'[b] = ledger[b] /\ balance'[b] = balance[b]
  BY <1>4 DEF LedgerTypeOK, Post
<1>5. /\ ledger[a] \in Seq(Entry)
      /\ Len(ledger[a]) \in Nat
      /\ Len(ledger'[a]) = Len(ledger[a]) + 1
      /\ ledger'[a][Len(ledger[a]) + 1] = entry
      /\ \A i \in 1 .. Len(ledger[a]) : ledger'[a][i] = ledger[a][i]
      /\ ledger'[a] # << >>
  <2>1. ledger[a] \in Seq(Entry)
    BY DEF LedgerTypeOK
  <2>2. QED
    BY <2>1, <1>1, <1>3, AppendFacts
<1>6. LedgerChained'
  <2> SUFFICES ASSUME NEW b \in Accounts
               PROVE  /\ \A i \in 1 .. Len(ledger'[b]) :
                           ledger'[b][i].balanceAfter
                             = BalanceBefore(ledger'[b], i) + Delta(ledger'[b][i])
                      /\ balance'[b] = ClosingBalance(ledger'[b])
    BY DEF LedgerChained, BalanceBefore, Delta, ClosingBalance
  <2>1. CASE b # a
    BY <2>1, <1>4 DEF LedgerSound, LedgerChained
  <2>2. CASE b = a
    <3>1. balance'[a] = ClosingBalance(ledger'[a])
      BY <1>3, <1>5 DEF ClosingBalance
    <3>2. ASSUME NEW i \in 1 .. Len(ledger[a])
          PROVE  ledger'[a][i].balanceAfter
                   = BalanceBefore(ledger'[a], i) + Delta(ledger'[a][i])
      <4>1. BalanceBefore(ledger'[a], i) = BalanceBefore(ledger[a], i)
        <5>1. CASE i = 1
          BY <5>1 DEF BalanceBefore
        <5>2. CASE i # 1
          <6>1. i - 1 \in 1 .. Len(ledger[a])
            BY <5>2, <1>5
          <6>2. ledger'[a][i - 1] = ledger[a][i - 1]
            BY <6>1, <1>5
          <6>3. QED
            BY <5>2, <6>2 DEF BalanceBefore
        <5>3. QED
          BY <5>1, <5>2
      <4>2. QED
        BY <4>1, <1>5 DEF LedgerSound, LedgerChained, Delta
    <3>3. ledger'[a][Len(ledger[a]) + 1].balanceAfter
            = BalanceBefore(ledger'[a], Len(ledger[a]) + 1)
              + Delta(ledger'[a][Len(ledger[a]) + 1])
      <4>1. balance[a] = ClosingBalance(ledger[a])
        BY DEF LedgerSound, LedgerChained
      <4>2. BalanceBefore(ledger'[a], Len(ledger[a]) + 1) = balance[a]
        <5>1. CASE ledger[a] = << >>
          BY <5>1, <4>1 DEF BalanceBefore, ClosingBalance
        <5>2. CASE ledger[a] # << >>
          <6>1. Len(ledger[a]) \in 1 .. Len(ledger[a])
            BY <5>2, <1>5
          <6>2. QED
            BY <5>2, <6>1, <4>1, <1>5 DEF BalanceBefore, ClosingBalance
        <5>3. QED
          BY <5>1, <5>2
      <4>3. Delta(entry) = IF type = "topup" THEN cents ELSE -cents
        BY DEF Delta
      <4>4. QED
        BY <4>2, <4>3, <1>5
    <3>4. \A i \in 1 .. Len(ledger'[a]) :
            i \in 1 .. Len(ledger[a]) \/ i = Len(ledger[a]) + 1
      BY <1>5
    <3>5. QED
      BY <2>2, <3>1, <3>2, <3>3, <3>4
  <2>3. QED
    BY <2>1, <2>2
<1>7. NoOverdraft'
  <2> SUFFICES ASSUME NEW b \in Accounts
               PROVE  /\ balance'[b] >= 0
                      /\ \A i \in 1 .. Len(ledger'[b]) :
                           ledger'[b][i].balanceAfter >= 0
    BY DEF NoOverdraft
  <2>1. CASE b # a
    BY <2>1, <1>4 DEF LedgerSound, NoOverdraft
  <2>2. CASE b = a
    <3>1. \A i \in 1 .. Len(ledger'[a]) :
            i \in 1 .. Len(ledger[a]) \/ i = Len(ledger[a]) + 1
      BY <1>5
    <3>2. QED
      BY <2>2, <3>1, <1>3, <1>5 DEF LedgerSound, NoOverdraft
  <2>3. QED
    BY <2>1, <2>2
<1>8. HistoryHasRow'
  <2>1. accounts \subseteq accounts'
    BY DEF Post
  <2>2. QED
    BY <2>1, <1>3, <1>4 DEF LedgerSound, HistoryHasRow
<1>9. QED
  BY <1>2, <1>6, <1>7, <1>8 DEF LedgerSound

LEMMA LedgerStutterSound ==
  ASSUME LedgerTypeOK, LedgerSound, UNCHANGED ledgerVars
  PROVE  LedgerTypeOK' /\ LedgerSound'
  BY DEF ledgerVars, LedgerTypeOK, LedgerSound, LedgerChained, NoOverdraft,
         HistoryHasRow, ClosingBalance, BalanceBefore, Delta

LEMMA EnsureAccountSound ==
  ASSUME LedgerTypeOK, LedgerSound, NEW a \in Accounts, EnsureAccount(a)
  PROVE  LedgerTypeOK' /\ LedgerSound'
  BY DEF EnsureAccount, LedgerTypeOK, LedgerSound, LedgerChained, NoOverdraft,
         HistoryHasRow, ClosingBalance, BalanceBefore, Delta

LEMMA TopUpSound ==
  ASSUME LedgerTypeOK, LedgerSound,
         NEW a \in Accounts, NEW mills \in Nat, TopUp(a, mills)
  PROVE  LedgerTypeOK' /\ LedgerSound'
<1>1. ToCents(mills) \in Nat
  BY ToCentsNat
<1>2. balance[a] + ToCents(mills) \in Nat
  BY <1>1 DEF LedgerTypeOK, LedgerSound, NoOverdraft
<1>3. Post(a, "topup", ToCents(mills), NoHash, balance[a] + ToCents(mills))
  BY DEF TopUp
<1>4. QED
  BY <1>1, <1>2, <1>3, PostSound

LEMMA ChargeSound ==
  ASSUME LedgerTypeOK, LedgerSound,
         NEW a \in Accounts, NEW cents \in Nat, NEW hash \in Hashes,
         Charge(a, cents, hash)
  PROVE  LedgerTypeOK' /\ LedgerSound'
<1>1. balance[a] - cents \in Nat
  BY DEF Charge, Affordable, LedgerTypeOK
<1>2. Post(a, "charge", cents, hash, balance[a] - cents)
  BY DEF Charge
<1>3. balance[a] - cents = balance[a] + (-cents)
  BY DEF LedgerTypeOK
<1>4. QED
  BY <1>1, <1>2, <1>3, PostSound

LEMMA LedgerStepSound ==
  LedgerTypeOK /\ LedgerSound /\ [LedgerNext]_ledgerVars
    => LedgerTypeOK' /\ LedgerSound'
<1> SUFFICES ASSUME LedgerTypeOK, LedgerSound, [LedgerNext]_ledgerVars
             PROVE  LedgerTypeOK' /\ LedgerSound'
  OBVIOUS
<1>1. CASE UNCHANGED ledgerVars
  BY <1>1, LedgerStutterSound
<1>2. ASSUME NEW a \in Accounts, EnsureAccount(a)
      PROVE  LedgerTypeOK' /\ LedgerSound'
  BY <1>2, EnsureAccountSound
<1>3. ASSUME NEW a \in Accounts, NEW mills \in Nat, TopUp(a, mills)
      PROVE  LedgerTypeOK' /\ LedgerSound'
  BY <1>3, TopUpSound
<1>4. ASSUME NEW a \in Accounts, NEW cents \in Nat, NEW hash \in Hashes,
             Charge(a, cents, hash)
      PROVE  LedgerTypeOK' /\ LedgerSound'
  BY <1>4, ChargeSound
<1>5. QED
  BY <1>1, <1>2, <1>3, <1>4 DEF LedgerNext

\* Type correctness and soundness of the ledger on its own: every entry follows
\* from the one before, the balance is the last entry's, nothing is overdrawn.
THEOREM LedgerIsSound == LedgerSpec => [](LedgerTypeOK /\ LedgerSound)
  BY LedgerInitSound, LedgerStepSound, PTL DEF LedgerSpec

----------------------------------------------------------------------------
(* Matching: the entries of an account against what they were made for.    *)

\* The entries of one type made under one of these hashes.
Rows(a, type, hashes) ==
  {i \in 1 .. Len(ledger[a]) :
     ledger[a][i].type = type /\ ledger[a][i].requestHash \in hashes}

\* Posting adds the new entry where it belongs and touches no other: entries are
\* never rewritten (creditLedger.ts:92-95, 126-129).
LEMMA PostRows ==
  ASSUME LedgerTypeOK,
         NEW b \in Accounts, NEW type \in {"topup", "charge"}, NEW cents \in Nat,
         NEW h \in Hashes \cup {NoHash}, NEW left \in Int,
         Post(b, type, cents, h, left),
         NEW a \in Accounts, NEW t, NEW hashes
  PROVE  /\ \A i \in Rows(a, t, hashes) : ledger'[a][i] = ledger[a][i]
         /\ IF a = b /\ type = t /\ h \in hashes
            THEN /\ Len(ledger[a]) + 1 \notin Rows(a, t, hashes)
                 /\ Rows(a, t, hashes)'
                      = Rows(a, t, hashes) \cup {Len(ledger[a]) + 1}
                 /\ ledger'[a][Len(ledger[a]) + 1].amount = cents
            ELSE Rows(a, t, hashes)' = Rows(a, t, hashes)
<1> DEFINE entry == [type |-> type, amount |-> cents, requestHash |-> h,
                     balanceAfter |-> left]
<1>1. entry \in Entry
  BY DEF Entry
<1>2. CASE a # b
  <2>1. ledger'[a] = ledger[a]
    BY <1>2 DEF LedgerTypeOK, Post
  <2>2. QED
    BY <1>2, <2>1 DEF Rows
<1>3. CASE a = b
  <2> DEFINE n == Len(ledger[a])
  <2>1. ledger[a] \in Seq(Entry) /\ ledger'[a] = Append(ledger[a], entry)
    BY <1>3 DEF LedgerTypeOK, Post
  <2>2. /\ n \in Nat /\ Len(ledger'[a]) = n + 1
        /\ ledger'[a][n + 1] = entry
        /\ \A i \in 1 .. n : ledger'[a][i] = ledger[a][i]
    BY <1>1, <2>1, AppendFacts
  <2> HIDE DEF n
  <2>3. 1 .. n + 1 = (1 .. n) \cup {n + 1} /\ n + 1 \notin 1 .. n
    BY <2>2
  <2>4. Rows(a, t, hashes) \subseteq 1 .. n
    BY DEF Rows, n
  <2>5. Rows(a, t, hashes)'
          = {i \in 1 .. n + 1 : /\ ledger'[a][i].type = t
                                /\ ledger'[a][i].requestHash \in hashes}
    BY <2>2 DEF Rows
  <2>6. Rows(a, t, hashes)'
          = Rows(a, t, hashes) \cup
              (IF type = t /\ h \in hashes THEN {n + 1} ELSE {})
    BY <2>2, <2>3, <2>5 DEF Rows, n
  <2>7. QED
    BY <1>3, <2>2, <2>3, <2>4, <2>6 DEF n
<1>4. QED
  BY <1>2, <1>3

\* A top-up is no charge: it leaves every account the charges it had.
LEMMA TopUpRows ==
  ASSUME LedgerTypeOK,
         NEW b \in Accounts, NEW cents \in Nat, NEW left \in Int,
         Post(b, "topup", cents, NoHash, left),
         NEW a \in Accounts, NEW hashes
  PROVE  /\ \A i \in Rows(a, "charge", hashes) : ledger'[a][i] = ledger[a][i]
         /\ Rows(a, "charge", hashes)' = Rows(a, "charge", hashes)
<1> DEFINE type == "topup"
<1>1. type \in {"topup", "charge"} /\ type # "charge"
  OBVIOUS
<1>2. NoHash \in Hashes \cup {NoHash} /\ Post(b, type, cents, NoHash, left)
  OBVIOUS
<1> HIDE DEF type
<1>3. QED
  BY <1>1, <1>2, PostRows

\* An entry is one more row of its own type.
LEMMA PostOwnRow ==
  ASSUME LedgerTypeOK,
         NEW b \in Accounts, NEW type \in {"topup", "charge"}, NEW cents \in Nat,
         NEW h \in Hashes \cup {NoHash}, NEW left \in Int,
         Post(b, type, cents, h, left),
         NEW a \in Accounts, NEW hashes, h \in hashes
  PROVE  /\ \A i \in Rows(a, type, hashes) : ledger'[a][i] = ledger[a][i]
         /\ a # b => Rows(a, type, hashes)' = Rows(a, type, hashes)
         /\ a = b => /\ Len(ledger[a]) + 1 \notin Rows(a, type, hashes)
                     /\ Rows(a, type, hashes)'
                          = Rows(a, type, hashes) \cup {Len(ledger[a]) + 1}
                     /\ ledger'[a][Len(ledger[a]) + 1].amount = cents
<1> DEFINE t == type
<1>1. /\ t = type
      /\ \A i \in Rows(a, t, hashes) : ledger'[a][i] = ledger[a][i]
      /\ IF a = b /\ type = t /\ h \in hashes
         THEN /\ Len(ledger[a]) + 1 \notin Rows(a, t, hashes)
              /\ Rows(a, t, hashes)' = Rows(a, t, hashes) \cup {Len(ledger[a]) + 1}
              /\ ledger'[a][Len(ledger[a]) + 1].amount = cents
         ELSE Rows(a, t, hashes)' = Rows(a, t, hashes)
  <2> HIDE DEF t
  <2>1. QED
    BY PostRows DEF t
<1>2. QED
  BY <1>1

\* A top-up is one more top-up row of its account.
LEMMA TopUpPosts ==
  ASSUME LedgerTypeOK,
         NEW b \in Accounts, NEW cents \in Nat, NEW left \in Int,
         Post(b, "topup", cents, NoHash, left),
         NEW a \in Accounts, NEW hashes, NoHash \in hashes
  PROVE  /\ \A i \in Rows(a, "topup", hashes) : ledger'[a][i] = ledger[a][i]
         /\ a # b => Rows(a, "topup", hashes)' = Rows(a, "topup", hashes)
         /\ a = b => /\ Len(ledger[a]) + 1 \notin Rows(a, "topup", hashes)
                     /\ Rows(a, "topup", hashes)'
                          = Rows(a, "topup", hashes) \cup {Len(ledger[a]) + 1}
                     /\ ledger'[a][Len(ledger[a]) + 1].amount = cents
<1>1. NoHash \in Hashes \cup {NoHash}
  OBVIOUS
<1>2. QED
  BY <1>1, PostOwnRow

\* A charge is no top-up.
LEMMA ChargeRows ==
  ASSUME LedgerTypeOK,
         NEW b \in Accounts, NEW cents \in Nat, NEW h \in Hashes, NEW left \in Int,
         Post(b, "charge", cents, h, left),
         NEW a \in Accounts, NEW hashes
  PROVE  /\ \A i \in Rows(a, "topup", hashes) : ledger'[a][i] = ledger[a][i]
         /\ Rows(a, "topup", hashes)' = Rows(a, "topup", hashes)
<1> DEFINE type == "charge"
<1>1. type \in {"topup", "charge"} /\ type # "topup"
  OBVIOUS
<1>2. h \in Hashes \cup {NoHash} /\ Post(b, type, cents, h, left)
  OBVIOUS
<1> HIDE DEF type
<1>3. QED
  BY <1>1, <1>2, PostRows

\* A bijection with one more pair is a bijection.
LEMMA AddPair ==
  ASSUME NEW B, NEW C, NEW f \in Bijection(B, C),
         NEW b, b \notin B, NEW c, c \notin C
  PROVE  [x \in B \cup {b} |-> IF x = b THEN c ELSE f[x]]
           \in Bijection(B \cup {b}, C \cup {c})
<1> DEFINE g == [x \in B \cup {b} |-> IF x = b THEN c ELSE f[x]]
<1>1. /\ f \in [B -> C]
      /\ \A x, y \in B : f[x] = f[y] => x = y
      /\ \A z \in C : \E x \in B : f[x] = z
  BY DEF Bijection, Injection, Surjection, IsInjective
<1>2. g \in [B \cup {b} -> C \cup {c}]
  BY <1>1
<1>3. \A x, y \in B \cup {b} : g[x] = g[y] => x = y
  BY <1>1
<1>4. \A z \in C \cup {c} : \E x \in B \cup {b} : g[x] = z
  BY <1>1
<1> HIDE DEF g
<1>5. g \in Bijection(B \cup {b}, C \cup {c})
  BY <1>2, <1>3, <1>4 DEF Bijection, Injection, Surjection, IsInjective
<1>6. QED
  BY <1>5 DEF g

----------------------------------------------------------------------------
(* The sums: what an account got and what it spent.                        *)

\* s[i] is what the first i entries of the type amount to.
RunningSum(s, entries, type) ==
  /\ s \in [0 .. Len(entries) -> Nat]
  /\ s[0] = 0
  /\ \A i \in 1 .. Len(entries) :
       s[i] = s[i - 1] + (IF entries[i].type = type THEN entries[i].amount ELSE 0)

BalanceAddsUp ==
  \A a \in Accounts :
    /\ \E added, spent : /\ RunningSum(added, ledger[a], "topup")
                        /\ RunningSum(spent, ledger[a], "charge")
    /\ \A added, spent :
         RunningSum(added, ledger[a], "topup") /\ RunningSum(spent, ledger[a], "charge")
           => /\ balance[a] = added[Len(ledger[a])] - spent[Len(ledger[a])]
              /\ \A i \in 0 .. Len(ledger[a]) : spent[i] <= added[i]

\* Any set of numbers has a least one, so that what fails for some entry fails
\* for a first.
LEMMA LeastNat ==
  ASSUME NEW T \in SUBSET Nat, T # {}
  PROVE  \E k \in T : \A j \in T : k <= j
<1> DEFINE Less == OpToRel(<, Nat)
<1>1. Less = {pair \in Nat \X Nat : pair[1] < pair[2]}
  BY Zenon DEF OpToRel
<1>2. IsWellFoundedOn(Less, Nat)
  BY NatLessThanWellFounded, Zenon
<1> HIDE DEF Less
<1>3. PICK k \in T : \A j \in T : <<j, k>> \notin Less
  BY <1>2, WFMin
<1>4. \A j \in T : ~(j < k)
  BY <1>1, <1>3
<1>5. QED
  BY <1>4

\* The amounts of a ledger can be summed up.
LEMMA RunningSumExists ==
  ASSUME NEW entries \in Seq(Entry), NEW type,
         \A i \in 1 .. Len(entries) : entries[i].amount \in Nat
  PROVE  \E s : RunningSum(s, entries, type)
<1> DEFINE part(i) == IF entries[i].type = type THEN entries[i].amount ELSE 0
           SumTo(n, s) == /\ s \in [0 .. n -> Nat] /\ s[0] = 0
                          /\ \A i \in 1 .. n : s[i] = s[i - 1] + part(i)
           Holds(n) == n <= Len(entries) => \E s : SumTo(n, s)
           fails == {n \in Nat : ~Holds(n)}
<1>1. Len(entries) \in Nat /\ \A i \in 1 .. Len(entries) : part(i) \in Nat
  OBVIOUS
<1> HIDE DEF part
<1>2. Holds(0)
  <2>1. SumTo(0, [i \in 0 .. 0 |-> 0])
    OBVIOUS
  <2> HIDE DEF SumTo
  <2>2. QED
    BY <2>1
<1>3. ASSUME NEW n \in Nat, Holds(n)
      PROVE  Holds(n + 1)
  <2> SUFFICES ASSUME n + 1 <= Len(entries)
               PROVE  \E s : SumTo(n + 1, s)
    OBVIOUS
  <2>1. PICK s : SumTo(n, s)
    <3> HIDE DEF SumTo
    <3>1. n <= Len(entries)
      BY <1>1
    <3>2. QED
      BY <1>3, <3>1
  <2> DEFINE t == [i \in 0 .. n + 1 |-> IF i = n + 1 THEN s[n] + part(i) ELSE s[i]]
  <2>2. s[n] \in Nat /\ part(n + 1) \in Nat
    BY <1>1, <2>1
  <2>3. t \in [0 .. n + 1 -> Nat] /\ t[0] = 0
    BY <2>1, <2>2
  <2>4. ASSUME NEW i \in 1 .. n + 1
        PROVE  t[i] = t[i - 1] + part(i)
    <3>1. CASE i = n + 1
      BY <2>1, <3>1
    <3>2. CASE i # n + 1
      <4>1. i \in 1 .. n /\ i - 1 \in 0 .. n /\ i \in 0 .. n + 1 /\ i - 1 # n + 1
        BY <3>2
      <4>2. t[i] = s[i] /\ t[i - 1] = s[i - 1]
        BY <4>1
      <4>3. QED
        BY <2>1, <4>1, <4>2
    <3>3. QED
      BY <3>1, <3>2
  <2>5. SumTo(n + 1, t)
    BY <2>3, <2>4
  <2> HIDE DEF SumTo
  <2>6. QED
    BY <2>5
<1>4. Holds(Len(entries))
  <2> HIDE DEF Holds
  <2> SUFFICES ASSUME fails # {}
               PROVE  FALSE
    BY <1>1
  <2>1. PICK n \in fails : \A m \in fails : n <= m
    BY LeastNat
  <2>2. n \in Nat /\ ~Holds(n) /\ n # 0
    BY <1>2
  <2>3. n - 1 \in Nat /\ n - 1 \notin fails
    BY <2>1, <2>2
  <2>4. QED
    BY <1>3, <2>2, <2>3
<1>5. PICK s : SumTo(Len(entries), s)
  BY <1>1, <1>4
<1>6. RunningSum(s, entries, type)
  BY <1>5 DEF RunningSum, part
<1>7. QED
  BY <1>6

\* Each entry's balance is what was added so far less what was spent.
LEMMA BalanceIsTheDifference ==
  ASSUME LedgerTypeOK, LedgerSound, NEW a \in Accounts, NEW added, NEW spent,
         RunningSum(added, ledger[a], "topup"), RunningSum(spent, ledger[a], "charge"),
         NEW i \in 0 .. Len(ledger[a])
  PROVE  added[i] - spent[i] = IF i = 0 THEN 0 ELSE ledger[a][i].balanceAfter
<1> DEFINE left(j) == IF j = 0 THEN 0 ELSE ledger[a][j].balanceAfter
           fails == {j \in 0 .. Len(ledger[a]) : added[j] - spent[j] # left(j)}
<1>1. /\ Len(ledger[a]) \in Nat
      /\ \A j \in 1 .. Len(ledger[a]) :
           /\ ledger[a][j] \in Entry
           /\ left(j) = left(j - 1) + Delta(ledger[a][j])
  <2>1. ledger[a] \in Seq(Entry)
    BY DEF LedgerTypeOK
  <2>2. QED
    BY <2>1 DEF LedgerSound, LedgerChained, BalanceBefore
<1>2. SUFFICES ASSUME fails # {}
               PROVE  FALSE
  OBVIOUS
<1>3. PICK n \in fails : \A m \in fails : n <= m
  <2>1. fails \in SUBSET Nat
    BY <1>1
  <2> HIDE DEF fails
  <2>2. QED
    BY <1>2, <2>1, LeastNat
<1>4. n # 0
  BY DEF RunningSum
<1>5. n \in 1 .. Len(ledger[a]) /\ n - 1 \in 0 .. Len(ledger[a]) /\ n - 1 \notin fails
  BY <1>1, <1>3, <1>4
<1>6. added[n - 1] - spent[n - 1] = left(n - 1)
  BY <1>5
<1>7. /\ added[n] = added[n - 1] + (IF ledger[a][n].type = "topup"
                                   THEN ledger[a][n].amount ELSE 0)
      /\ spent[n] = spent[n - 1] + (IF ledger[a][n].type = "charge"
                                   THEN ledger[a][n].amount ELSE 0)
      /\ added[n - 1] \in Nat /\ spent[n - 1] \in Nat
  BY <1>5 DEF RunningSum
<1>8. /\ left(n) = left(n - 1) + Delta(ledger[a][n])
      /\ ledger[a][n].type \in {"topup", "charge"}
      /\ ledger[a][n].amount \in Nat
      /\ left(n - 1) \in Int
  <2>1. left(n - 1) \in Int
    BY <1>1, <1>5 DEF Entry
  <2>2. QED
    BY <1>1, <1>5, <2>1 DEF Entry
<1> HIDE DEF left
<1>9. added[n] - spent[n] = left(n)
  <2>1. CASE ledger[a][n].type = "topup"
    BY <1>6, <1>7, <1>8, <2>1 DEF Delta
  <2>2. CASE ledger[a][n].type = "charge"
    <3>1. Delta(ledger[a][n]) = -ledger[a][n].amount
      BY <2>2 DEF Delta
    <3>2. /\ added[n] = added[n - 1] + 0
          /\ spent[n] = spent[n - 1] + ledger[a][n].amount
      BY <1>7, <2>2
    <3>3. left(n) = left(n - 1) - ledger[a][n].amount
      BY <1>8, <3>1
    <3>4. QED
      BY <1>6, <1>7, <1>8, <3>2, <3>3
  <2>3. QED
    BY <1>8, <2>1, <2>2
<1>10. QED
  BY <1>3, <1>9

LEMMA SoundAddsUp ==
  ASSUME LedgerTypeOK, LedgerSound
  PROVE  BalanceAddsUp
<1> SUFFICES ASSUME NEW a \in Accounts
             PROVE  /\ \E added, spent : /\ RunningSum(added, ledger[a], "topup")
                                        /\ RunningSum(spent, ledger[a], "charge")
                    /\ \A added, spent :
                         /\ RunningSum(added, ledger[a], "topup")
                         /\ RunningSum(spent, ledger[a], "charge")
                         => /\ balance[a] = added[Len(ledger[a])] - spent[Len(ledger[a])]
                            /\ \A i \in 0 .. Len(ledger[a]) : spent[i] <= added[i]
  BY DEF BalanceAddsUp
<1>1. /\ ledger[a] \in Seq(Entry) /\ Len(ledger[a]) \in Nat
      /\ \A i \in 1 .. Len(ledger[a]) : ledger[a][i] \in Entry
  BY DEF LedgerTypeOK
<1>2. \E added, spent : /\ RunningSum(added, ledger[a], "topup")
                      /\ RunningSum(spent, ledger[a], "charge")
  <2>1. \A i \in 1 .. Len(ledger[a]) : ledger[a][i].amount \in Nat
    BY <1>1 DEF Entry
  <2>2. (\E s : RunningSum(s, ledger[a], "topup"))
        /\ (\E s : RunningSum(s, ledger[a], "charge"))
    BY <1>1, <2>1, RunningSumExists
  <2>3. QED
    BY <2>2
<1>3. ASSUME NEW added, NEW spent,
             RunningSum(added, ledger[a], "topup"), RunningSum(spent, ledger[a], "charge")
      PROVE  /\ balance[a] = added[Len(ledger[a])] - spent[Len(ledger[a])]
             /\ \A i \in 0 .. Len(ledger[a]) : spent[i] <= added[i]
  <2>1. \A i \in 0 .. Len(ledger[a]) :
          added[i] - spent[i] = IF i = 0 THEN 0 ELSE ledger[a][i].balanceAfter
    BY <1>3, BalanceIsTheDifference
  <2>2. balance[a] = IF Len(ledger[a]) = 0 THEN 0
                     ELSE ledger[a][Len(ledger[a])].balanceAfter
    BY <1>1 DEF LedgerSound, LedgerChained, ClosingBalance
  <2>3. \A i \in 0 .. Len(ledger[a]) : added[i] \in Nat /\ spent[i] \in Nat
    BY <1>3 DEF RunningSum
  <2>4. \A i \in 1 .. Len(ledger[a]) : ledger[a][i].balanceAfter >= 0
    BY DEF LedgerSound, NoOverdraft
  <2>5. Len(ledger[a]) \in 0 .. Len(ledger[a])
    BY <1>1
  <2>6. balance[a] = added[Len(ledger[a])] - spent[Len(ledger[a])]
    BY <2>1, <2>2, <2>5
  <2>7. ASSUME NEW i \in 0 .. Len(ledger[a])
        PROVE  spent[i] <= added[i]
    <3>1. added[i] - spent[i] >= 0
      BY <1>1, <2>1, <2>4
    <3>2. QED
      BY <2>3, <3>1
  <2>8. QED
    BY <2>6, <2>7
<1>4. QED
  BY <1>2, <1>3

\* An account's balance is the sum of its top-ups less the sum of its charges, and
\* at no entry of its history had more been spent than added
\* (creditLedger.ts:73-138).
THEOREM LedgerAddsUp == LedgerSpec => []BalanceAddsUp
  BY LedgerIsSound, SoundAddsUp, PTL
=============================================================================
