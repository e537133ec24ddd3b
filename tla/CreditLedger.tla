---------------------------- MODULE CreditLedger ----------------------------
(***************************************************************************)
(* The prepaid credit ledger: the accounts and ledger_entries tables and   *)
(* the operations of class CreditLedger on them.  better-sqlite3 runs each *)
(* db.transaction() synchronously and SQLite makes it all or nothing, so   *)
(* one operation is one action; a crash falls between actions.             *)
(*                                                                         *)
(* Money is kept in integer cents, as in the tables.  Amounts that a       *)
(* caller passes in dollars are given in mills (tenths of a cent), the     *)
(* grain at which toCents can round.                                       *)
(***************************************************************************)
EXTENDS Integers, Sequences

CONSTANTS
  Accounts,   \* account ids
  Hashes,     \* request hashes a charge is filed under
  NoHash      \* the NULL request_hash of a top-up

ASSUME NoHashAssumption == NoHash \notin Hashes

VARIABLES
  accounts,   \* ids that have a row in table accounts
  balance,    \* balance_usd_cents of each account (0 while it has no row)
  ledger      \* ledger_entries of each account, in insertion order

ledgerVars == <<accounts, balance, ledger>>

Entry == [type : {"topup", "charge"}, amount : Nat,
          requestHash : Hashes \cup {NoHash}, balanceAfter : Int]

LedgerInit ==
  /\ accounts = {}
  /\ balance = [a \in Accounts |-> 0]
  /\ ledger = [a \in Accounts |-> << >>]

----------------------------------------------------------------------------
\* Math.round(usd * 100) for a positive amount: halves round up.
ToCents(mills) == (mills + 5) \div 10

\* The row insert both operations and ApiKeyStore.create begin with.
EnsureAccount(a) ==
  /\ accounts' = accounts \cup {a}
  /\ UNCHANGED <<balance, ledger>>

\* A bug that forgets the entry's running balance already includes the amount.
PostStale(a, type, cents, hash, newBalance) ==
  /\ accounts' = accounts \cup {a}
  /\ balance' = [balance EXCEPT ![a] = newBalance]
  /\ ledger' = [ledger EXCEPT ![a] =
                  Append(@, [type |-> type, amount |-> cents,
                             requestHash |-> hash, balanceAfter |-> balance[a]])]

\* Writes the new balance and the ledger entry that records it, together.
Post(a, type, cents, hash, newBalance) ==
  /\ accounts' = accounts \cup {a}
  /\ balance' = [balance EXCEPT ![a] = newBalance]
  /\ ledger' = [ledger EXCEPT ![a] =
                  Append(@, [type |-> type, amount |-> cents,
                             requestHash |-> hash, balanceAfter |-> newBalance])]

TopUp(a, mills) ==
  /\ mills > 0
  /\ Post(a, "topup", ToCents(mills), NoHash, balance[a] + ToCents(mills))

\* charge throws inside its transaction, and so writes nothing, when short.
Affordable(a, cents) == balance[a] >= cents

\* A bug that enters a charge in the ledger as a negative amount.
ChargeSigned(a, cents, hash) ==
  /\ Affordable(a, cents)
  /\ Post(a, "charge", -cents, hash, balance[a] - cents)

Charge(a, cents, hash) ==
  /\ Affordable(a, cents)
  /\ Post(a, "charge", cents, hash, balance[a] - cents)

LedgerNext ==
  \E a \in Accounts :
    \/ EnsureAccount(a)
    \/ \E mills \in Nat : TopUp(a, mills)
    \/ \E cents \in Nat, hash \in Hashes : Charge(a, cents, hash)

LedgerSpec == LedgerInit /\ [][LedgerNext]_ledgerVars

----------------------------------------------------------------------------
LedgerTypeOK ==
  /\ accounts \subseteq Accounts
  /\ balance \in [Accounts -> Int]
  /\ ledger \in [Accounts -> Seq(Entry)]

Delta(entry) == IF entry.type = "topup" THEN entry.amount ELSE -entry.amount

BalanceBefore(entries, i) == IF i = 1 THEN 0 ELSE entries[i - 1].balanceAfter

ClosingBalance(entries) ==
  IF entries = << >> THEN 0 ELSE entries[Len(entries)].balanceAfter

\* Every entry's balance_after is the previous entry's plus or minus its own
\* amount, and the accounts row agrees with the last entry: the balance can be
\* recomputed from the ledger alone (creditLedger.ts:73-138).
LedgerChained ==
  \A a \in Accounts :
    /\ \A i \in 1 .. Len(ledger[a]) :
         ledger[a][i].balanceAfter
           = BalanceBefore(ledger[a], i) + Delta(ledger[a][i])
    /\ balance[a] = ClosingBalance(ledger[a])

\* No account is ever overdrawn, now or at any entry of its history: charge
\* checks and deducts in one transaction (creditLedger.ts:104-125).
NoOverdraft ==
  \A a \in Accounts :
    /\ balance[a] >= 0
    /\ \A i \in 1 .. Len(ledger[a]) : ledger[a][i].balanceAfter >= 0

\* Money and history belong to accounts that have a row, so the console's
\* listing of all balances leaves out no money (creditLedger.ts:195-202).
HistoryHasRow ==
  \A a \in Accounts : ledger[a] # << >> => a \in accounts

LedgerSound == LedgerChained /\ NoOverdraft /\ HistoryHasRow
=============================================================================
