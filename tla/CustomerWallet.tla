--------------------------- MODULE CustomerWallet ---------------------------
(***************************************************************************)
(* The storefront customer's wallet (services/customers.ts):               *)
(* creditCustomerWallet, debitCustomerWallet and the seller's manual       *)
(* adjustment.  PostgreSQL runs these transactions at READ COMMITTED: the  *)
(* debit reads the balance in one statement and decrements it in another,  *)
(* and other transactions may commit in between.  The increment and the    *)
(* decrement themselves are single UPDATE statements on the current row.   *)
(***************************************************************************)
EXTENDS WalletLedger

CONSTANTS Procs,      \* requests that may be in flight together
          Amounts,    \* positive amounts a call may move
          MaxRows     \* bound: rows per account

ASSUME AmountsPositive == Amounts \subseteq {n \in Int : n > 0}
ASSUME MaxRowsNat == MaxRows \in Nat

VARIABLES debit       \* debit[p]: the debits p has checked and not yet made (0 or 1)

walletVars == <<credit, ledger, debit>>

Debits == [acct : Accounts, amount : Amounts, ref : Refs]

TypeOK == LedgerTypeOK /\ debit \in [Procs -> SUBSET Debits]

Init == LedgerInit /\ debit = [p \in Procs |-> {}]

\* UPDATE ... SET credit = credit + amount, the ledger row and the commit.
creditCustomerWallet(p, c, n, ref) ==
  /\ debit[p] = {}
  /\ Len(ledger[c]) < MaxRows
  /\ Post(c, credit[c] + n, n, ref)
  /\ UNCHANGED debit

\* The debit's first statement: SELECT the balance; too little money throws.
debitCustomerWalletCheck(p, c, n, ref) ==
  /\ debit[p] = {}
  /\ credit[c] >= n
  /\ debit' = [debit EXCEPT ![p] = {[acct |-> c, amount |-> n, ref |-> ref]}]
  /\ UNCHANGED <<credit, ledger>>

\* Mutant of debitCustomerWalletTake: the row records the amount unsigned.
debitTakeUnsigned(p) == \E d \in debit[p] :
  /\ Len(ledger[d.acct]) < MaxRows
  /\ Post(d.acct, credit[d.acct] - d.amount, d.amount, d.ref)
  /\ debit' = [debit EXCEPT ![p] = {}]

\* The debit's second statement: SET credit = credit - amount, row, commit.
debitCustomerWalletTake(p) == \E d \in debit[p] :
  /\ Len(ledger[d.acct]) < MaxRows
  /\ Post(d.acct, credit[d.acct] - d.amount, -d.amount, d.ref)
  /\ debit' = [debit EXCEPT ![p] = {}]

\* The request or its connection dies: the open transaction rolls back.
debitRollback(p) ==
  /\ debit[p] # {}
  /\ debit' = [debit EXCEPT ![p] = {}]
  /\ UNCHANGED <<credit, ledger>>

Next == \E p \in Procs :
  \/ \E c \in Accounts, n \in Amounts, ref \in Refs :
       creditCustomerWallet(p, c, n, ref) \/ debitCustomerWalletCheck(p, c, n, ref)
  \/ debitCustomerWalletTake(p)
  \/ debitRollback(p)

Spec == Init /\ [][Next]_walletVars
=============================================================================
