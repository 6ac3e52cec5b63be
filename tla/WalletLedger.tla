---------------------------- MODULE WalletLedger ----------------------------
(***************************************************************************)
(* The two tables every wallet of the panel is made of: a balance column   *)
(* (Admin.credit, Customer.credit) and an append-only ledger (WalletTx,    *)
(* CustomerWalletTx) whose rows carry the signed amount and the balance    *)
(* the row left behind.  The ledger is kept per account, in commit order:  *)
(* a transaction that moves a balance holds that balance's row lock until  *)
(* it commits, so the rows of one account are ordered.                     *)
(***************************************************************************)
EXTENDS Integers, Sequences

CONSTANTS Accounts,   \* wallets (customers, or reseller accounts)
          Refs        \* what a row was written for: its kind and (refType, refId)

VARIABLES credit,     \* credit[a]: the balance column
          ledger      \* ledger[a]: the rows of account a, oldest first

Rows == [ref : Refs, amount : Int, balanceAfter : Int]

LedgerTypeOK == /\ credit \in [Accounts -> Int]
                /\ ledger \in [Accounts -> Seq(Rows)]

\* Both balance columns default to 0 and a new account has no rows.
LedgerInit == /\ credit = [a \in Accounts |-> 0]
              /\ ledger = [a \in Accounts |-> << >>]

\* One committed transaction: the balance column and the row beside it.
Post(a, balance, amount, ref) ==
  /\ credit' = [credit EXCEPT ![a] = balance]
  /\ ledger' = [ledger EXCEPT ![a] =
                  Append(@, [ref |-> ref, amount |-> amount, balanceAfter |-> balance])]

RowsFor(a, ref) == {i \in DOMAIN ledger[a] : ledger[a][i].ref = ref}

BalanceBefore(rows, i) == IF i = 1 THEN 0 ELSE rows[i - 1].balanceAfter

(***************************************************************************)
(* The balance column is what the newest ledger row says it left behind.   *)
(***************************************************************************)
CreditIsLastBalance ==
  \A a \in Accounts : credit[a] = BalanceBefore(ledger[a], Len(ledger[a]) + 1)

(***************************************************************************)
(* Every row continues from the row before it: no movement is lost, so the *)
(* ledger adds up to the balance (with CreditIsLastBalance).               *)
(***************************************************************************)
RowsAddUp ==
  \A a \in Accounts : \A i \in 1 .. Len(ledger[a]) :
    ledger[a][i].balanceAfter = BalanceBefore(ledger[a], i) + ledger[a][i].amount
=============================================================================
