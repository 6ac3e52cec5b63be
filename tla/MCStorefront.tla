---------------------------- MODULE MCStorefront ----------------------------
EXTENDS Storefront, TLC

CONSTANTS s1, s2, c1

Term(f, m) == [flow |-> f, method |-> m]
PaidMethods == {"USDT", "CARD", "ZARINPAL"}

OrderTerms == {Term("order", m) : m \in Methods}
TopupTerms == {Term(f, m) : f \in {"resellerTopup", "customerTopup"}, m \in PaidMethods}
AllTerms == OrderTerms \union TopupTerms
WalletOrders == {Term("order", "WALLET")}
CustomerTopups == {Term("customerTopup", "CARD")}
CardAndWalletOrders == {Term("order", "CARD"), Term("order", "WALLET")}
MixedTerms == {Term("order", "WALLET"), Term("order", "ZARINPAL"), Term("customerTopup", "USDT"),
               Term("resellerTopup", "CARD")}
UsdtOrders == {Term("order", "USDT")}

OneBuyer == [i \in Sales |-> c1]
MCRefs == SaleRefs
WebSymmetry == Permutations(Web)
SaleSymmetry == Permutations(Sales)
=============================================================================
