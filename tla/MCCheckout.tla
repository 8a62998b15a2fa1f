----------------------------- MODULE MCCheckout -----------------------------
(* One customer buys a coat sewn from the shop's fabric and a length of the *)
(* same fabric; the wallet covers one of the two.                           *)
EXTENDS Checkout

CONSTANTS coat, cloth, ada, coatM, yards

L(k, n) == [sku |-> k, n |-> n]

MCOrder == {coat, cloth}
MCCustomerOf == [o \in MCOrder |-> ada]
MCSku == {coatM, yards}
CoatItem == [fabric |-> <<>>, accessory |-> <<>>,
             color |-> <<L(coatM, 1)>>, applied |-> <<L(yards, 3)>>]
ClothItem == [fabric |-> <<L(yards, 1), L(yards, 1)>>, accessory |-> <<>>,
              color |-> <<>>, applied |-> <<>>]
MCItems == [o \in MCOrder |-> IF o = coat THEN <<CoatItem>> ELSE <<ClothItem>>]
MCTotal == [o \in MCOrder |-> IF o = coat THEN 2 ELSE 1]
MCBalance == [c \in {ada} |-> 2]
Start(c, l, n) ==
    [method |-> [o \in MCOrder |-> IF o = coat THEN c ELSE l],
     stock |-> [k \in MCSku |-> IF k = coatM THEN 1 ELSE n]]
WalletFirst == {Start("wallet", "wallet", 5), Start("wallet", "card", 4)}
=============================================================================
