---------------------------- MODULE MCStorefront ----------------------------
(* One product with two discounts to come and go; one fabric with two      *)
(* reservations.  The calls of each behaviour are chosen from the mixes.   *)
EXTENDS Storefront

CONSTANTS d1, d2, p1, suit, cap, r1, r2

\* Which of the two is the better one depends on the base price.
Fixed == [unit |-> "fixed", value |-> 3]
Half == [unit |-> "percentage", value |-> 50]
MCOffer == {[phase |-> "open", terms |-> Fixed, wanted |-> {suit}],
            [phase |-> "before", terms |-> Half, wanted |-> {suit, cap}]}
MCGoods == {[base |-> 4, trait |-> suit], [base |-> 8, trait |-> cap]}
MCSale == {{"create", "update"}, {"create", "upsert"}, {"upsert", "update", "delete"},
           {"include", "exclude"}, {"include", "update", "delete"},
           {"update", "refresh"}, {"upsert", "refresh"}, {"include", "refresh"},
           {"delete", "refresh"}}

\* Two calls that reserve, two cancellations, two crons and two sales.
MCEndpoints == <<"reserve", "reserve", "cancel", "cancel", "expire", "expire", "buy", "buy">>
MCReserveCall == DOMAIN MCEndpoints
MCAbout == [c \in MCReserveCall |-> IF c \in {2, 6} THEN r2 ELSE r1]
MCYards == [c \in MCReserveCall |-> IF c = 8 THEN 2 ELSE 1]
MCTotal == [r \in Reservation |-> 2]
Mixed(C, M) == [calls |-> C, made |-> M]
MCEvent == {Mixed({1, 2, 7, 8}, {}),        \* more is wanted than there is
            Mixed({1, 3, 4, 5}, {}),        \* made, cancelled twice and expired
            Mixed({3, 4, 5, 7}, {r1}),      \* three closers of one, and a sale
            Mixed({3, 5, 6, 8}, {r1, r2}),  \* the cron finds two
            Mixed({1, 5, 6, 7}, {r2})}      \* a reservation beside the cron
=============================================================================
