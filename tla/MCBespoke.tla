----------------------------- MODULE MCBespoke -----------------------------
(* Two tailors quote for one design; the calls of each behaviour are chosen *)
(* from the mixes below.                                                    *)
EXTENDS Bespoke

CONSTANTS q1, q2, again

\* The second request would ask the first tailor again.
MCVendorOf == [q \in Quote |-> IF q = again THEN q1 ELSE q]

\* The calls: two requests; a draft and two submissions of the first quote; its
\* revision, the cancellation; payments; finalisers; an earlier draft.
Kinds == <<"request", "request", "draft", "submit", "submit", "revise", "cancel",
           "payCard", "payWallet", "payWallet", "finalise", "finalise", "draft">>
MCCall == DOMAIN Kinds
MCOf == [c \in MCCall |-> IF c = 10 THEN q2 ELSE q1]
MCAsked == [c \in MCCall |-> IF c = 1 THEN {q1, q2} ELSE IF c = 2 THEN {again} ELSE {}]
MCBid == [c \in MCCall |-> IF c \in {3, 5} THEN 2 ELSE 1]
MCOffer == [q \in Quote |-> 1]

NoQuotes == [q \in Quote |-> "none"]
Requested == [q \in Quote |-> IF q = again THEN "none" ELSE "pending"]
Quoted == [q \in Quote |-> IF q = again THEN "none" ELSE "submitted"]
Mixed(C, Q) == [calls |-> C, quotes |-> Q]
MCStart == {Mixed({1, 2, 4}, NoQuotes),          \* two requests and a quote
            Mixed({3, 4, 6, 8}, Requested),       \* a draft and a revision beside a payment
            Mixed({3, 4, 8, 13}, Requested),      \* a late draft over a submission
            Mixed({5, 6, 8, 11}, Quoted),         \* a new price for a payment under way
            Mixed({7, 8, 11, 12}, Quoted),        \* one card, finalised twice
            Mixed({8, 10, 11}, Quoted),           \* a card for one, the wallet for the other
            Mixed({7, 9, 10}, Quoted)}            \* both from the wallet
=============================================================================
