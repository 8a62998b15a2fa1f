----------------------------- MODULE Storefront -----------------------------
(***************************************************************************)
(* What else changes a product on sale: discounts its price, reservations  *)
(* the yards of a fabric.  The two write different fields and read nothing *)
(* of each other, so a behaviour has calls of one of them only.            *)
(***************************************************************************)
EXTENDS Discounts, FabricReservation

vars == <<discountVars, reservationVars>>

NoDiscounts ==
    /\ discount = [d \in Discount |-> NoDoc]
    /\ product = [p \in Product |-> NoProduct]
    /\ dcall = [c \in DiscountCall |-> CallIn("absent")]
    /\ stops = 0 /\ loose = {} /\ abandoned = {}

NoReservations ==
    /\ stock = Supply
    /\ reservation = [r \in Reservation |-> "none"]
    /\ overdue = {}
    /\ rcall = [c \in ReserveCall |-> ReserveIn("absent")]
    /\ cuts = 0 /\ overtaken = FALSE

Init == (DiscountInit /\ NoReservations) \/ (ReservationInit /\ NoDiscounts)

Next ==
    \/ DiscountNext /\ UNCHANGED reservationVars
    \/ ReservationNext /\ UNCHANGED discountVars

Working ==
    \/ DiscountWorking /\ UNCHANGED reservationVars
    \/ ReserveWorking /\ UNCHANGED discountVars

Spec == Init /\ [][Next]_vars

\* What runs goes on, and the crons come back: they are @Cron methods of every
\* backend instance.  Nobody need make a request.
FairSpec == Spec /\ WF_vars(Working)
=============================================================================
