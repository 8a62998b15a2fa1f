-------------------------- MODULE FabricReservation --------------------------
(***************************************************************************)
(* Yards of one fabric that organizers reserve for an event: a reservation *)
(* takes its yards out of the stock at once, and they go back when the     *)
(* organizer cancels or the hourly cron expires it.  Beside it the fabric  *)
(* is sold as usual.                                                       *)
(*                                                                         *)
(* A reservation's fee and a guest's claim begin with an order whose type, *)
(* 'reservation' or 'reservation_claim', the order schema refuses.  So     *)
(* createReservation always ends in an error once its reservation is       *)
(* stored, and claimFromReservation ends in one before it wrote anything:  *)
(* no fee is ever asked for, nothing is ever claimed, and a claim is no    *)
(* step here.                                                              *)
(*                                                                         *)
(* Both the stock and the reservation are loaded, changed and saved        *)
(* without a look at what is stored by then.                               *)
(***************************************************************************)
EXTENDS Integers, FiniteSets, Functions

CONSTANTS
    Reservation,
    Total,        \* Total[r]: the yards a reservation asks for
    ReserveCall,  \* calls of the endpoints, runs of the cron and sales
    Endpoint,     \* Endpoint[c]: which of them
    About,        \* About[c]: the reservation it is about
    Yards,        \* Yards[c]: the yards a sale takes
    MinCut,       \* fabric.min_cut
    Supply,       \* the yards in stock at first
    Event,        \* the calls and reservations a behaviour begins with
    MaxCuts       \* bound on the calls an instance leaves unfinished

Endpoints == {"reserve", "cancel", "expire", "buy"}
ReservationStatus == {"none", "active", "expired", "cancelled"}

\* What the reservations that exist at first have taken out of the stock.
TakenAtFirst(event) == SumFunctionOnSet(Total, event.made)

\* A call that reserves makes a reservation of its own.
ASSUME ReservationAssumption ==
    /\ IsFiniteSet(Reservation) /\ IsFiniteSet(ReserveCall)
    /\ Total \in [Reservation -> Nat]
    /\ Endpoint \in [ReserveCall -> Endpoints]
    /\ About \in [ReserveCall -> Reservation]
    /\ Yards \in [ReserveCall -> Nat]
    /\ MinCut \in Nat /\ Supply \in Nat /\ MaxCuts \in Nat
    /\ \A c, d \in ReserveCall :
         Endpoint[c] = "reserve" /\ Endpoint[d] = "reserve" /\ About[c] = About[d] => c = d
    /\ Event \subseteq [calls: SUBSET ReserveCall, made: SUBSET Reservation]
    /\ \A e \in Event : TakenAtFirst(e) \in 0..Supply

VARIABLES
    stock,        \* fabric.yard_length
    reservation,  \* the status of each FabricReservation document
    overdue,      \* reservations whose deadline has passed
    rcall,        \* local state of each call
    cuts,         \* how many calls were left unfinished so far
    overtaken     \* history: a save or a stop left stock and documents apart

reservationVars == <<stock, reservation, overdue, rcall, cuts, overtaken>>

ReservePC == {"absent", "ready", "lock", "record", "stock", "release", "close",
              "done", "refused", "failed"}

\* A call's place, its copy of the stock and the status it found.
ReserveState == [pc: ReservePC, yards: Int, found: ReservationStatus]

ReservationTypeOK ==
    /\ stock \in Int
    /\ reservation \in [Reservation -> ReservationStatus]
    /\ overdue \subseteq Reservation
    /\ rcall \in [ReserveCall -> ReserveState]
    /\ cuts \in Nat
    /\ overtaken \in BOOLEAN

ReserveIn(pc) == [pc |-> pc, yards |-> 0, found |-> "none"]

ReservationInit ==
    /\ \E e \in Event :
         /\ rcall = [c \in ReserveCall |-> ReserveIn(IF c \in e.calls THEN "ready" ELSE "absent")]
         /\ reservation = [r \in Reservation |-> IF r \in e.made THEN "active" ELSE "none"]
         /\ stock = Supply - TakenAtFirst(e)
    /\ overdue = {}
    /\ cuts = 0 /\ overtaken = FALSE

-----------------------------------------------------------------------------
AtCall(c, pc, endpoints) == rcall[c].pc = pc /\ Endpoint[c] \in endpoints
Moves(c, pc) == rcall' = [rcall EXCEPT ![c].pc = pc]
Finishes(c, pc) == rcall' = [rcall EXCEPT ![c] = ReserveIn(pc)]
Status(c) == reservation[About[c]]
Notes(condition) == overtaken' = (overtaken \/ condition)

\* product.save() with a yard_length computed from the copy.
SaveStock(c, yards) ==
    /\ stock' = yards
    /\ Notes(stock # rcall[c].yards)

-----------------------------------------------------------------------------
(* createReservation                                                       *)

ReserveLoad(c) ==
    LET wanted == Total[About[c]] IN
    /\ AtCall(c, "ready", {"reserve"})
    /\ Status(c) = "none"
    /\ IF stock < wanted \/ wanted < MinCut THEN Finishes(c, "refused")
       ELSE rcall' = [rcall EXCEPT ![c].pc = "lock", ![c].yards = stock]
    /\ UNCHANGED <<stock, reservation, overdue, cuts, overtaken>>

\* The yards leave the stock before the reservation exists, and before its fee
\* is paid.
ReserveLock(c) ==
    /\ AtCall(c, "lock", {"reserve"})
    /\ SaveStock(c, rcall[c].yards - Total[About[c]])
    /\ Moves(c, "record")
    /\ UNCHANGED <<reservation, overdue, cuts>>

\* The reservation is stored.  The order of its fee is refused: the organizer
\* gets an error, the reservation stays active and keeps its yards.
ReserveRecord(c) ==
    /\ AtCall(c, "record", {"reserve"})
    /\ reservation' = [reservation EXCEPT ![About[c]] = "active"]
    /\ Finishes(c, "failed")
    /\ UNCHANGED <<stock, overdue, cuts, overtaken>>

-----------------------------------------------------------------------------
(* cancelReservation and releaseExpiredReservations                        *)

Closing == {"cancel", "expire"}

\* Mutation: the status is not asked.
ClosableTwice(c) ==
    /\ Status(c) # "none"
    /\ Endpoint[c] = "expire" => About[c] \in overdue

\* Mutation: the query's comparison is turned round.
ClosableAhead(c) ==
    /\ Status(c) = "active"
    /\ Endpoint[c] = "expire" => About[c] \notin overdue

\* The organizer cancels an active reservation, the cron's query finds those
\* that are past their deadline.
Closable(c) ==
    /\ Status(c) = "active"
    /\ Endpoint[c] = "expire" => About[c] \in overdue

\* The status a closed reservation gets.
Closed(c) == IF Endpoint[c] = "cancel" THEN "cancelled" ELSE "expired"

\* A refused cancellation changes nothing; a cron run without a find is left
\* out.  Nothing was claimed: all of a reservation's yards go back.
CloseLoad(c) ==
    /\ AtCall(c, "ready", Closing)
    /\ \/ /\ Closable(c)
          /\ rcall' = [rcall EXCEPT ![c].pc = IF Total[About[c]] > 0 THEN "stock" ELSE "close",
                                    ![c].found = Status(c)]
       \/ ~Closable(c) /\ Endpoint[c] = "cancel" /\ Finishes(c, "refused")
    /\ UNCHANGED <<stock, reservation, overdue, cuts, overtaken>>

CloseStock(c) ==
    /\ AtCall(c, "stock", Closing)
    /\ rcall' = [rcall EXCEPT ![c].pc = "release", ![c].yards = stock]
    /\ UNCHANGED <<stock, reservation, overdue, cuts, overtaken>>

CloseRelease(c) ==
    /\ AtCall(c, "release", Closing)
    /\ SaveStock(c, rcall[c].yards + Total[About[c]])
    /\ Moves(c, "close")
    /\ UNCHANGED <<reservation, overdue, cuts>>

\* The cron comes back every hour, a cancellation does not.
CloseSave(c) ==
    /\ AtCall(c, "close", Closing)
    /\ reservation' = [reservation EXCEPT ![About[c]] = Closed(c)]
    /\ Notes(Status(c) # rcall[c].found)
    /\ Finishes(c, IF Endpoint[c] = "cancel" THEN "done" ELSE "ready")
    /\ UNCHANGED <<stock, overdue, cuts>>

-----------------------------------------------------------------------------
\* A paid order of the fabric: updateInventory takes its yards in a database
\* transaction, or fails for want of stock.
Buy(c) ==
    /\ AtCall(c, "ready", {"buy"})
    /\ IF stock >= Yards[c]
       THEN stock' = stock - Yards[c] /\ Finishes(c, "done")
       ELSE UNCHANGED stock /\ Finishes(c, "refused")
    /\ UNCHANGED <<reservation, overdue, cuts, overtaken>>

Deadline(r) ==
    /\ reservation[r] # "none" /\ r \notin overdue
    /\ overdue' = overdue \cup {r}
    /\ UNCHANGED <<stock, reservation, rcall, cuts, overtaken>>

\* Where a call has written one of two things that belong together.
Halfway == {"record", "close"}

\* The instance stops, or a database call fails: the cron logs that and comes
\* back.
ReserveCrash(c) ==
    /\ cuts < MaxCuts
    /\ rcall[c].pc \notin {"absent", "ready", "done", "refused", "failed"}
    /\ cuts' = cuts + 1
    /\ Notes(rcall[c].pc \in Halfway)
    /\ Finishes(c, IF Endpoint[c] = "expire" THEN "ready" ELSE "failed")
    /\ UNCHANGED <<stock, reservation, overdue>>

-----------------------------------------------------------------------------
ReserveRequest == \E c \in ReserveCall :
    ReserveLoad(c) \/ Buy(c) \/ (Endpoint[c] = "cancel" /\ CloseLoad(c))

ReserveWorking == \E c \in ReserveCall :
    \/ ReserveLock(c) \/ ReserveRecord(c)
    \/ Endpoint[c] = "expire" /\ CloseLoad(c)
    \/ CloseStock(c) \/ CloseRelease(c) \/ CloseSave(c)

ReservationNext ==
    \/ ReserveRequest \/ ReserveWorking
    \/ \E c \in ReserveCall : ReserveCrash(c)
    \/ \E r \in Reservation : Deadline(r)

-----------------------------------------------------------------------------
(* Properties                                                              *)

AtRest == {"absent", "ready", "done", "refused", "failed"}
Idling == \A c \in ReserveCall : rcall[c].pc \in AtRest

Active == {r \in Reservation : reservation[r] = "active"}
Sales == {c \in ReserveCall : Endpoint[c] = "buy" /\ rcall[c].pc = "done"}

\* Although every call that reserves ends in an error, no yards are lost or
\* doubled by it: every yard is in stock, held by an active reservation or sold,
\* unless a call wrote over a change it had not seen or stopped between two
\* writes (cancelReservation: "Release unclaimed yards back").
YardsAccountedFor ==
    Idling /\ ~overtaken =>
      stock + SumFunctionOnSet(Total, Active) + SumFunctionOnSet(Yards, Sales) = Supply

\* A reservation past its deadline does not stay active, where the cron runs:
\* also the yards whose organizer was told that the reservation failed come back
\* (the cron's "Auto-Release Expired Reservations").
OverdueIsClosed ==
    \A c \in ReserveCall :
      Endpoint[c] = "expire" /\ rcall[c].pc # "absent" =>
      ((About[c] \in overdue /\ Status(c) = "active") ~> Status(c) # "active")
=============================================================================
