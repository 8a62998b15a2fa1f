--------------------------- MODULE MCLatePenalty ---------------------------
(***************************************************************************)
(* The instance of LatePenalty that TLC checks: one order.  Its tailored   *)
(* item has an upfront earning of 9 and a completion earning of 1, costs   *)
(* 20 and may be two days late.  A penalty of one day is 2, of two days 3, *)
(* so that the completion earning never covers it.  Another vendor's item, *)
(* free of charge, matters only by when it is shipped.                     *)
(***************************************************************************)
EXTENDS LatePenalty

CONSTANTS o1, i1, i2, v1, v2

MCOrderOf == [i \in Item |-> o1]
MCVendorOf == [i \in Item |-> IF i = i1 THEN v1 ELSE v2]
MCShare == [e \in Earning |-> CASE e = <<i1, "upfront">> -> 9
                                [] e = <<i1, "completion">> -> 1
                                [] OTHER -> 0]
MCPrice == [s \in Shipment |-> IF s[2] = v1 THEN 20 ELSE 0]
=============================================================================
