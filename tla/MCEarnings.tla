----------------------------- MODULE MCEarnings -----------------------------
(***************************************************************************)
(* The instance of Earnings that TLC checks: one order of one vendor, with *)
(* a tailored item split into an upfront and a completion earning, and a   *)
(* ready-made item.                                                        *)
(***************************************************************************)
EXTENDS Earnings

CONSTANTS o1, i1, i2, v1

MCOrderOf == [i \in Item |-> o1]
MCVendorOf == [i \in Item |-> v1]
MCShare == [e \in Earning |->
              CASE e = <<i1, "upfront">> -> 1
                [] e = <<i1, "completion">> -> 2
                [] e = <<i2, "upfront">> -> 0
                [] e = <<i2, "completion">> -> 1]
=============================================================================
