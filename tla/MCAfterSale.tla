---------------------------- MODULE MCAfterSale ----------------------------
(***************************************************************************)
(* The instance of AfterSale that TLC checks: one delivered order with one *)
(* tailored item, so two earnings of one vendor, one release run, and one  *)
(* of the mixes of calls below.                                            *)
(***************************************************************************)
EXTENDS AfterSale

CONSTANTS o1, i1, v1

MCOrderOf == [i \in Item |-> o1]
MCVendorOf == [i \in Item |-> v1]
MCCarried == [v \in Vendor |-> 2]
MCShare == [e \in Earning |-> IF e[2] = "upfront" THEN 0 ELSE 2]

MCCall == {"file", "file2", "flag", "respond", "refundAll", "refundAll2", "refundPart",
           "favourVendor", "request", "approve", "reject", "receive", "receive2"}
MCKind == [c \in MCCall |-> CASE c = "file2" -> "file"
                              [] c = "refundAll2" -> "refundAll"
                              [] c = "receive2" -> "receive"
                              [] OTHER -> c]
MCAbout == [c \in MCCall |-> <<o1, v1>>]

\* Two disputes filed at once; an answer beside a decision; two decisions of one
\* dispute; a return beside a dispute; a return received twice.
MCMix == {{"file", "file2", "favourVendor"},
          {"flag", "respond", "refundAll", "refundPart"},
          {"flag", "refundAll", "refundAll2"},
          {"file", "refundPart", "request", "reject"},
          {"file", "refundAll", "request", "approve", "receive"},
          {"request", "approve", "reject", "receive"},
          {"request", "approve", "receive", "receive2"}}
=============================================================================
