----------------------------- MODULE MCTokenJobs -----------------------------
(* Two or three features asked for at once, by one customer or by a customer
   and a vendor, from purses that pay for some of them only. *)
EXTENDS TokenJobs

CONSTANTS ada, shop, edit, analyze, mask, video, predict, ask, chat, chat2, buy

KindOf(c) ==
    CASE c = edit -> "edit" [] c = analyze -> "analyze" [] c = mask -> "mask"
      [] c = video -> "video" [] c = predict -> "predict" [] c = ask -> "ask"
      [] c \in {chat, chat2} -> "chat" [] OTHER -> "purchase"
MCKind == [c \in Call |-> KindOf(c)]
MCPayer == [c \in Call |-> IF c \in {chat, chat2} THEN shop ELSE ada]
MCPrice == [c \in Call |-> IF c \in {edit, video, buy} THEN 2 ELSE 1]
MCMix == {{edit, video}, {analyze, edit}, {mask, ask},
          {predict, ask, buy}, {chat, chat2}}
MCGrant == 1..2
=============================================================================
