--------------------------- MODULE MCGraphClient ---------------------------
(* An instance of GraphClient for TLC: every operation, next to one of     *)
(* those that depend on what others did.                                   *)
EXTENDS GraphClient, TLC

CONSTANTS c1, c2

MCCalls == {c1, c2}
MCOpsOf == (c1 :> Operations) @@
           (c2 :> {"CreateOrGetChatForUsers", "UploadToChat", "ListSubscriptions",
                   "UpdateMessage", "GetApp"})
=============================================================================
