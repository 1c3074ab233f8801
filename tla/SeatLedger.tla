----------------------------- MODULE SeatLedger -----------------------------
(***************************************************************************)
(* What the admission code promises, with no lock, no database and no      *)
(* step smaller than a decision: every user holds at most one seat, a seat *)
(* is handed out only while one is free, an invitation only while fewer    *)
(* than MaxPending are pending, and a seat is never taken back.            *)
(***************************************************************************)
EXTENDS Naturals, FiniteSets

CONSTANTS Users, Allowed, MaxPending

VARIABLE seat

With(s) == {u \in Users : seat[u] = s}
Taken   == {u \in Users : seat[u] # "none"}

Init == seat \in [Users -> {"none"}]

(* The bot offers u a seat: it is reserved until u connects.               *)
Invite(u) ==
    /\ seat[u] = "none"
    /\ Cardinality(Taken) < Allowed
    /\ Cardinality(With("invited")) < MaxPending
    /\ seat' = [seat EXCEPT ![u] = "invited"]

(* u connects without an invitation.                                       *)
ConnectOpenly(u) ==
    /\ seat[u] = "none"
    /\ Cardinality(Taken) < Allowed
    /\ seat' = [seat EXCEPT ![u] = "connected"]

(* u connects with the seat reserved for it.                               *)
AcceptInvite(u) ==
    /\ seat[u] = "invited"
    /\ seat' = [seat EXCEPT ![u] = "connected"]

Next == \E u \in Users : Invite(u) \/ ConnectOpenly(u) \/ AcceptInvite(u)

Spec == Init /\ [][Next]_seat
=============================================================================
