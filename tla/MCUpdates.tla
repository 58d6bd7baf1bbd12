------------------------------ MODULE MCUpdates -------------------------------
(* Instances of Updates for TLC: each world has few rare events, so that the *)
(* sum of small state spaces takes the place of their product.               *)
EXTENDS Updates

Box(seq, pts, qts) == [b \in Boxes |-> CASE b = "seq" -> seq [] b = "pts" -> pts [] OTHER -> qts]
Of(limit, events) == [limit |-> limit, rare |-> events]

SmallWorlds == {
    Of(Box(0, 2, 2), {}),
    Of(Box(4, 1, 0), {}),
    Of(Box(0, 3, 0), {"own", "incomplete"}),
    Of(Box(0, 3, 1), {"slice", "incomplete"}),
    Of(Box(0, 3, 0), {"slice", "error"}),
    Of(Box(0, 3, 0), {"error", "incomplete", "restart"}),
    Of(Box(1, 3, 0), {"tooLong", "resetFails", "restart"})}
=============================================================================
