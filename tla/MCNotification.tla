--------------------------- MODULE MCNotification ---------------------------
(* Notification for TLC: shared resources of three names, and x2, of the   *)
(* same name as x1 in another group.  The group is not in the dbKey.       *)
EXTENDS Notification

CONSTANTS x1, x2, y1, z1

MCResources == {x1, y1, z1}
SameName    == {x1, x2}
MCHash      == [r \in Resources |-> CASE r \in {x1, x2} -> 1 [] r = y1 -> 2 [] OTHER -> 3]

=============================================================================
