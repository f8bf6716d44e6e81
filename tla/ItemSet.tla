------------------------------ MODULE ItemSet -------------------------------
(***************************************************************************)
(* What the users of rbtree.c rely on: a set of items with insert, erase   *)
(* and find, each of which takes effect when it returns, and a delete that *)
(* releases every item before it returns.                                  *)
(***************************************************************************)

CONSTANTS Items, NoItem

VARIABLES
  items,    \* what is in the tree
  request,  \* the call in progress
  answer    \* what the last call returned

vars == <<items, request, answer>>

NoRequest == [op |-> "none", item |-> NoItem]
Requests  == [op : {"insert", "erase", "find"}, item : Items]
                \cup {[op |-> "delete", item |-> NoItem]}

Init == items = {} /\ request = NoRequest /\ answer = NoItem

Call(r) == /\ request = NoRequest /\ request' = r
           /\ answer' = NoItem
           /\ UNCHANGED items

(* Of all items only the one that the call names comes, goes or is found.  *)
Respond ==
  /\ request # NoRequest /\ request' = NoRequest
  /\ CASE request.op = "insert" -> items' = items \cup {request.item} /\ answer' = NoItem
       [] request.op = "erase"  -> items' = items \ {request.item} /\ answer' = NoItem
       [] request.op = "find"   ->
            /\ answer' = IF request.item \in items THEN request.item ELSE NoItem
            /\ UNCHANGED items
       [] OTHER -> items = {} /\ UNCHANGED <<items, answer>>

Release == /\ request.op = "delete"
           /\ \E i \in items : items' = items \ {i}
           /\ UNCHANGED <<request, answer>>

Next == (\E r \in Requests : Call(r)) \/ Respond \/ Release

Spec == Init /\ [][Next]_vars /\ WF_vars(Respond \/ Release)

=============================================================================
