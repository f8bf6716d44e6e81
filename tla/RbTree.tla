------------------------------- MODULE RbTree -------------------------------
(***************************************************************************)
(* rbtree.c, the red-black tree behind every handle tree, the notification *)
(* tree and the backup blacklist, with the compare functions of            *)
(* persistence_client_library_tree_helper.c.  One step is one iteration of *)
(* the loop of the operation.                                              *)
(*                                                                         *)
(* Abstractions.  An item is its key.  A node is named by the item it      *)
(* holds: only jsw_rberase moves an item to another node, and there the    *)
(* node is renamed, which no caller can see, since jsw_rbfind hands out    *)
(* items.  Memory is never short.                                          *)
(***************************************************************************)
EXTENDS Integers, FiniteSets

CONSTANTS Items, NULL, Head, SizeRange

ASSUME ItemsAssumption == Items \subseteq Nat /\ IsFiniteSet(Items)
ASSUME NamesAssumption == NULL \notin Items /\ Head \notin Items \cup {NULL}
ASSUME SizeAssumption  == SizeRange \in Nat /\ SizeRange > Cardinality(Items)

VARIABLES
  nodes,    \* allocated nodes
  tree,     \* red and link of the nodes, and link of the false root
  root, size,
  it,       \* the loop variables of the operation
  request, answer,
  clean     \* history: no duplicate was inserted, nothing missing erased

vars == <<nodes, tree, root, size, it, request, answer, clean>>

Dirs == {0, 1}
Leaf == [d \in Dirs |-> NULL]
NewTree == [red  |-> [n \in Items |-> FALSE],
            link |-> [n \in Items \cup {Head} |-> Leaf]]

NoRequest == [op |-> "none", item |-> NULL]
Requests  == [op : {"insert", "erase", "find"}, item : Items]
                \cup {[op |-> "delete", item |-> NULL]}

NoLoop == [t |-> NULL, g |-> NULL, p |-> NULL, q |-> NULL, f |-> NULL,
           dir |-> 0, last |-> 0]

TypeOK ==
  /\ nodes \subseteq Items
  /\ tree \in [red : [Items -> BOOLEAN],
               link : [Items \cup {Head} -> [Dirs -> Items \cup {NULL}]]]
  /\ root \in nodes \cup {NULL}
  /\ size \in 0..SizeRange - 1
  /\ {it.t, it.g, it.p, it.q, it.f} \subseteq nodes \cup {NULL, Head}
  /\ it.dir \in Dirs /\ it.last \in Dirs
  /\ request \in Requests \cup {NoRequest}
  /\ answer \in Items \cup {NULL}
  /\ clean \in BOOLEAN

Init ==
  /\ nodes = {} /\ tree = NewTree /\ root = NULL /\ size = 0
  /\ it = NoLoop /\ request = NoRequest /\ answer = NULL /\ clean = TRUE

-----------------------------------------------------------------------------
(* The compare functions put larger items to the left: link[cmp < 0].      *)
Dir(item, key) == IF key < item THEN 1 ELSE 0

IsRed(T, n) == n \in Items /\ T.red[n]

Link(T, n, d, child) == [T EXCEPT !.link[n][d] = child]

(* The node that a rotation brings to the place of n.                      *)
SingleTop(T, n, d) == T.link[n][1 - d]
DoubleTop(T, n, d) == T.link[T.link[n][1 - d]][d]

(* jsw_single                                                              *)
Single(T, n, d) ==
  LET save == SingleTop(T, n, d)
  IN  [T EXCEPT !.link[n][1 - d] = T.link[save][d], !.link[save][d] = n,
                !.red[n] = TRUE, !.red[save] = FALSE]

(* jsw_double                                                              *)
Double(T, n, d) ==
  LET child == T.link[n][1 - d]
      inner == Single(T, child, 1 - d)
  IN  Single(Link(inner, n, 1 - d, SingleTop(T, child, 1 - d)), n, d)

Black(T, n) == IF n = NULL THEN T ELSE [T EXCEPT !.red[n] = FALSE]

(* An operation returns: the root is taken from the false root and made    *)
(* black.                                                                  *)
Return(T, count) ==
  /\ root' = T.link[Head][1]
  /\ tree' = Link(Black(T, root'), Head, 1, NULL)
  /\ size' = (size + count) % SizeRange
  /\ it' = NoLoop /\ request' = NoRequest

Call(r) ==
  /\ request = NoRequest /\ request' = r /\ answer' = NULL
  /\ tree' = IF r.op \in {"insert", "erase"} THEN Link(tree, Head, 1, root) ELSE tree
  /\ it' = CASE r.op = "insert" -> [NoLoop EXCEPT !.t = Head, !.q = root]
             [] r.op = "erase"  -> [NoLoop EXCEPT !.q = Head, !.dir = 1]
             [] OTHER           -> [NoLoop EXCEPT !.q = root]
  /\ UNCHANGED <<nodes, root, size, clean>>

-----------------------------------------------------------------------------
(* jsw_rbinsert                                                            *)

(* An empty tree: the node becomes the root.                               *)
InsertFirst ==
  /\ request.op = "insert" /\ root = NULL
  /\ nodes' = {request.item}
  /\ Return(Link(tree, Head, 1, request.item), 1)
  /\ UNCHANGED <<answer, clean>>

(* The node of this iteration: a new red one, or the one at hand with its  *)
(* red children flipped.                                                   *)
Grown(key) ==
  IF it.q = NULL
    THEN [Link(tree, it.p, it.dir, key) EXCEPT !.red[key] = TRUE]
    ELSE LET l == tree.link[it.q][0]
             r == tree.link[it.q][1]
         IN  IF IsRed(tree, l) /\ IsRed(tree, r)
               THEN [tree EXCEPT !.red[it.q] = TRUE, !.red[l] = FALSE, !.red[r] = FALSE]
               ELSE tree

(* Mutant: the parent is not looked at, only its child on the old side.    *)
Repaired_SingleOnly(T, q) ==
  IF IsRed(T, q) /\ IsRed(T, it.p)
    THEN LET dir2 == IF T.link[it.t][1] = it.g THEN 1 ELSE 0
             away == 1 - it.last
         IN  Link(Single(T, it.g, away), it.t, dir2, SingleTop(T, it.g, away))
    ELSE T

(* Two red nodes in a row are rotated at the grandparent.                  *)
Repaired(T, q) ==
  IF IsRed(T, q) /\ IsRed(T, it.p)
    THEN LET dir2 == IF T.link[it.t][1] = it.g THEN 1 ELSE 0
             away == 1 - it.last
         IN  IF q = T.link[it.p][it.last]
               THEN Link(Single(T, it.g, away), it.t, dir2, SingleTop(T, it.g, away))
               ELSE Link(Double(T, it.g, away), it.t, dir2, DoubleTop(T, it.g, away))
    ELSE T

InsertStep ==
  /\ request.op = "insert" /\ root # NULL
  /\ LET key == request.item
         q   == IF it.q = NULL THEN key ELSE it.q
         T   == Repaired(Grown(key), q)
         dir == Dir(q, key)
     IN  /\ nodes' = nodes \cup {q}
         /\ IF q = key
              THEN Return(T, 1) /\ clean' = (clean /\ it.q = NULL)
              ELSE /\ tree' = T
                   /\ it' = [it EXCEPT !.t = IF it.g # NULL THEN it.g ELSE @, !.g = it.p,
                                       !.p = q, !.q = T.link[q][dir],
                                       !.dir = dir, !.last = it.dir]
                   /\ UNCHANGED <<root, size, request, clean>>
  /\ UNCHANGED answer

-----------------------------------------------------------------------------
(* jsw_rberase                                                             *)

EraseEmpty ==
  /\ request.op = "erase" /\ root = NULL
  /\ it' = NoLoop /\ request' = NoRequest
  /\ UNCHANGED <<nodes, tree, root, size, answer, clean>>

(* The sibling s lends a red node: rotation at the parent.                 *)
Borrow(T, g, p, q, s, last) ==
  LET dir2 == IF T.link[g][1] = p THEN 1 ELSE 0
      dbl  == IsRed(T, T.link[s][last])
      top  == IF dbl THEN DoubleTop(T, p, last) ELSE SingleTop(T, p, last)
      R    == Link(IF dbl THEN Double(T, p, last) ELSE Single(T, p, last), g, dir2, top)
  IN  [R EXCEPT !.red[q] = TRUE, !.red[top] = TRUE,
                !.red[R.link[top][0]] = FALSE, !.red[R.link[top][1]] = FALSE]

(* A red node is pushed down to q; the result is the tree and the parent.  *)
Pushed(T, g, p, q, dir, last) ==
  LET s    == T.link[p][1 - last]
      away == T.link[q][1 - dir]
  IN  CASE IsRed(T, q) \/ IsRed(T, T.link[q][dir]) -> <<T, p>>
        [] ~ IsRed(T, q) /\ ~ IsRed(T, T.link[q][dir]) /\ IsRed(T, away) ->
             <<Link(Single(T, q, dir), p, last, away), away>>
        [] OTHER ->
             CASE s = NULL -> <<T, p>>
               [] s # NULL /\ ~ IsRed(T, T.link[s][0]) /\ ~ IsRed(T, T.link[s][1]) ->
                    <<[T EXCEPT !.red[p] = FALSE, !.red[s] = TRUE, !.red[q] = TRUE], p>>
               [] OTHER -> <<Borrow(T, g, p, q, s, last), p>>

EraseStep ==
  /\ request.op = "erase" /\ root # NULL
  /\ tree.link[it.q][it.dir] # NULL
  /\ LET q      == tree.link[it.q][it.dir]
         dir    == Dir(q, request.item)
         pushed == Pushed(tree, it.p, it.q, q, dir, it.dir)
     IN  /\ tree' = pushed[1]
         /\ it' = [it EXCEPT !.g = it.p, !.p = pushed[2], !.q = q, !.dir = dir,
                             !.f = IF q = request.item THEN q ELSE @]
  /\ UNCHANGED <<nodes, root, size, request, answer, clean>>

(* q is cut out of the tree.                                               *)
CutOut(T, p, q) ==
  Link(T, p, IF T.link[p][1] = q THEN 1 ELSE 0,
       T.link[q][IF T.link[q][0] = NULL THEN 1 ELSE 0])

(* The node f goes on under the name of the item q that it now holds.      *)
Renamed(T, f, q) ==
  LET new(n) == IF n = f THEN q ELSE n
  IN  [red  |-> [n \in Items |-> IF n = q THEN T.red[f] ELSE n # f /\ T.red[n]],
       link |-> [n \in Items \cup {Head} |->
                   IF n = f /\ f # q THEN Leaf
                   ELSE [d \in Dirs |-> new(T.link[IF n = q THEN f ELSE n][d])]]]

Freed(T, n) == [T EXCEPT !.red[n] = FALSE, !.link[n] = Leaf]

(* Mutant: the node of the item, not the last one of the path, is cut out. *)
EraseEnd_WrongNode ==
  /\ request.op = "erase" /\ root # NULL
  /\ tree.link[it.q][it.dir] = NULL
  /\ IF it.f = NULL
       THEN Return(tree, -1) /\ UNCHANGED nodes
       ELSE Return(Freed(CutOut(tree, it.p, it.q), it.q), -1) /\ nodes' = nodes \ {it.q}
  /\ clean' = (clean /\ it.f # NULL)
  /\ UNCHANGED answer

EraseEnd ==
  /\ request.op = "erase" /\ root # NULL
  /\ tree.link[it.q][it.dir] = NULL
  /\ IF it.f = NULL
       THEN Return(tree, -1) /\ UNCHANGED nodes
       ELSE /\ LET T == CutOut(tree, it.p, it.q)
               IN  Return(IF it.f = it.q THEN Freed(T, it.q) ELSE Renamed(T, it.f, it.q), -1)
            /\ nodes' = nodes \ {it.f}
  /\ clean' = (clean /\ it.f # NULL)
  /\ UNCHANGED answer

-----------------------------------------------------------------------------
(* jsw_rbfind                                                              *)
FindStep ==
  /\ request.op = "find"
  /\ IF it.q \in {NULL, request.item}
       THEN /\ answer' = it.q /\ it' = NoLoop /\ request' = NoRequest
       ELSE /\ it' = [it EXCEPT !.q = tree.link[it.q][Dir(it.q, request.item)]]
            /\ UNCHANGED <<answer, request>>
  /\ UNCHANGED <<nodes, tree, root, size, clean>>

(* jsw_rbdelete, and jsw_rbnew at the next use: left links are rotated     *)
(* away, a node without one is released.                                   *)
DeleteStep ==
  /\ request.op = "delete" /\ it.q # NULL
  /\ LET l == tree.link[it.q][0]
     IN  IF l = NULL
           THEN /\ it' = [it EXCEPT !.q = tree.link[it.q][1]]
                /\ tree' = Freed(tree, it.q) /\ nodes' = nodes \ {it.q}
           ELSE /\ it' = [it EXCEPT !.q = l]
                /\ tree' = Link(Link(tree, it.q, 0, tree.link[l][1]), l, 1, it.q)
                /\ UNCHANGED nodes
  /\ root' = NULL
  /\ UNCHANGED <<size, request, answer, clean>>

DeleteEnd ==
  /\ request.op = "delete" /\ it.q = NULL
  /\ tree' = NewTree /\ root' = NULL /\ size' = 0 /\ clean' = TRUE
  /\ it' = NoLoop /\ request' = NoRequest
  /\ UNCHANGED <<nodes, answer>>

Step == InsertFirst \/ InsertStep \/ EraseEmpty \/ EraseStep \/ EraseEnd
          \/ FindStep \/ DeleteStep \/ DeleteEnd

Next == (\E r \in Requests : Call(r)) \/ Step

Spec == Init /\ [][Next]_vars /\ WF_vars(Step)

-----------------------------------------------------------------------------
(* Properties                                                              *)

RECURSIVE Below(_)
Below(n) == IF n = NULL THEN {} ELSE {n} \cup Below(tree.link[n][0]) \cup Below(tree.link[n][1])

RECURSIVE BlackHeight(_)
BlackHeight(n) ==
  IF n = NULL THEN 0
  ELSE BlackHeight(tree.link[n][0]) + (IF tree.red[n] THEN 0 ELSE 1)

Idle == request = NoRequest

(* Between operations no node is lost and every node has the smaller items *)
(* on its right and the larger ones on its left, so that jsw_rbfind can    *)
(* trust the direction it takes.                                           *)
Ordered ==
  Idle => /\ Below(root) = nodes
          /\ \A n \in nodes : /\ \A m \in Below(tree.link[n][0]) : m > n
                              /\ \A m \in Below(tree.link[n][1]) : m < n

(* Between operations the tree is a red-black tree: black root, no red     *)
(* node below a red one, the same number of black nodes on every path.     *)
(* Insert and erase rely on it when they dereference siblings and nephews. *)
RedBlack ==
  Idle => /\ ~ IsRed(tree, root)
          /\ \A n \in nodes :
               /\ tree.red[n] => \A d \in Dirs : ~ IsRed(tree, tree.link[n][d])
               /\ BlackHeight(tree.link[n][0]) = BlackHeight(tree.link[n][1])

(* jsw_rbsize is the number of nodes as long as duplicates are not         *)
(* inserted and only present items are erased.                             *)
SizeIsCount == (Idle /\ clean) => size = Cardinality(nodes)

(* The tree is a red-black search tree with the right size.                *)
IsRedBlackTree == TypeOK /\ Ordered /\ RedBlack /\ SizeIsCount

(* What the comment of jsw_rbsize says.                                    *)
SizeDocumented == Idle => size = Cardinality(nodes)

(* The tree is the set that its users take it for, and every operation on  *)
(* it ends.                                                                *)
Set == INSTANCE ItemSet WITH items <- nodes, NoItem <- NULL
ImplementsItemSet == Set!Spec

=============================================================================
