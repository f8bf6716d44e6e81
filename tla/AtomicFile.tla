----------------------------- MODULE AtomicFile -----------------------------
(***************************************************************************)
(* What the backups of a file promise: a session takes effect as a whole,  *)
(* when it is closed, or not at all, if the process dies.                  *)
(*                                                                         *)
(* The promise is kept for a trusted file, one that is backed up and whose *)
(* backups have not failed since the last close.  A session that starts    *)
(* from an empty file may find there what an earlier one has written.  A   *)
(* file that is gone was removed by the application, or was found corrupt. *)
(***************************************************************************)

CONSTANTS
  Contents, Empty, \* what a file may hold
  None             \* there is no file, no descriptor

VARIABLES
  content,  \* what the sessions that were closed have left, or None
  view,     \* what the descriptor shows, or None
  trusted

vars == <<content, view, trusted>>

FileContents == Contents \cup {Empty}

Init == content \in FileContents \cup {None} /\ view = None /\ trusted \in BOOLEAN

(* A session starts from what the last one left, unless its recovery fails.*)
Open ==
  /\ view = None /\ content # None
  /\ view' \in FileContents /\ content' = view'
  /\ trusted' \in {trusted, FALSE}
  /\ trusted' /\ content # Empty => view' = content

(* A file that is not there is created and filled with its default data;   *)
(* the process may die over it.                                            *)
Create ==
  /\ view = None /\ content = None
  /\ content' \in FileContents /\ view' \in {content', None}
  /\ UNCHANGED trusted

(* What is written is not in effect yet.                                   *)
Write ==
  /\ view # None /\ view' \in FileContents
  /\ UNCHANGED <<content, trusted>>

(* Now it is, unless the file was removed while it was open.               *)
Close ==
  /\ view # None /\ view' = None
  /\ content' = IF content = None THEN None ELSE view
  /\ trusted' \in BOOLEAN

Crash ==
  /\ view # None /\ view' = None
  /\ UNCHANGED <<content, trusted>>

(* The file goes; an open descriptor keeps showing it.                     *)
Remove ==
  /\ content # None /\ content' = None
  /\ UNCHANGED <<view, trusted>>

(* A backup, or the removal of one, fails.                                 *)
Fail ==
  /\ trusted' = FALSE
  /\ UNCHANGED <<content, view>>

(* Nothing of a file that is gone can be wrong.                            *)
Forget ==
  /\ view = None /\ content = None
  /\ trusted' \in BOOLEAN
  /\ UNCHANGED <<content, view>>

Next == Open \/ Create \/ Write \/ Close \/ Crash \/ Remove \/ Fail \/ Forget

Spec == Init /\ [][Next]_vars

=============================================================================
