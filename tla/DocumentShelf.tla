---------------------------- MODULE DocumentShelf ----------------------------
(***************************************************************************)
(* What the attachments promise their readers: a document is put on the    *)
(* shelf at once and whole, for one entity; it stays as it was put until   *)
(* it is taken off at once, and then it never comes back; a reader who     *)
(* found it misses it only after that.                                     *)
(***************************************************************************)
CONSTANTS Attachment, Entity, None
VARIABLES shelf, missed

shelfVars == <<shelf, missed>>

On(e, content) == [place |-> "shelf", entity |-> e, content |-> content]
Absent(place) == [place |-> place, entity |-> None, content |-> "none"]
New == Absent("new")
Gone == Absent("gone")

Init ==
    /\ shelf = [a \in Attachment |-> New]
    /\ missed = {}

Put(a, e) ==
    /\ shelf[a] = New
    /\ shelf' = [shelf EXCEPT ![a] = On(e, "whole")]
    /\ UNCHANGED missed

TakeOff(a) ==
    /\ shelf[a].place = "shelf"
    /\ shelf' = [shelf EXCEPT ![a] = Gone]
    /\ UNCHANGED missed

Miss(a) ==
    /\ shelf[a] = Gone
    /\ missed' = missed \cup {a}
    /\ UNCHANGED shelf

Next ==
    \E a \in Attachment :
        TakeOff(a) \/ Miss(a) \/ (\E e \in Entity : Put(a, e))

Spec == Init /\ [][Next]_shelfVars
=============================================================================
