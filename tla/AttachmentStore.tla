-------------------------- MODULE AttachmentStore --------------------------
(***************************************************************************)
(* Documents attached to units, partners, runs and the like: a row in the   *)
(* database and a file on disk for each, written and removed in an order    *)
(* that leaves a file without a row when something fails in between, and    *)
(* never a row without its file.                                            *)
(***************************************************************************)
EXTENDS FiniteSets

CONSTANTS
    Attachment,   \* the ids, each used once
    Entity,       \* what documents are attached to
    Caller,       \* the requests that may be in progress at once
    None

ASSUME StoreAssumption == None \notin Entity

VARIABLES
    row,          \* row[a]: the entity that attachment a belongs to, None while it has no row
    file,         \* file[a]: what the disk holds of it
    call,         \* call[r]: the attachment and the entity of a request in progress
    used,         \* history: the attachments that were ever begun
    failed,       \* history: those of which a step failed or was cut short
    removed,      \* history: those whose row was deleted
    broken        \* history: those of which a download found the row and not the file

storeVars == <<row, file, call, used, failed, removed, broken>>

Idle == [pc |-> "idle"]
InProgress == [pc : {"write", "insert", "open", "delete", "unlink"},
               attachment : Attachment, entity : Entity]

StoreTypeOK ==
    /\ row \in [Attachment -> Entity \cup {None}]
    /\ file \in [Attachment -> {"none", "partial", "whole"}]
    /\ call \in [Caller -> InProgress \cup {Idle}]
    /\ \A s \in {used, failed, removed, broken} : s \subseteq Attachment

StoreInit ==
    /\ row = [a \in Attachment |-> None]
    /\ file = [a \in Attachment |-> "none"]
    /\ call = [r \in Caller |-> Idle]
    /\ used = {} /\ failed = {} /\ removed = {} /\ broken = {}

At(r, pc) == call[r].pc = pc
Of(r) == call[r].attachment
Begin(r, pc, a, e) ==
    /\ call[r] = Idle
    /\ call' = [call EXCEPT ![r] = [pc |-> pc, attachment |-> a, entity |-> e]]
Go(r, pc) == call' = [call EXCEPT ![r] = [pc |-> pc, attachment |-> Of(r), entity |-> call[r].entity]]
End(r) == call' = [call EXCEPT ![r] = Idle]

-----------------------------------------------------------------------------
(* create                                                                  *)

\* (mutant) The row is written before the file.
StartWithRow(r, a, e) ==
    /\ a \notin used
    /\ used' = used \cup {a}
    /\ Begin(r, "write", a, e)
    /\ row' = [row EXCEPT ![a] = e]
    /\ UNCHANGED <<file, failed, removed, broken>>

\* The entity exists (entities are never deleted); the stored name is new.
StartUpload(r, a, e) ==
    /\ a \notin used
    /\ used' = used \cup {a}
    /\ Begin(r, "write", a, e)
    /\ UNCHANGED <<row, file, failed, removed, broken>>

\* writeFile, which may leave a part of the file when it fails.
WriteFile(r) ==
    /\ At(r, "write")
    /\ \/ /\ file' = [file EXCEPT ![Of(r)] = "whole"]
          /\ Go(r, "insert")
          /\ UNCHANGED failed
       \/ /\ \E left \in {"none", "partial"} : file' = [file EXCEPT ![Of(r)] = left]
          /\ End(r)
          /\ failed' = failed \cup {Of(r)}
    /\ UNCHANGED <<row, used, removed, broken>>

\* A failure may come before or after the row is stored.
InsertRow(r) ==
    /\ At(r, "insert")
    /\ \/ row' = [row EXCEPT ![Of(r)] = call[r].entity] /\ UNCHANGED failed
       \/ UNCHANGED row /\ failed' = failed \cup {Of(r)}
    /\ End(r)
    /\ UNCHANGED <<file, used, removed, broken>>

-----------------------------------------------------------------------------
(* getDownload                                                             *)

FindRow(r, a) ==
    /\ row[a] # None
    /\ Begin(r, "open", a, row[a])
    /\ UNCHANGED <<row, file, used, failed, removed, broken>>

\* createReadStream opens the file after the handler has answered; once open it is read to the end.
OpenFile(r) ==
    /\ At(r, "open")
    /\ broken' = IF file[Of(r)] = "whole" THEN broken ELSE broken \cup {Of(r)}
    /\ End(r)
    /\ UNCHANGED <<row, file, used, failed, removed>>

-----------------------------------------------------------------------------
(* remove                                                                  *)

\* (mutant) The file goes before the row.
UnlinkFirst(r, a, e) ==
    /\ row[a] = e
    /\ Begin(r, "delete", a, e)
    /\ file' = [file EXCEPT ![a] = "none"]
    /\ UNCHANGED <<row, used, failed, removed, broken>>

\* The attachment must belong to the entity of the request.
FindToRemove(r, a, e) ==
    /\ row[a] = e
    /\ Begin(r, "delete", a, e)
    /\ UNCHANGED <<row, file, used, failed, removed, broken>>

\* (mutant) The file is forgotten.
DeleteRowOnly(r) ==
    /\ At(r, "delete") /\ row[Of(r)] # None
    /\ row' = [row EXCEPT ![Of(r)] = None]
    /\ removed' = removed \cup {Of(r)}
    /\ End(r)
    /\ UNCHANGED <<file, used, failed, broken>>

\* delete throws when another request has deleted the row, or when the database fails.
DeleteRow(r) ==
    /\ At(r, "delete")
    /\ \/ /\ row[Of(r)] # None
          /\ row' = [row EXCEPT ![Of(r)] = None]
          /\ removed' = removed \cup {Of(r)}
          /\ Go(r, "unlink")
       \/ End(r) /\ UNCHANGED <<row, removed>>
    /\ UNCHANGED <<file, used, failed, broken>>

\* unlink, whose errors are ignored.
Unlink(r) ==
    /\ At(r, "unlink")
    /\ \/ file' = [file EXCEPT ![Of(r)] = "none"] /\ UNCHANGED failed
       \/ UNCHANGED file /\ failed' = failed \cup {Of(r)}
    /\ End(r)
    /\ UNCHANGED <<row, used, removed, broken>>

\* The process dies: files that were being written stay as they are.
Crash ==
    /\ \E r \in Caller : call[r] # Idle
    /\ call' = [r \in Caller |-> Idle]
    /\ failed' = failed \cup {Of(r) : r \in {q \in Caller : At(q, "write") \/ At(q, "insert") \/ At(q, "unlink")}}
    /\ \E cut \in SUBSET {Of(r) : r \in {q \in Caller : At(q, "write")}} :
           file' = [a \in Attachment |-> IF a \in cut THEN "partial" ELSE file[a]]
    /\ UNCHANGED <<row, used, removed, broken>>

Ask(r) ==
    \E a \in Attachment :
        \/ FindRow(r, a)
        \/ \E e \in Entity : StartUpload(r, a, e) \/ FindToRemove(r, a, e)

Step(r) == WriteFile(r) \/ InsertRow(r) \/ OpenFile(r) \/ DeleteRow(r) \/ Unlink(r)

StoreNext == Crash \/ \E r \in Caller : Ask(r) \/ Step(r)

\* The file system and the database answer, if only with an error.
StoreSpec == StoreInit /\ [][StoreNext]_storeVars /\ \A r \in Caller : WF_storeVars(Step(r))

-----------------------------------------------------------------------------
\* A row has its whole file: the file is there before the row and the row is gone before the file,
\* whatever fails and whoever else removes it.
RowsHaveFiles == \A a \in Attachment : row[a] # None => file[a] = "whole"

\* A file without a row is being written or removed, or one of its steps failed.
StrayFilesHaveACause ==
    \A a \in Attachment :
        row[a] = None /\ file[a] # "none" =>
            a \in failed \/ \E r \in Caller : call[r] # Idle /\ Of(r) = a /\ call[r].pc \in {"insert", "unlink"}

\* A download that found the row misses the file only when the row was deleted in between.
BrokenOnlyIfRemoved == broken \subseteq removed

\* What a reader can see of an attachment: its row, and through it the file.
Seen(a) ==
    IF row[a] # None THEN [place |-> "shelf", entity |-> row[a], content |-> file[a]]
    ELSE [place |-> IF a \in removed THEN "gone" ELSE "new", entity |-> None, content |-> "none"]

\* Uploads and removals, though each is two steps that can fail or be cut short between
\* the database and the disk, are one step each to a reader, and a removal is for good.
Shelf == INSTANCE DocumentShelf WITH shelf <- [a \in Attachment |-> Seen(a)], missed <- broken
ImplementsShelf == Shelf!Spec

\* A row is deleted only by a request for the entity it belongs to.
RemovedThroughItsEntity ==
    [][\A a \in Attachment :
           row[a] # None /\ row'[a] = None =>
               \E r \in Caller : At(r, "delete") /\ Of(r) = a /\ call[r].entity = row[a]]_storeVars

\* The file of a deleted row goes, unless the step that would remove it failed.
RemovedFilesGo ==
    \A a \in Attachment : a \in removed ~> file[a] = "none" \/ a \in failed
=============================================================================
