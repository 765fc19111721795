----------------------- MODULE AttachmentStore_proofs -----------------------
(***************************************************************************)
(* For any attachments, entities and requests: a row has its file, a file   *)
(* without a row has a cause, a download misses a file only after the row   *)
(* was removed, and rows go only through the entity they belong to.  The    *)
(* invariant says what each request knows of its attachment.                *)
(***************************************************************************)
EXTENDS AttachmentStore, TLAPS

Uploading(r) == At(r, "write") \/ At(r, "insert")

\* Nobody else is concerned with an attachment that is being uploaded.
UploadsAlone ==
    \A r, q \in Caller : Uploading(r) /\ q # r /\ call[q] # Idle => Of(q) # Of(r)

\* What a request knows of its attachment.
Knows(r) ==
    /\ call[r] # Idle => Of(r) \in used
    /\ Uploading(r) => row[Of(r)] = None /\ Of(r) \notin removed
    /\ At(r, "insert") => file[Of(r)] = "whole"
    /\ At(r, "open") => row[Of(r)] # None \/ Of(r) \in removed
    /\ At(r, "delete") => row[Of(r)] = call[r].entity \/ Of(r) \in removed
    /\ At(r, "unlink") => Of(r) \in removed

RequestsKnow == \A r \in Caller : Knows(r)

\* An attachment that was never begun has left nothing; one that was removed has no row.
Traces ==
    \A a \in Attachment :
        /\ a \notin used => row[a] = None /\ file[a] = "none" /\ a \notin removed
        /\ a \in removed => row[a] = None

StoreInv ==
    /\ StoreTypeOK
    /\ UploadsAlone
    /\ RequestsKnow
    /\ Traces
    /\ RowsHaveFiles
    /\ StrayFilesHaveACause
    /\ BrokenOnlyIfRemoved

-----------------------------------------------------------------------------
\* A request that is at some step is in progress, and its fields have their types.
LEMMA InStep ==
    ASSUME StoreTypeOK, NEW r \in Caller, call[r] # Idle
    PROVE  /\ call[r] \in InProgress
           /\ Of(r) \in Attachment /\ call[r].entity \in Entity
           /\ call[r].pc \in {"write", "insert", "open", "delete", "unlink"}
  BY DEF StoreTypeOK, InProgress, Of, Idle

\* A caller at a step of a handler is not idle.
LEMMA AtStep ==
    ASSUME NEW r \in Caller, NEW pc \in {"write", "insert", "open", "delete", "unlink"}, At(r, pc)
    PROVE  call[r] # Idle
  BY DEF At, Idle

\* An idle request is at no step.
LEMMA IdleAtNone ==
    ASSUME NEW r \in Caller, call[r] = Idle
    PROVE  call[r].pc = "idle"
  BY DEF Idle

\* The empty store is in order.
LEMMA InitStore == StoreInit => StoreInv
<1> SUFFICES ASSUME StoreInit PROVE StoreInv
  OBVIOUS
<1> USE StoreAssumption DEF StoreInit
<1>1. StoreTypeOK
  BY DEF StoreTypeOK
<1>2. UploadsAlone /\ RequestsKnow
  BY IdleAtNone DEF UploadsAlone, RequestsKnow, Knows, Uploading, At
<1>3. Traces /\ RowsHaveFiles /\ StrayFilesHaveACause /\ BrokenOnlyIfRemoved
  BY DEF Traces, RowsHaveFiles, StrayFilesHaveACause, BrokenOnlyIfRemoved
<1> QED
  BY <1>1, <1>2, <1>3 DEF StoreInv

-----------------------------------------------------------------------------
(* Each step keeps the invariant                                           *)

\* A request that begins with attachment x.
LEMMA Begins ==
    ASSUME StoreTypeOK, NEW r \in Caller, NEW x \in Attachment, NEW y \in Entity,
           NEW pc \in {"write", "insert", "open", "delete", "unlink"}, Begin(r, pc, x, y)
    PROVE  /\ call' \in [Caller -> InProgress \cup {Idle}]
           /\ call[r] = Idle
           /\ call'[r].pc = pc /\ call'[r].attachment = x /\ call'[r].entity = y
           /\ call'[r] # Idle
           /\ \A q \in Caller \ {r} : call'[q] = call[q]
<1> DEFINE new == [pc |-> pc, attachment |-> x, entity |-> y]
<1>1. new \in InProgress /\ new.pc = pc /\ new # Idle
  BY DEF InProgress, Idle
<1>2. call' = [call EXCEPT ![r] = new] /\ call \in [Caller -> InProgress \cup {Idle}] /\ call[r] = Idle
  BY DEF Begin, StoreTypeOK
<1>3. new.attachment = x /\ new.entity = y
  OBVIOUS
<1> HIDE DEF new
<1> QED
  BY <1>1, <1>2, <1>3

\* A request that goes on.
LEMMA Goes ==
    ASSUME StoreTypeOK, NEW r \in Caller, call[r] # Idle,
           NEW pc \in {"write", "insert", "open", "delete", "unlink"}, Go(r, pc)
    PROVE  /\ call' \in [Caller -> InProgress \cup {Idle}]
           /\ call'[r].pc = pc /\ call'[r].attachment = Of(r) /\ call'[r].entity = call[r].entity
           /\ call'[r] # Idle
           /\ \A q \in Caller \ {r} : call'[q] = call[q]
<1> DEFINE new == [pc |-> pc, attachment |-> Of(r), entity |-> call[r].entity]
<1>1. new \in InProgress /\ new.pc = pc /\ new # Idle
  BY InStep DEF InProgress, Idle
<1>2. call' = [call EXCEPT ![r] = new] /\ call \in [Caller -> InProgress \cup {Idle}]
  BY DEF Go, StoreTypeOK
<1>3. new.attachment = Of(r) /\ new.entity = call[r].entity
  OBVIOUS
<1> HIDE DEF new
<1> QED
  BY <1>1, <1>2, <1>3

\* A request that ends.
LEMMA Ends ==
    ASSUME StoreTypeOK, NEW r \in Caller, End(r)
    PROVE  /\ call' \in [Caller -> InProgress \cup {Idle}]
           /\ call'[r] = Idle /\ call'[r].pc = "idle"
           /\ \A q \in Caller \ {r} : call'[q] = call[q]
  BY DEF End, StoreTypeOK, Idle

\* An upload that starts takes an attachment nobody else knows (create).
LEMMA StartUploadStep ==
    ASSUME StoreInv, NEW r \in Caller, NEW a \in Attachment, NEW e \in Entity, StartUpload(r, a, e)
    PROVE  StoreInv'
<1> USE StoreAssumption DEF StoreInv
<1>1. /\ call' \in [Caller -> InProgress \cup {Idle}]
      /\ call'[r].pc = "write" /\ call'[r].attachment = a /\ call'[r].entity = e
      /\ call'[r] # Idle /\ call[r] = Idle /\ call[r].pc = "idle"
      /\ \A q \in Caller \ {r} : call'[q] = call[q]
      /\ a \notin used /\ used' = used \cup {a}
      /\ UNCHANGED <<row, file, failed, removed, broken>>
  BY Begins, IdleAtNone DEF StartUpload, Begin
<1>2. StoreTypeOK'
  BY <1>1 DEF StoreTypeOK
<1>3. UploadsAlone'
  BY <1>1, AtStep DEF UploadsAlone, Uploading, At, Of, RequestsKnow, Knows
<1>4. RequestsKnow'
  BY <1>1 DEF RequestsKnow, Knows, Uploading, At, Of, Traces
<1>5. Traces' /\ RowsHaveFiles' /\ BrokenOnlyIfRemoved'
  BY <1>1 DEF Traces, RowsHaveFiles, BrokenOnlyIfRemoved
<1>6. StrayFilesHaveACause'
  BY <1>1 DEF StrayFilesHaveACause, Of, Traces
<1> QED
  BY <1>2, <1>3, <1>4, <1>5, <1>6

\* Writing the file keeps the store in order, whether it succeeds or is cut short (create).
LEMMA WriteFileStep ==
    ASSUME StoreInv, NEW r \in Caller, WriteFile(r)
    PROVE  StoreInv'
<1> USE StoreAssumption DEF StoreInv
<1> DEFINE a == Of(r)
<1>0. /\ call[r] # Idle /\ At(r, "write") /\ a \in Attachment /\ call[r].entity \in Entity
      /\ row[a] = None /\ a \notin removed /\ a \in used
      /\ UNCHANGED <<row, used, removed, broken>>
  BY AtStep, InStep DEF WriteFile, RequestsKnow, Knows, Uploading
<1>1. CASE /\ file' = [file EXCEPT ![a] = "whole"]
           /\ Go(r, "insert")
           /\ UNCHANGED failed
  <2>1. /\ call' \in [Caller -> InProgress \cup {Idle}]
        /\ call'[r].pc = "insert" /\ call'[r].attachment = a /\ call'[r].entity = call[r].entity
        /\ call'[r] # Idle
        /\ \A q \in Caller \ {r} : call'[q] = call[q]
    BY <1>0, <1>1, Goes
  <2>2. StoreTypeOK'
    BY <1>0, <1>1, <2>1 DEF StoreTypeOK
  <2>3. UploadsAlone'
    BY <1>0, <1>1, <2>1, AtStep DEF UploadsAlone, Uploading, At, Of
  <2>4. RequestsKnow'
    BY <1>0, <1>1, <2>1 DEF RequestsKnow, Knows, Uploading, At, Of, UploadsAlone, StoreTypeOK
  <2>5. Traces' /\ RowsHaveFiles' /\ BrokenOnlyIfRemoved'
    BY <1>0, <1>1 DEF Traces, RowsHaveFiles, BrokenOnlyIfRemoved, StoreTypeOK
  <2>6. StrayFilesHaveACause'
    BY <1>0, <1>1, <2>1 DEF StrayFilesHaveACause, Of, StoreTypeOK, At
  <2> QED
    BY <2>2, <2>3, <2>4, <2>5, <2>6
<1>2. CASE /\ \E left \in {"none", "partial"} : file' = [file EXCEPT ![a] = left]
           /\ End(r)
           /\ failed' = failed \cup {a}
  <2>1. /\ call' \in [Caller -> InProgress \cup {Idle}]
        /\ call'[r] = Idle /\ call'[r].pc = "idle"
        /\ \A q \in Caller \ {r} : call'[q] = call[q]
    BY <1>2, Ends
  <2>2. StoreTypeOK'
    BY <1>0, <1>2, <2>1 DEF StoreTypeOK
  <2>3. UploadsAlone'
    BY <1>0, <1>2, <2>1, AtStep DEF UploadsAlone, Uploading, At, Of
  <2>4. RequestsKnow'
    BY <1>0, <1>2, <2>1 DEF RequestsKnow, Knows, Uploading, At, Of, UploadsAlone, StoreTypeOK
  <2>5. Traces' /\ RowsHaveFiles' /\ BrokenOnlyIfRemoved'
    BY <1>0, <1>2 DEF Traces, RowsHaveFiles, BrokenOnlyIfRemoved, StoreTypeOK
  <2>6. StrayFilesHaveACause'
    BY <1>0, <1>2, <2>1 DEF StrayFilesHaveACause, Of, StoreTypeOK, At
  <2> QED
    BY <2>2, <2>3, <2>4, <2>5, <2>6
<1> QED
  BY <1>1, <1>2 DEF WriteFile

\* The row is stored after its whole file, or the failure leaves a trace (create).
LEMMA InsertRowStep ==
    ASSUME StoreInv, NEW r \in Caller, InsertRow(r)
    PROVE  StoreInv'
<1> USE StoreAssumption DEF StoreInv
<1> DEFINE a == Of(r)
<1>1. /\ call[r] # Idle /\ At(r, "insert") /\ a \in Attachment /\ call[r].entity \in Entity
      /\ row[a] = None /\ a \notin removed /\ a \in used /\ file[a] = "whole"
      /\ UNCHANGED <<file, used, removed, broken>>
  BY AtStep, InStep DEF InsertRow, RequestsKnow, Knows, Uploading
<1>2. /\ call' \in [Caller -> InProgress \cup {Idle}]
      /\ call'[r] = Idle /\ call'[r].pc = "idle"
      /\ \A q \in Caller \ {r} : call'[q] = call[q]
  BY Ends DEF InsertRow
<1>3. \/ row' = [row EXCEPT ![a] = call[r].entity] /\ UNCHANGED failed
      \/ UNCHANGED row /\ failed' = failed \cup {a}
  BY DEF InsertRow
<1>4. StoreTypeOK'
  BY <1>1, <1>2, <1>3 DEF StoreTypeOK
<1>5. UploadsAlone'
  BY <1>1, <1>2, AtStep DEF UploadsAlone, Uploading, At, Of
<1>6. \A q \in Caller : call'[q] # Idle => q # r /\ call[q] # Idle /\ call[q].attachment # a
  BY <1>1, <1>2 DEF UploadsAlone, Uploading, Of
<1>7. RequestsKnow'
  BY <1>1, <1>2, <1>3, <1>6 DEF RequestsKnow, Knows, Uploading, At, Of, StoreTypeOK
<1>8. Traces' /\ RowsHaveFiles' /\ BrokenOnlyIfRemoved'
  BY <1>1, <1>3 DEF Traces, RowsHaveFiles, BrokenOnlyIfRemoved, StoreTypeOK
<1>9. StrayFilesHaveACause'
  BY <1>1, <1>2, <1>3 DEF StrayFilesHaveACause, Of, StoreTypeOK, At
<1> QED
  BY <1>4, <1>5, <1>7, <1>8, <1>9

\* A download that has found its row keeps the store in order (getDownload).
LEMMA FindRowStep ==
    ASSUME StoreInv, NEW r \in Caller, NEW a \in Attachment, FindRow(r, a)
    PROVE  StoreInv'
<1> USE StoreAssumption DEF StoreInv
<1>0. row[a] \in Entity /\ Begin(r, "open", a, row[a])
  BY DEF FindRow, StoreTypeOK
<1>1. /\ call' \in [Caller -> InProgress \cup {Idle}]
      /\ call'[r].pc = "open" /\ call'[r].attachment = a
      /\ call'[r] # Idle /\ call[r] = Idle /\ call[r].pc = "idle"
      /\ \A q \in Caller \ {r} : call'[q] = call[q]
      /\ UNCHANGED <<row, file, used, failed, removed, broken>>
  BY <1>0, Begins, IdleAtNone DEF FindRow
<1>2. StoreTypeOK'
  BY <1>1 DEF StoreTypeOK
<1>3. UploadsAlone'
  BY <1>0, <1>1, AtStep DEF UploadsAlone, Uploading, At, Of, RequestsKnow, Knows
<1>4. RequestsKnow'
  BY <1>0, <1>1 DEF RequestsKnow, Knows, Uploading, At, Of, Traces
<1>5. Traces' /\ RowsHaveFiles' /\ BrokenOnlyIfRemoved'
  BY <1>1 DEF Traces, RowsHaveFiles, BrokenOnlyIfRemoved
<1>6. StrayFilesHaveACause'
  BY <1>1 DEF StrayFilesHaveACause, Of
<1> QED
  BY <1>2, <1>3, <1>4, <1>5, <1>6

\* Opening the file changes nothing stored; it breaks only after a removal (getDownload).
LEMMA OpenFileStep ==
    ASSUME StoreInv, NEW r \in Caller, OpenFile(r)
    PROVE  StoreInv'
<1> USE StoreAssumption DEF StoreInv
<1> DEFINE a == Of(r)
<1>1. /\ call[r] # Idle /\ At(r, "open") /\ a \in Attachment
      /\ row[a] # None \/ a \in removed
      /\ UNCHANGED <<row, file, used, failed, removed>>
  BY AtStep, InStep DEF OpenFile, RequestsKnow, Knows
<1>2. /\ call' \in [Caller -> InProgress \cup {Idle}]
      /\ call'[r] = Idle /\ call'[r].pc = "idle"
      /\ \A q \in Caller \ {r} : call'[q] = call[q]
  BY Ends DEF OpenFile
<1>3. broken' = IF file[a] = "whole" THEN broken ELSE broken \cup {a}
  BY DEF OpenFile
<1>4. StoreTypeOK'
  BY <1>1, <1>2, <1>3 DEF StoreTypeOK
<1>5. UploadsAlone'
  BY <1>1, <1>2, AtStep DEF UploadsAlone, Uploading, At, Of
<1>6. RequestsKnow'
  BY <1>1, <1>2 DEF RequestsKnow, Knows, Uploading, At, Of
<1>7. Traces' /\ RowsHaveFiles'
  BY <1>1 DEF Traces, RowsHaveFiles
<1>8. BrokenOnlyIfRemoved'
  BY <1>1, <1>3 DEF BrokenOnlyIfRemoved, RowsHaveFiles
<1>9. StrayFilesHaveACause'
  BY <1>1, <1>2 DEF StrayFilesHaveACause, Of, At
<1> QED
  BY <1>4, <1>5, <1>6, <1>7, <1>8, <1>9

\* A removal that has found its row knows its entity (remove).
LEMMA FindToRemoveStep ==
    ASSUME StoreInv, NEW r \in Caller, NEW a \in Attachment, NEW e \in Entity, FindToRemove(r, a, e)
    PROVE  StoreInv'
<1> USE StoreAssumption DEF StoreInv
<1>1. /\ call' \in [Caller -> InProgress \cup {Idle}]
      /\ call'[r].pc = "delete" /\ call'[r].attachment = a /\ call'[r].entity = e
      /\ call'[r] # Idle /\ call[r] = Idle /\ call[r].pc = "idle"
      /\ \A q \in Caller \ {r} : call'[q] = call[q]
      /\ row[a] = e
      /\ UNCHANGED <<row, file, used, failed, removed, broken>>
  BY Begins, IdleAtNone DEF FindToRemove
<1>2. StoreTypeOK'
  BY <1>1 DEF StoreTypeOK
<1>3. UploadsAlone'
  BY <1>1, AtStep DEF UploadsAlone, Uploading, At, Of, RequestsKnow, Knows
<1>4. RequestsKnow'
  BY <1>1 DEF RequestsKnow, Knows, Uploading, At, Of, Traces
<1>5. Traces' /\ RowsHaveFiles' /\ BrokenOnlyIfRemoved'
  BY <1>1 DEF Traces, RowsHaveFiles, BrokenOnlyIfRemoved
<1>6. StrayFilesHaveACause'
  BY <1>1 DEF StrayFilesHaveACause, Of
<1> QED
  BY <1>2, <1>3, <1>4, <1>5, <1>6

\* Deleting the row leaves a file its caller is about to remove (remove).
LEMMA DeleteRowStep ==
    ASSUME StoreInv, NEW r \in Caller, DeleteRow(r)
    PROVE  StoreInv'
<1> USE StoreAssumption DEF StoreInv
<1> DEFINE a == Of(r)
<1>0. /\ call[r] # Idle /\ At(r, "delete") /\ a \in Attachment /\ call[r].entity \in Entity
      /\ a \in used
      /\ UNCHANGED <<file, used, failed, broken>>
  BY AtStep, InStep DEF DeleteRow, RequestsKnow, Knows
<1>1. CASE /\ row[a] # None
           /\ row' = [row EXCEPT ![a] = None]
           /\ removed' = removed \cup {a}
           /\ Go(r, "unlink")
  <2>1. /\ call' \in [Caller -> InProgress \cup {Idle}]
        /\ call'[r].pc = "unlink" /\ call'[r].attachment = a /\ call'[r].entity = call[r].entity
        /\ call'[r] # Idle
        /\ \A q \in Caller \ {r} : call'[q] = call[q]
    BY <1>0, <1>1, Goes
  <2>2. StoreTypeOK'
    BY <1>0, <1>1, <2>1 DEF StoreTypeOK
  <2>3. UploadsAlone'
    BY <1>0, <1>1, <2>1, AtStep DEF UploadsAlone, Uploading, At, Of
  <2>4. RequestsKnow'
    BY <1>0, <1>1, <2>1 DEF RequestsKnow, Knows, Uploading, At, Of, StoreTypeOK
  <2>5. Traces' /\ RowsHaveFiles' /\ BrokenOnlyIfRemoved'
    BY <1>0, <1>1 DEF Traces, RowsHaveFiles, BrokenOnlyIfRemoved, StoreTypeOK
  <2>6. StrayFilesHaveACause'
    BY <1>0, <1>1, <2>1 DEF StrayFilesHaveACause, Of, StoreTypeOK, At
  <2> QED
    BY <2>2, <2>3, <2>4, <2>5, <2>6
<1>2. CASE End(r) /\ UNCHANGED <<row, removed>>
  <2>1. /\ call' \in [Caller -> InProgress \cup {Idle}]
        /\ call'[r] = Idle /\ call'[r].pc = "idle"
        /\ \A q \in Caller \ {r} : call'[q] = call[q]
    BY <1>2, Ends
  <2>2. StoreTypeOK'
    BY <1>0, <1>2, <2>1 DEF StoreTypeOK
  <2>3. UploadsAlone'
    BY <1>0, <1>2, <2>1, AtStep DEF UploadsAlone, Uploading, At, Of
  <2>4. RequestsKnow'
    BY <1>0, <1>2, <2>1 DEF RequestsKnow, Knows, Uploading, At, Of
  <2>5. Traces' /\ RowsHaveFiles' /\ BrokenOnlyIfRemoved'
    BY <1>0, <1>2 DEF Traces, RowsHaveFiles, BrokenOnlyIfRemoved
  <2>6. StrayFilesHaveACause'
    BY <1>0, <1>2, <2>1 DEF StrayFilesHaveACause, Of, At
  <2> QED
    BY <2>2, <2>3, <2>4, <2>5, <2>6
<1> QED
  BY <1>1, <1>2 DEF DeleteRow

\* Removing the file, or failing to, keeps the store in order (remove).
LEMMA UnlinkStep ==
    ASSUME StoreInv, NEW r \in Caller, Unlink(r)
    PROVE  StoreInv'
<1> USE StoreAssumption DEF StoreInv
<1> DEFINE a == Of(r)
<1>1. /\ call[r] # Idle /\ At(r, "unlink") /\ a \in Attachment
      /\ a \in removed /\ row[a] = None /\ a \in used
      /\ UNCHANGED <<row, used, removed, broken>>
  BY AtStep, InStep DEF Unlink, RequestsKnow, Knows, Traces
<1>2. /\ call' \in [Caller -> InProgress \cup {Idle}]
      /\ call'[r] = Idle /\ call'[r].pc = "idle"
      /\ \A q \in Caller \ {r} : call'[q] = call[q]
  BY Ends DEF Unlink
<1>3. \/ file' = [file EXCEPT ![a] = "none"] /\ UNCHANGED failed
      \/ UNCHANGED file /\ failed' = failed \cup {a}
  BY DEF Unlink
<1>4. StoreTypeOK'
  BY <1>1, <1>2, <1>3 DEF StoreTypeOK
<1>5. UploadsAlone'
  BY <1>1, <1>2, AtStep DEF UploadsAlone, Uploading, At, Of
<1>6. RequestsKnow'
  BY <1>1, <1>2, <1>3 DEF RequestsKnow, Knows, Uploading, At, Of, StoreTypeOK
<1>7. Traces' /\ RowsHaveFiles' /\ BrokenOnlyIfRemoved'
  BY <1>1, <1>3 DEF Traces, RowsHaveFiles, BrokenOnlyIfRemoved, StoreTypeOK
<1>8. StrayFilesHaveACause'
  BY <1>1, <1>2, <1>3 DEF StrayFilesHaveACause, Of, StoreTypeOK, At
<1> QED
  BY <1>4, <1>5, <1>6, <1>7, <1>8

\* A crash forgets the callers; the files they leave have the crash as their cause.
LEMMA CrashStep ==
    ASSUME StoreInv, Crash
    PROVE  StoreInv'
<1> USE StoreAssumption DEF StoreInv
<1> DEFINE cutShort == {Of(q) : q \in {p \in Caller : At(p, "write") \/ At(p, "insert") \/ At(p, "unlink")}}
           writing == {Of(q) : q \in {p \in Caller : At(p, "write")}}
<1>1. /\ \A r \in Caller : call'[r] = Idle /\ call'[r].pc = "idle"
      /\ call' \in [Caller -> InProgress \cup {Idle}]
      /\ failed' = failed \cup cutShort
      /\ UNCHANGED <<row, used, removed, broken>>
  BY DEF Crash, Idle
<1>2. PICK cut \in SUBSET writing :
          file' = [a \in Attachment |-> IF a \in cut THEN "partial" ELSE file[a]]
  BY DEF Crash
<1>3. cutShort \subseteq Attachment
  BY AtStep, InStep
<1>4. \A a \in cut : a \in cutShort /\ row[a] = None /\ a \in used /\ a \notin removed
  BY <1>2, AtStep DEF RequestsKnow, Knows, Uploading
<1>5. StoreTypeOK'
  BY <1>1, <1>2, <1>3 DEF StoreTypeOK
<1>6. UploadsAlone' /\ RequestsKnow'
  BY <1>1 DEF UploadsAlone, RequestsKnow, Knows, Uploading, At
<1>7. Traces' /\ RowsHaveFiles' /\ BrokenOnlyIfRemoved'
  BY <1>1, <1>2, <1>4 DEF Traces, RowsHaveFiles, BrokenOnlyIfRemoved
<1>8. \A a \in Attachment :
          (\E r \in Caller : call[r] # Idle /\ Of(r) = a /\ call[r].pc \in {"insert", "unlink"}) => a \in cutShort
  BY DEF At
<1>9. StrayFilesHaveACause'
  BY <1>1, <1>2, <1>4, <1>8 DEF StrayFilesHaveACause
<1> QED
  BY <1>5, <1>6, <1>7, <1>9

\* A step that changes nothing keeps the store in order.
LEMMA StuttersKeep ==
    ASSUME StoreInv, UNCHANGED storeVars
    PROVE  StoreInv'
  BY DEF StoreInv, storeVars, StoreTypeOK, UploadsAlone, RequestsKnow, Knows, Uploading, At, Of, Traces,
         RowsHaveFiles, StrayFilesHaveACause, BrokenOnlyIfRemoved

\* The invariant is inductive.
THEOREM StoreInvariant == StoreSpec => []StoreInv
<1>1. ASSUME StoreInv, [StoreNext]_storeVars
      PROVE  StoreInv'
  <2>1. CASE Crash
    BY <1>1, <2>1, CrashStep
  <2>2. ASSUME NEW r \in Caller, Ask(r)
        PROVE  StoreInv'
    BY <1>1, <2>2, FindRowStep, StartUploadStep, FindToRemoveStep DEF Ask
  <2>3. ASSUME NEW r \in Caller, Step(r)
        PROVE  StoreInv'
    BY <1>1, <2>3, WriteFileStep, InsertRowStep, OpenFileStep, DeleteRowStep, UnlinkStep DEF Step
  <2>4. CASE UNCHANGED storeVars
    BY <1>1, <2>4, StuttersKeep
  <2> QED
    BY <1>1, <2>1, <2>2, <2>3, <2>4 DEF StoreNext
<1> QED
  BY <1>1, InitStore, PTL DEF StoreSpec

\* Rows, files and requests keep their types, whatever fails.
THEOREM StoreTypes == StoreSpec => []StoreTypeOK
  BY StoreInvariant, PTL DEF StoreInv

\* A row has its whole file at all times.
THEOREM EveryRowHasItsFile == StoreSpec => []RowsHaveFiles
  BY StoreInvariant, PTL DEF StoreInv

\* A file without a row is being written or removed, or one of its steps failed.
THEOREM NoStrayWithoutCause == StoreSpec => []StrayFilesHaveACause
  BY StoreInvariant, PTL DEF StoreInv

\* A download that found the row misses the file only when the row was deleted in between.
THEOREM DownloadsBreakOnRemoval == StoreSpec => []BrokenOnlyIfRemoved
  BY StoreInvariant, PTL DEF StoreInv

\* A row is deleted only by a request for the entity it belongs to.
THEOREM RemovalsFitTheEntity == StoreSpec => RemovedThroughItsEntity
<1>1. ASSUME StoreInv, [StoreNext]_storeVars, NEW a \in Attachment, row[a] # None, row'[a] = None
      PROVE  \E r \in Caller : At(r, "delete") /\ Of(r) = a /\ call[r].entity = row[a]
  <2>1. PICK r \in Caller : InsertRow(r) \/ DeleteRow(r)
    BY <1>1 DEF StoreNext, Ask, Step, Crash, StartUpload, FindRow, FindToRemove, WriteFile, OpenFile, Unlink,
                storeVars
  <2>2. CASE InsertRow(r)
    <3>1. Of(r) \in Attachment /\ call[r].entity \in Entity
      BY <1>1, <2>2, AtStep, InStep DEF InsertRow, StoreInv
    <3>2. row' = row \/ row' = [row EXCEPT ![Of(r)] = call[r].entity]
      BY <2>2 DEF InsertRow
    <3> QED
      BY <1>1, <3>1, <3>2, StoreAssumption DEF StoreInv, StoreTypeOK
  <2>3. CASE DeleteRow(r)
    <3>1. Of(r) \in Attachment /\ At(r, "delete")
      BY <1>1, <2>3, AtStep, InStep DEF DeleteRow, StoreInv
    <3>2. row' = row \/ row' = [row EXCEPT ![Of(r)] = None]
      BY <2>3 DEF DeleteRow
    <3>3. Of(r) = a
      BY <1>1, <3>1, <3>2 DEF StoreInv, StoreTypeOK
    <3>4. row[a] = call[r].entity \/ a \in removed
      BY <1>1, <3>1, <3>3 DEF StoreInv, RequestsKnow, Knows
    <3>5. a \notin removed
      BY <1>1 DEF StoreInv, Traces
    <3> QED
      BY <3>1, <3>3, <3>4, <3>5
  <2> QED
    BY <2>1, <2>2, <2>3
<1>2. StoreInv /\ [StoreNext]_storeVars =>
          (\A a \in Attachment :
               row[a] # None /\ row'[a] = None =>
                   \E r \in Caller : At(r, "delete") /\ Of(r) = a /\ call[r].entity = row[a])
  BY <1>1
<1> QED
  BY <1>2, StoreInvariant, PTL DEF StoreSpec, RemovedThroughItsEntity

-----------------------------------------------------------------------------
(* The store is a shelf                                                    *)

\* A step that leaves the rows, their files and the removals alone is no step to a reader.
LEMMA UnseenStep ==
    ASSUME StoreInv, UNCHANGED <<row, removed, broken>>,
           \A a \in Attachment : row[a] # None => file'[a] = file[a]
    PROVE  UNCHANGED Shelf!shelfVars
<1>1. \A a \in Attachment : Seen(a)' = Seen(a)
  BY DEF Seen
<1>2. [a \in Attachment |-> Seen(a)]' = [a \in Attachment |-> Seen(a)]
  BY <1>1
<1> QED BY <1>2 DEF Shelf!shelfVars

\* A row that appears beside its whole file is a document put on the shelf.
LEMMA RowAppears ==
    ASSUME StoreInv, NEW x \in Attachment, NEW e \in Entity,
           row[x] = None, x \notin removed, file[x] = "whole",
           row' = [row EXCEPT ![x] = e], UNCHANGED <<file, removed, broken>>
    PROVE  Shelf!Put(x, e)
<1>1. row'[x] = e /\ e # None /\ \A a \in Attachment \ {x} : row'[a] = row[a]
  BY StoreAssumption DEF StoreInv, StoreTypeOK
<1>2. Seen(x) = Shelf!New
  BY DEF Seen, Shelf!New, Shelf!Absent
<1>3. Seen(x)' = Shelf!On(e, "whole")
  BY <1>1 DEF Seen, Shelf!On
<1>4. \A a \in Attachment \ {x} : Seen(a)' = Seen(a)
  BY <1>1 DEF Seen
<1>5. [a \in Attachment |-> Seen(a)]' =
          [[a \in Attachment |-> Seen(a)] EXCEPT ![x] = Shelf!On(e, "whole")]
  BY <1>3, <1>4
<1> QED BY <1>2, <1>5 DEF Shelf!Put

\* A row that goes is a document taken off, whatever is left of its file.
LEMMA RowGoes ==
    ASSUME StoreInv, NEW x \in Attachment, row[x] # None,
           row' = [row EXCEPT ![x] = None], removed' = removed \cup {x}, UNCHANGED <<file, broken>>
    PROVE  Shelf!TakeOff(x)
<1>1. row'[x] = None /\ \A a \in Attachment \ {x} : row'[a] = row[a]
  BY DEF StoreInv, StoreTypeOK
<1>2. Seen(x).place = "shelf"
  BY DEF Seen
<1>3. Seen(x)' = Shelf!Gone
  BY <1>1 DEF Seen, Shelf!Gone, Shelf!Absent
<1>4. \A a \in Attachment \ {x} : Seen(a)' = Seen(a)
  BY <1>1 DEF Seen
<1>5. [a \in Attachment |-> Seen(a)]' = [[a \in Attachment |-> Seen(a)] EXCEPT ![x] = Shelf!Gone]
  BY <1>3, <1>4
<1> QED BY <1>2, <1>5 DEF Shelf!TakeOff

\* The insert of a row puts its document on the shelf (create).
LEMMA InsertPuts ==
    ASSUME StoreInv, NEW r \in Caller, InsertRow(r)
    PROVE  [Shelf!Next]_(Shelf!shelfVars)
<1>1. PICK x \in Attachment, e \in Entity : x = Of(r) /\ e = call[r].entity
  BY AtStep, InStep DEF StoreInv, InsertRow
<1>2. row[x] = None /\ x \notin removed /\ file[x] = "whole" /\ UNCHANGED <<file, removed, broken>>
  BY <1>1, AtStep, InStep DEF StoreInv, InsertRow, RequestsKnow, Knows, Uploading
<1>3. CASE row' = [row EXCEPT ![x] = e]
  BY <1>2, <1>3, RowAppears DEF Shelf!Next
<1>4. CASE row' = row
  BY <1>2, <1>4, UnseenStep
<1> QED BY <1>1, <1>3, <1>4 DEF InsertRow

\* The deletion of a row takes its document off (remove).
LEMMA DeleteTakesOff ==
    ASSUME StoreInv, NEW r \in Caller, DeleteRow(r)
    PROVE  [Shelf!Next]_(Shelf!shelfVars)
<1>1. PICK x \in Attachment : x = Of(r)
  BY AtStep, InStep DEF StoreInv, DeleteRow
<1>2. UNCHANGED <<file, broken>>
  BY DEF DeleteRow
<1>3. CASE row[x] # None /\ row' = [row EXCEPT ![x] = None] /\ removed' = removed \cup {x}
  BY <1>2, <1>3, RowGoes DEF Shelf!Next
<1>4. CASE UNCHANGED <<row, removed>>
  BY <1>2, <1>4, UnseenStep
<1> QED BY <1>1, <1>3, <1>4 DEF DeleteRow

\* A download misses only a document that was taken off (getDownload).
LEMMA OpenMisses ==
    ASSUME StoreInv, NEW r \in Caller, OpenFile(r)
    PROVE  [Shelf!Next]_(Shelf!shelfVars)
<1> DEFINE x == Of(r)
<1>1. /\ x \in Attachment /\ (row[x] # None \/ x \in removed)
      /\ UNCHANGED <<row, file, removed>>
  BY AtStep, InStep DEF StoreInv, OpenFile, RequestsKnow, Knows
<1>2. CASE file[x] = "whole"
  <2>1. broken' = broken
    BY <1>2 DEF OpenFile
  <2> QED BY <1>1, <2>1, UnseenStep
<1>3. CASE file[x] # "whole"
  <2>1. broken' = broken \cup {x}
    BY <1>3 DEF OpenFile
  <2>2. row[x] = None /\ x \in removed
    BY <1>1, <1>3 DEF StoreInv, RowsHaveFiles
  <2>3. Seen(x) = Shelf!Gone
    BY <2>2 DEF Seen, Shelf!Gone, Shelf!Absent
  <2>4. [a \in Attachment |-> Seen(a)]' = [a \in Attachment |-> Seen(a)]
    BY <1>1 DEF Seen
  <2> HIDE DEF x
  <2>5. Shelf!Miss(x)
    BY <1>1, <2>1, <2>3, <2>4 DEF Shelf!Miss
  <2> QED BY <1>1, <2>5 DEF Shelf!Next
<1> QED BY <1>2, <1>3

\* Every step of the store is a step of the shelf, or none that a reader can see: what
\* happens to a file happens while it has no row.
LEMMA ShelfStep ==
    ASSUME StoreInv, [StoreNext]_storeVars
    PROVE  [Shelf!Next]_(Shelf!shelfVars)
<1>1. ASSUME NEW r \in Caller, WriteFile(r) PROVE [Shelf!Next]_(Shelf!shelfVars)
  <2>1. row[Of(r)] = None /\ UNCHANGED <<row, removed, broken>>
    BY <1>1 DEF StoreInv, RequestsKnow, Knows, Uploading, WriteFile
  <2>2. \A a \in Attachment : row[a] # None => file'[a] = file[a]
    BY <1>1, <2>1 DEF WriteFile, StoreInv, StoreTypeOK
  <2> QED BY <2>1, <2>2, UnseenStep
<1>2. ASSUME NEW r \in Caller, Unlink(r) PROVE [Shelf!Next]_(Shelf!shelfVars)
  <2>1. Of(r) \in removed /\ Of(r) \in Attachment /\ UNCHANGED <<row, removed, broken>>
    BY <1>2, AtStep, InStep DEF StoreInv, RequestsKnow, Knows, Unlink
  <2>2. row[Of(r)] = None
    BY <2>1 DEF StoreInv, Traces
  <2>3. \A a \in Attachment : row[a] # None => file'[a] = file[a]
    BY <1>2, <2>2 DEF Unlink, StoreInv, StoreTypeOK
  <2> QED BY <2>1, <2>3, UnseenStep
<1>3. CASE Crash
  <2>1. PICK cut \in SUBSET {Of(r) : r \in {q \in Caller : At(q, "write")}} :
            file' = [a \in Attachment |-> IF a \in cut THEN "partial" ELSE file[a]]
    BY <1>3 DEF Crash
  <2>2. \A a \in cut : row[a] = None
    BY DEF StoreInv, RequestsKnow, Knows, Uploading
  <2>3. \A a \in Attachment : row[a] # None => file'[a] = file[a]
    BY <2>1, <2>2
  <2>4. UNCHANGED <<row, removed, broken>>
    BY <1>3 DEF Crash
  <2> QED BY <2>3, <2>4, UnseenStep
<1>4. ASSUME UNCHANGED <<row, file, removed, broken>> PROVE [Shelf!Next]_(Shelf!shelfVars)
  BY <1>4, UnseenStep
<1>5. ASSUME NEW r \in Caller, Ask(r) PROVE [Shelf!Next]_(Shelf!shelfVars)
  BY <1>4, <1>5 DEF Ask, FindRow, StartUpload, FindToRemove
<1> QED BY <1>1, <1>2, <1>3, <1>4, <1>5, InsertPuts, DeleteTakesOff, OpenMisses
        DEF StoreNext, Step, storeVars

\* The attachments implement the shelf, whatever fails and whenever the process dies: to
\* a reader an upload is one step and a removal is one step, although each is two.
THEOREM StoreImplementsShelf == StoreSpec => ImplementsShelf
<1>1. StoreInit => Shelf!Init
  <2> SUFFICES ASSUME StoreInit PROVE Shelf!Init
    OBVIOUS
  <2>1. \A a \in Attachment : Seen(a) = Shelf!New
    BY DEF StoreInit, Seen, Shelf!New, Shelf!Absent
  <2> QED BY <2>1 DEF StoreInit, Shelf!Init
<1> QED BY <1>1, ShelfStep, StoreInvariant, PTL DEF StoreSpec, ImplementsShelf, Shelf!Spec
=============================================================================
