------------------------------ MODULE KbIngest ------------------------------
(***************************************************************************)
(* The life of the documents of one knowledge space: uploads of one file    *)
(* name into its folders, their background jobs (first ingest, rebuild,      *)
(* overwrite), the embedding back-fill, the recovery after a restart, and    *)
(* what users and the environment do in between.                             *)
(*                                                                         *)
(* Every SQL statement and every file operation is one step; the awaits      *)
(* between them are where other tasks, failures and restarts come in.  The   *)
(* chunks of a document change in single statements and are one unit here.   *)
(***************************************************************************)
EXTENDS Naturals, FiniteSets

CONSTANTS
    Docs,       \* the ids that uuid::new_v4 may return
    Contents,   \* file contents; a content is its own sha256
    Folders,    \* the folders of the space
    Slots,      \* uploads in flight: a handler, and then its background job
    Recovery,   \* the task of spawn_recover_pending
    None,       \* no content, no text, no task
    MaxUploads, \* bound on the uploads and reprocess requests in a behaviour
    Events,     \* what may happen, each once in a behaviour
    MaxEvents   \* bound on how many of them do

EventKinds == {"pg",        \* a statement fails and has no effect
               "answer",    \* the index is switched, the answer is lost
               "disk",      \* a file operation fails
               "parse",     \* the parser fails, or finds no text
               "embed",     \* the embedding service is unavailable
               "cancel",    \* the client disconnects, the handler is dropped
               "crash",     \* the server restarts
               "move",      \* a user moves a document to another folder
               "delete",    \* a user deletes a document
               "reprocess"} \* a user asks for a document to be rebuilt

ASSUME EventsAssumption == Events \subseteq EventKinds /\ MaxEvents \in Nat
ASSUME UploadsAssumption == MaxUploads \in Nat
ASSUME NoneAssumption == None \notin Contents \union (Contents \X Folders)
ASSUME TasksAssumption == Recovery \notin Slots /\ None \notin Slots \union {Recovery}
ASSUME DocsAssumption == None \notin Docs

Tasks == Slots \union {Recovery}

VARIABLES
    status,     \* kb.doc.status
    sha,        \* kb.doc.sha256
    folder,     \* kb.doc.folder_id and folder_path
    chunk,      \* the content kb.chunk holds for the document
    vec,        \* the embedding_text its vectors were computed from
    file,       \* the content of the document's file in the upload directory
    pc,         \* what each task does next
    task,       \* what each task works on
    moving,     \* upload handlers that have yet to call move_doc
    switching,  \* the holder of FILE_SWITCH_LOCK
    fstep,      \* what the embedding back-fill does next
    fill,       \* the texts it has read
    stuck,      \* what the scan of recover_pending found
    uploads,    \* requests so far
    happened    \* events so far

row == <<status, sha, folder>>
index == <<chunk, vec>>
filler == <<fstep, fill>>
counters == <<uploads, happened>>
vars == <<row, index, file, pc, task, moving, switching, filler, stuck, counters>>

Statuses == {"none", "pending", "parsing", "chunked", "embedded", "failed", "deleted"}
InProgress == {"pending", "parsing"}
Texts == Contents \X Folders

HandlerSteps == {"bySha", "byName", "insertDoc", "accept", "store", "dedup", "replaceable"}
FreshSteps == {"begin", "save", "parse", "insert", "count", "texts", "embed",
               "publish", "promote", "fail"}
ShadowSteps == {"read", "shadow", "lock"}
SwitchSteps == {"heal", "shift", "install", "replace", "restore"}
Steps == {"idle"} \union HandlerSteps \union FreshSteps \union ShadowSteps \union SwitchSteps

TaskRecords == [doc : Docs \union {None}, content : Contents \union {None},
                place : Folders \union {None}, op : {"none", "fresh", "rebuild", "overwrite"},
                text : Texts \union {None}, kept : Contents \union {None}]

NoTask == [doc |-> None, content |-> None, place |-> None, op |-> "none",
           text |-> None, kept |-> None]

Init ==
    /\ status = [d \in Docs |-> "none"]
    /\ sha = [d \in Docs |-> None]
    /\ folder = [d \in Docs |-> None]
    /\ chunk = [d \in Docs |-> None]
    /\ vec = [d \in Docs |-> None]
    /\ file = [d \in Docs |-> None]
    /\ pc = [t \in Tasks |-> "idle"]
    /\ task = [t \in Tasks |-> NoTask]
    /\ moving = {}
    /\ switching = None
    /\ fstep = "idle"
    /\ fill = [d \in Docs |-> None]
    /\ stuck = {}
    /\ uploads = 0
    /\ happened = {}

(***************************************************************************)
(* Control shared by the tasks                                             *)
(***************************************************************************)
Goto(t, step) == pc' = [pc EXCEPT ![t] = step]

Idle(t) == pc[t] = "idle" /\ t \notin moving

\* The task's future ends; an upload slot is free once its handler is done too.
End(t) ==
    /\ Goto(t, "idle")
    /\ task' = IF t \in moving THEN task ELSE [task EXCEPT ![t] = NoTask]

Once(kind) ==
    /\ kind \in Events \ happened
    /\ Cardinality(happened) < MaxEvents
    /\ happened' = happened \union {kind}
    /\ UNCHANGED uploads

(***************************************************************************)
(* Statements of the store                                                 *)
(***************************************************************************)
Present(d) == status[d] \notin {"none", "deleted"}

EmbeddingText(d) == <<chunk[d], folder[d]>>

\* Mutant: the text is taken of chunks that are gone.
TextOf_Unchecked(d) == EmbeddingText(d)

\* chunk_embedding_jobs: nothing to embed where there are no chunks.
TextOf(d) == IF chunk[d] = None THEN None ELSE EmbeddingText(d)

\* set_status, on a row that is there.
SetStatus(d, s) ==
    /\ status' = [status EXCEPT ![d] = s]
    /\ UNCHANGED <<sha, folder>>

\* Mutant: the failure is not written down.
SetFailed_Not(d) == UNCHANGED row

\* set_status(Failed): a row that is gone is only a warning.
SetFailed(d) == IF Present(d) THEN SetStatus(d, "failed") ELSE UNCHANGED row

\* replace_chunks: vectors of another text are dropped and keep it from embedded.
ReplacedStatus(text, new) == IF text = new THEN "embedded" ELSE "chunked"

\* replace_chunks as one statement, for the task's document.
ReplaceChunks(t) ==
    LET d == task[t].doc
        new == <<task[t].content, folder[d]>>
    IN  /\ chunk' = [chunk EXCEPT ![d] = task[t].content]
        /\ vec' = [vec EXCEPT ![d] = IF task[t].text = new THEN new ELSE None]
        /\ status' = [status EXCEPT ![d] = ReplacedStatus(task[t].text, new)]
        /\ sha' = IF task[t].op = "overwrite"
                  THEN [sha EXCEPT ![d] = task[t].content] ELSE sha
        /\ UNCHANGED folder

\* UNIQUE(space_id, sha256) against the other documents.
ShaTaken(t) ==
    /\ task[t].op = "overwrite"
    /\ \E e \in Docs \ {task[t].doc} : Present(e) /\ sha[e] = task[t].content

\* Mutant: vectors are written back by chunk alone.
Fits_AnyText(d, text) == chunk[d] # None /\ vec[d] = None

\* The compare-and-set of set_embeddings and set_chunk_embedding.
Fits(d, text) ==
    /\ status[d] = "chunked"
    /\ chunk[d] # None
    /\ EmbeddingText(d) = text
    /\ vec[d] = None

WriteVectors(d, text) ==
    vec' = IF text # None /\ Fits(d, text) THEN [vec EXCEPT ![d] = text] ELSE vec

Ready(d) == status[d] = "chunked" /\ chunk[d] # None /\ vec[d] # None

\* Mutant: a move leaves the status alone.
MovedStatus_Kept(d) == status[d]

\* move_doc: an embedded document whose vectors it drops is only chunked.
MovedStatus(d) == IF status[d] = "embedded" THEN "chunked" ELSE status[d]

\* move_doc as one statement; nothing changes when the folder is the same.
MoveDoc(d, f) ==
    IF folder[d] = f THEN UNCHANGED <<row, index>>
    ELSE /\ folder' = [folder EXCEPT ![d] = f]
         /\ IF chunk[d] = None THEN UNCHANGED <<status, vec>>
            ELSE /\ status' = [status EXCEPT ![d] = MovedStatus(d)]
                 /\ vec' = [vec EXCEPT ![d] = None]
         /\ UNCHANGED <<sha, chunk>>

(***************************************************************************)
(* upload: the handler, up to the job it spawns                            *)
(***************************************************************************)
StartUpload(t, c, f) ==
    /\ Idle(t)
    /\ uploads < MaxUploads
    /\ uploads' = uploads + 1
    /\ Goto(t, "bySha")
    /\ task' = [task EXCEPT ![t] = [NoTask EXCEPT !.content = c, !.place = f]]
    /\ UNCHANGED <<row, index, file, moving, switching, filler, stuck, happened>>

FindBySha(t) ==
    /\ pc[t] = "bySha"
    /\ \/ \E d \in Docs : /\ Present(d) /\ sha[d] = task[t].content
                          /\ task' = [task EXCEPT ![t].doc = d]
                          /\ Goto(t, "dedup")
       \/ /\ \A d \in Docs : Present(d) => sha[d] # task[t].content
          /\ Goto(t, "byName")
          /\ UNCHANGED task
    /\ UNCHANGED <<row, index, file, moving, switching, filler, stuck, counters>>

\* find_by_name_in_folder: all documents here have the one name.
FindByName(t) ==
    /\ pc[t] = "byName"
    /\ \/ \E d \in Docs : /\ Present(d) /\ folder[d] = task[t].place
                          /\ task' = [task EXCEPT ![t].doc = d]
                          /\ Goto(t, "replaceable")
       \/ /\ \A d \in Docs : Present(d) => folder[d] # task[t].place
          /\ Goto(t, "insertDoc")
          /\ UNCHANGED task
    /\ UNCHANGED <<row, index, file, moving, switching, filler, stuck, counters>>

\* insert_doc, with its second look for the sha when the insert finds a conflict.
InsertDoc(t) ==
    /\ pc[t] = "insertDoc"
    /\ \/ \E d \in Docs : /\ Present(d) /\ sha[d] = task[t].content
                          /\ task' = [task EXCEPT ![t].doc = d]
                          /\ Goto(t, "dedup")
                          /\ UNCHANGED row
       \/ /\ \A d \in Docs : Present(d) => sha[d] # task[t].content
          /\ \E d \in Docs : /\ status[d] = "none"
                             /\ status' = [status EXCEPT ![d] = "pending"]
                             /\ sha' = [sha EXCEPT ![d] = task[t].content]
                             /\ folder' = [folder EXCEPT ![d] = task[t].place]
                             /\ task' = [task EXCEPT ![t].doc = d]
          /\ Goto(t, "accept")
    /\ UNCHANGED <<index, file, moving, switching, filler, stuck, counters>>

Accept(t) ==
    /\ pc[t] = "accept"
    /\ IF Present(task[t].doc)
       THEN SetStatus(task[t].doc, "parsing") /\ Goto(t, "store") /\ UNCHANGED task
       ELSE End(t) /\ UNCHANGED row
    /\ UNCHANGED <<index, file, moving, switching, filler, stuck, counters>>

\* Mutant: the job is lost.
Spawn_Lost(t, op) == Goto(t, "idle") /\ UNCHANGED task

\* The job takes the slot over; its handler goes on to move_doc beside it.
Spawn(t, op) ==
    /\ task' = [task EXCEPT ![t].op = op]
    /\ Goto(t, IF op = "fresh" THEN "begin" ELSE "read")

Store(t) ==
    /\ pc[t] = "store"
    /\ file' = [file EXCEPT ![task[t].doc] = task[t].content]
    /\ Spawn(t, "fresh")
    /\ moving' = moving \union {t}
    /\ UNCHANGED <<row, index, switching, filler, stuck, counters>>

StoreFails(t) ==
    /\ pc[t] = "store"
    /\ Once("disk")
    /\ SetFailed(task[t].doc)
    /\ End(t)
    /\ UNCHANGED <<index, file, moving, switching, filler, stuck>>

\* dedup_action: what is online or on its way is used as it is.
Reusable(d) == status[d] \in {"embedded", "pending", "parsing"}

\* dedup_dispatch.
Dedup(t) ==
    /\ pc[t] = "dedup"
    /\ IF ~Present(task[t].doc) THEN End(t) /\ UNCHANGED moving
       ELSE /\ moving' = moving \union {t}
            /\ IF Reusable(task[t].doc)
               THEN Goto(t, "idle") /\ UNCHANGED task
               ELSE Spawn(t, "rebuild")
    /\ UNCHANGED <<row, index, file, switching, filler, stuck, counters>>

\* Mutant: a document is overwritten whatever it is doing.
Busy_Never(d) == FALSE

\* overwrite_action: the first ingest of the document is still running.
Busy(d) == status[d] \in InProgress

\* overwrite_dispatch.
Replaceable(t) ==
    /\ pc[t] = "replaceable"
    /\ IF ~Present(task[t].doc) \/ Busy(task[t].doc) THEN End(t) /\ UNCHANGED moving
       ELSE moving' = moving \union {t} /\ Spawn(t, "overwrite")
    /\ UNCHANGED <<row, index, file, switching, filler, stuck, counters>>

\* The handler's last statement, beside the job: the folder of the request.
Move(t) ==
    /\ t \in moving
    /\ IF Present(task[t].doc) THEN MoveDoc(task[t].doc, task[t].place)
       ELSE UNCHANGED <<row, index>>
    /\ moving' = moving \ {t}
    /\ task' = IF pc[t] = "idle" THEN [task EXCEPT ![t] = NoTask] ELSE task
    /\ UNCHANGED <<file, pc, switching, filler, stuck, counters>>

\* The client disconnects: the handler is dropped where it awaits.
Cancel(t) ==
    /\ Once("cancel")
    /\ \/ pc[t] \in HandlerSteps /\ End(t) /\ UNCHANGED moving
       \/ /\ t \in moving
          /\ moving' = moving \ {t}
          /\ task' = IF pc[t] = "idle" THEN [task EXCEPT ![t] = NoTask] ELSE task
          /\ UNCHANGED pc
    /\ UNCHANGED <<row, index, file, switching, filler, stuck>>

(***************************************************************************)
(* run: the first ingest of a document                                     *)
(***************************************************************************)
Begin(t) ==
    /\ pc[t] = "begin"
    /\ IF Present(task[t].doc)
       THEN SetStatus(task[t].doc, "parsing") /\ Goto(t, "save")
       ELSE Goto(t, "fail") /\ UNCHANGED row
    /\ UNCHANGED <<index, file, task, moving, switching, filler, stuck, counters>>

Save(t) ==
    /\ pc[t] = "save"
    /\ file' = [file EXCEPT ![task[t].doc] = task[t].content]
    /\ Goto(t, "parse")
    /\ UNCHANGED <<row, index, task, moving, switching, filler, stuck, counters>>

Parse(t) ==
    /\ pc[t] = "parse"
    /\ Goto(t, "insert")
    /\ UNCHANGED <<row, index, file, task, moving, switching, filler, stuck, counters>>

\* run returns before its first chunk is stored: disk, parser, no text.
RunFails(t) ==
    /\ \/ pc[t] = "save" /\ Once("disk")
       \/ pc[t] = "parse" /\ Once("parse")
    /\ Goto(t, "fail")
    /\ UNCHANGED <<row, index, file, task, moving, switching, filler, stuck>>

\* insert_chunks: ON CONFLICT DO NOTHING, and no row written is an error.
InsertChunks(t) ==
    /\ pc[t] = "insert"
    /\ LET d == task[t].doc IN
       IF Present(d) /\ chunk[d] = None
       THEN chunk' = [chunk EXCEPT ![d] = task[t].content] /\ Goto(t, "count")
       ELSE Goto(t, "fail") /\ UNCHANGED chunk
    /\ UNCHANGED <<row, vec, file, task, moving, switching, filler, stuck, counters>>

\* set_counts and set_status(Chunked).
Count(t) ==
    /\ pc[t] = "count"
    /\ IF Present(task[t].doc)
       THEN SetStatus(task[t].doc, "chunked") /\ Goto(t, "texts")
       ELSE Goto(t, "fail") /\ UNCHANGED row
    /\ UNCHANGED <<index, file, task, moving, switching, filler, stuck, counters>>

ReadTexts(t) ==
    /\ pc[t] = "texts"
    /\ task' = [task EXCEPT ![t].text = TextOf(task[t].doc)]
    /\ Goto(t, "embed")
    /\ UNCHANGED <<row, index, file, moving, switching, filler, stuck, counters>>

Embed(t) ==
    /\ pc[t] = "embed"
    /\ Goto(t, "publish")
    /\ UNCHANGED <<row, index, file, task, moving, switching, filler, stuck, counters>>

\* Without vectors the document stays searchable as text.
EmbedUnavailable(t) ==
    /\ pc[t] = "embed"
    /\ Once("embed")
    /\ IF Present(task[t].doc)
       THEN SetStatus(task[t].doc, "chunked") /\ End(t)
       ELSE Goto(t, "fail") /\ UNCHANGED <<row, task>>
    /\ UNCHANGED <<index, file, moving, switching, filler, stuck>>

Publish(t) ==
    /\ pc[t] = "publish"
    /\ WriteVectors(task[t].doc, task[t].text)
    /\ Goto(t, "promote")
    /\ UNCHANGED <<row, chunk, file, task, moving, switching, filler, stuck, counters>>

\* promote_doc_if_ready.
Promote(t) ==
    /\ pc[t] = "promote"
    /\ IF Ready(task[t].doc) THEN SetStatus(task[t].doc, "embedded") ELSE UNCHANGED row
    /\ End(t)
    /\ UNCHANGED <<index, file, moving, switching, filler, stuck, counters>>

\* run_job: the error of a first ingest is written into the row.
Fail(t) ==
    /\ pc[t] = "fail"
    /\ SetFailed(task[t].doc)
    /\ End(t)
    /\ UNCHANGED <<index, file, moving, switching, filler, stuck, counters>>

(***************************************************************************)
(* reprocess and overwrite: a shadow index, switched in under the lock     *)
(***************************************************************************)
\* The reprocess endpoint: a table file goes the way of an overwrite.  It does
\* not look at the document's status.
Reprocess(t, d) ==
    /\ Idle(t)
    /\ Once("reprocess")
    /\ Present(d) /\ file[d] # None
    /\ \E op \in {"rebuild", "overwrite"} :
         task' = [task EXCEPT ![t] = [NoTask EXCEPT !.doc = d, !.content = file[d], !.op = op]]
    /\ Goto(t, "read")
    /\ UNCHANGED <<row, index, file, moving, switching, filler, stuck>>

\* get_doc: the shadow's texts are those of the folder the document is in now.
ReadRow(t) ==
    /\ pc[t] = "read"
    /\ IF Present(task[t].doc)
       THEN /\ task' = [task EXCEPT ![t].text = <<task[t].content, folder[task[t].doc]>>]
            /\ Goto(t, "shadow")
       ELSE End(t)
    /\ UNCHANGED <<row, index, file, moving, switching, filler, stuck, counters>>

BuildShadow(t) ==
    /\ pc[t] = "shadow"
    /\ Goto(t, "lock")
    /\ UNCHANGED <<row, index, file, task, moving, switching, filler, stuck, counters>>

\* Only last_ingest_error changes.
ShadowFails(t) ==
    /\ pc[t] = "shadow"
    /\ \E kind \in {"disk", "parse", "embed"} : Once(kind)
    /\ End(t)
    /\ UNCHANGED <<row, index, file, moving, switching, filler, stuck>>

TakeLock(t) ==
    /\ pc[t] = "lock"
    /\ switching = None
    /\ switching' = t
    /\ Goto(t, IF task[t].op = "overwrite" THEN "shift" ELSE "heal")
    /\ UNCHANGED <<row, index, file, task, moving, filler, stuck, counters>>

\* The guard of FILE_SWITCH_LOCK goes out of scope with the job.
Leave(t) == End(t) /\ switching' = None

\* restore_missing_live_file.
RestoreMissing(t) ==
    /\ pc[t] = "heal"
    /\ LET d == task[t].doc IN
       file' = IF file[d] = None THEN [file EXCEPT ![d] = task[t].content] ELSE file
    /\ Goto(t, "replace")
    /\ UNCHANGED <<row, index, task, moving, switching, filler, stuck, counters>>

\* install_staged_file: the old file is moved aside, then the new one put there.
Shift(t) ==
    /\ pc[t] = "shift"
    /\ LET d == task[t].doc IN
       /\ task' = [task EXCEPT ![t].kept = file[d]]
       /\ file' = [file EXCEPT ![d] = None]
    /\ Goto(t, "install")
    /\ UNCHANGED <<row, index, moving, switching, filler, stuck, counters>>

Install(t) ==
    /\ pc[t] = "install"
    /\ file' = [file EXCEPT ![task[t].doc] = task[t].content]
    /\ Goto(t, "replace")
    /\ UNCHANGED <<row, index, task, moving, switching, filler, stuck, counters>>

\* A rename fails; the second one puts the old file back.
InstallFails(t) ==
    /\ pc[t] \in {"heal", "shift", "install"}
    /\ Once("disk")
    /\ file' = IF pc[t] = "install" THEN [file EXCEPT ![task[t].doc] = task[t].kept] ELSE file
    /\ Leave(t)
    /\ UNCHANGED <<row, index, moving, filler, stuck>>

\* What a job does when it takes the index switch for failed.
SwitchFailed(t) ==
    IF task[t].op = "overwrite"
    THEN Goto(t, "restore") /\ UNCHANGED <<task, switching>>
    ELSE Leave(t)

Replace(t) ==
    /\ pc[t] = "replace"
    /\ IF Present(task[t].doc) /\ ~ShaTaken(t)
       THEN ReplaceChunks(t) /\ Leave(t)
       ELSE SwitchFailed(t) /\ UNCHANGED <<row, index>>
    /\ UNCHANGED <<file, moving, filler, stuck, counters>>

\* The statement commits and the connection breaks before it says so.
ReplaceUnanswered(t) ==
    /\ pc[t] = "replace"
    /\ Present(task[t].doc) /\ ~ShaTaken(t)
    /\ Once("answer")
    /\ ReplaceChunks(t)
    /\ SwitchFailed(t)
    /\ UNCHANGED <<file, moving, filler, stuck>>

\* Mutant: the new file stays.
Restored_New(t) == file[task[t].doc]

Restored(t) == task[t].kept

\* restore_live_file.
Restore(t) ==
    /\ pc[t] = "restore"
    /\ file' = [file EXCEPT ![task[t].doc] = Restored(t)]
    /\ Leave(t)
    /\ UNCHANGED <<row, index, moving, filler, stuck, counters>>

\* The new file cannot be removed, or the old one not put back.
RestoreFails(t) ==
    /\ pc[t] = "restore"
    /\ Once("disk")
    /\ \E left \in {file[task[t].doc], None} : file' = [file EXCEPT ![task[t].doc] = left]
    /\ Leave(t)
    /\ UNCHANGED <<row, index, moving, filler, stuck>>

(***************************************************************************)
(* A statement that fails and has no effect                                *)
(***************************************************************************)
HandlerQueries == HandlerSteps \ {"store"}
FreshQueries == FreshSteps \ {"save", "embed", "fail"}

StatementFails(t) ==
    /\ Once("pg")
    /\ \/ /\ \/ pc[t] \in HandlerQueries \union {"fail", "read"}
             \/ pc[t] = "lock" /\ task[t].op = "overwrite"  \* sha256_hex
          /\ End(t)
          /\ UNCHANGED switching
       \/ /\ pc[t] \in FreshQueries
          /\ Goto(t, "fail")
          /\ UNCHANGED <<task, switching>>
       \/ pc[t] = "replace" /\ SwitchFailed(t)
    /\ UNCHANGED <<row, index, file, moving, filler, stuck>>

MoveFails(t) ==
    /\ t \in moving
    /\ Once("pg")
    /\ moving' = moving \ {t}
    /\ task' = IF pc[t] = "idle" THEN [task EXCEPT ![t] = NoTask] ELSE task
    /\ UNCHANGED <<row, index, file, pc, switching, filler, stuck>>

(***************************************************************************)
(* fill_kb: one round of the embedding back-fill                           *)
(***************************************************************************)
\* Mutant: the back-fill looks among the documents that are done.
Missing_Done(d) == status[d] = "embedded" /\ vec[d] = None

\* null_vec_chunks.
Missing(d) == status[d] = "chunked" /\ chunk[d] # None /\ vec[d] = None

FillRead ==
    /\ fstep = "idle"
    /\ \E d \in Docs : status[d] = "chunked"
    /\ fill' = [d \in Docs |-> IF Missing(d) THEN EmbeddingText(d) ELSE None]
    /\ fstep' = "write"
    /\ UNCHANGED <<row, index, file, pc, task, moving, switching, stuck, counters>>

FillWrite(d) ==
    /\ fstep = "write"
    /\ fill[d] # None
    /\ WriteVectors(d, fill[d])
    /\ fill' = [fill EXCEPT ![d] = None]
    /\ UNCHANGED <<row, chunk, file, pc, task, moving, switching, fstep, stuck, counters>>

\* flip_embedded_docs, at the end of every round.
FillFlip ==
    /\ fstep = "write"
    /\ \A d \in Docs : fill[d] = None
    /\ status' = [d \in Docs |-> IF Ready(d) THEN "embedded" ELSE status[d]]
    /\ fstep' = "idle"
    /\ UNCHANGED <<sha, folder, index, file, pc, task, moving, switching, fill, stuck, counters>>

\* The service is away, the round only flips; or a statement fails and ends it.
FillFails ==
    /\ fstep = "write"
    /\ \/ Once("embed") /\ UNCHANGED fstep
       \/ Once("pg") /\ fstep' = "idle"
    /\ fill' = [d \in Docs |-> None]
    /\ UNCHANGED <<row, index, file, pc, task, moving, switching, stuck>>

(***************************************************************************)
(* Restart and recovery                                                    *)
(***************************************************************************)
\* Every task of the process is gone.  The scan of recover_pending sees the
\* documents that have not moved for RECOVER_STALE_MINUTES: any of them.
Crash ==
    /\ Once("crash")
    /\ pc' = [t \in Tasks |-> "idle"]
    /\ task' = [t \in Tasks |-> NoTask]
    /\ moving' = {}
    /\ switching' = None
    /\ fstep' = "idle"
    /\ fill' = [d \in Docs |-> None]
    /\ \E stale \in SUBSET {d \in Docs : status[d] \in InProgress \union {"chunked"}} :
         stuck' = {[doc |-> d, chunks |-> chunk[d] # None] : d \in stale}
    /\ UNCHANGED <<row, index, file, uploads>>

\* recover_one, one document after the other: the file decides what it does, and
\* the scan's has_chunks which job.
Recover ==
    /\ Idle(Recovery)
    /\ \E s \in stuck :
       /\ stuck' = stuck \ {s}
       /\ IF file[s.doc] = None
          THEN /\ SetFailed(s.doc)
               /\ UNCHANGED <<pc, task>>
          ELSE /\ task' = [task EXCEPT ![Recovery] =
                             [NoTask EXCEPT !.doc = s.doc, !.content = file[s.doc],
                                            !.op = IF s.chunks THEN "rebuild" ELSE "fresh"]]
               /\ Goto(Recovery, IF s.chunks THEN "read" ELSE "begin")
               /\ UNCHANGED row
    /\ UNCHANGED <<index, file, moving, switching, filler, counters>>

\* The file cannot be read: left for the next start.
RecoverFails ==
    /\ Idle(Recovery)
    /\ Once("disk")
    /\ \E s \in stuck : stuck' = stuck \ {s}
    /\ UNCHANGED <<row, index, file, pc, task, moving, switching, filler>>

(***************************************************************************)
(* Users                                                                   *)
(***************************************************************************)
UserMoves(d, f) ==
    /\ Once("move")
    /\ Present(d) /\ folder[d] # f
    /\ MoveDoc(d, f)
    /\ UNCHANGED <<file, pc, task, moving, switching, filler, stuck>>

\* delete: the row with its chunks, then the file, which nobody looks for any more.
UserDeletes(d) ==
    /\ Once("delete")
    /\ Present(d)
    /\ status' = [status EXCEPT ![d] = "deleted"]
    /\ sha' = [sha EXCEPT ![d] = None]
    /\ folder' = [folder EXCEPT ![d] = None]
    /\ chunk' = [chunk EXCEPT ![d] = None]
    /\ vec' = [vec EXCEPT ![d] = None]
    /\ file' = [file EXCEPT ![d] = None]
    /\ UNCHANGED <<pc, task, moving, switching, filler, stuck>>

(***************************************************************************)
(* Specification                                                           *)
(***************************************************************************)
HandlerStep(t) ==
    \/ FindBySha(t) \/ FindByName(t) \/ InsertDoc(t) \/ Accept(t) \/ Store(t)
    \/ Dedup(t) \/ Replaceable(t)

FreshStep(t) ==
    \/ Begin(t) \/ Save(t) \/ Parse(t) \/ InsertChunks(t) \/ Count(t) \/ ReadTexts(t)
    \/ Embed(t) \/ Publish(t) \/ Promote(t) \/ Fail(t)

ShadowStep(t) ==
    \/ ReadRow(t) \/ BuildShadow(t) \/ TakeLock(t) \/ RestoreMissing(t)
    \/ Shift(t) \/ Install(t) \/ Replace(t) \/ Restore(t)

Step(t) == HandlerStep(t) \/ FreshStep(t) \/ ShadowStep(t)

Failure(t) ==
    \/ StoreFails(t) \/ Cancel(t) \/ RunFails(t) \/ EmbedUnavailable(t) \/ ShadowFails(t)
    \/ InstallFails(t) \/ ReplaceUnanswered(t) \/ RestoreFails(t) \/ StatementFails(t)
    \/ MoveFails(t)

FillStep == FillRead \/ FillFlip \/ \E d \in Docs : FillWrite(d)

Request(t) ==
    \/ \E c \in Contents, f \in Folders : StartUpload(t, c, f)
    \/ \E d \in Docs : Reprocess(t, d)

Next ==
    \/ \E t \in Slots : Request(t) \/ Move(t)
    \/ \E t \in Tasks : Step(t) \/ Failure(t)
    \/ FillStep \/ FillFails
    \/ Crash \/ Recover \/ RecoverFails
    \/ \E d \in Docs : UserDeletes(d) \/ \E f \in Folders : UserMoves(d, f)

Spec == Init /\ [][Next]_vars

\* Handlers and jobs run on while they can, the rounds of the back-fill and the
\* recovery come back; nobody has to send a request and nothing has to fail.
Fairness ==
    /\ \A t \in Tasks : WF_vars(Step(t))
    /\ \A t \in Slots : WF_vars(Move(t))
    /\ WF_vars(FillStep)
    /\ WF_vars(Recover)

FairSpec == Spec /\ Fairness

(***************************************************************************)
(* Properties                                                              *)
(***************************************************************************)
TypeOK ==
    /\ status \in [Docs -> Statuses]
    /\ sha \in [Docs -> Contents \union {None}]
    /\ folder \in [Docs -> Folders \union {None}]
    /\ chunk \in [Docs -> Contents \union {None}]
    /\ vec \in [Docs -> Texts \union {None}]
    /\ file \in [Docs -> Contents \union {None}]
    /\ pc \in [Tasks -> Steps]
    /\ task \in [Tasks -> TaskRecords]
    /\ moving \subseteq Slots
    /\ switching \in Tasks \union {None}
    /\ fstep \in {"idle", "write"}
    /\ fill \in [Docs -> Texts \union {None}]
    /\ stuck \subseteq [doc : Docs, chunks : BOOLEAN]
    /\ uploads \in 0 .. MaxUploads
    /\ happened \subseteq Events

\* The vectors of a document are those of the text its chunks have now, whichever
\* job, back-fill round, switch or move came in between: the compare-and-set of
\* set_embeddings and set_chunk_embedding.
VectorsCurrent ==
    \A d \in Docs : vec[d] # None => chunk[d] # None /\ vec[d] = EmbeddingText(d)

\* "On display but not to be found" does not exist: retrieval serves chunked and
\* embedded documents, and those have chunks, the embedded ones all their vectors.
ShownIsFound ==
    \A d \in Docs : /\ status[d] \in {"chunked", "embedded"} => chunk[d] # None
                    /\ status[d] = "embedded" => vec[d] # None

Without(kinds) == happened \intersect kinds = {}

Stored(d) ==
    IF status[d] \in InProgress THEN file[d] \in {sha[d], None} ELSE file[d] = sha[d]

\* Outside the switch, the file of a document is the one its row names: install,
\* replace_chunks and restore stand together, whatever job they interleave with.
FileFollowsSha == switching = None => \A d \in Docs : Present(d) => Stored(d)

\* The same, as long as no restart, lost answer, failing file operation or
\* reprocess request came in between.
FileFollowsShaQuietly ==
    Without({"crash", "answer", "disk", "reprocess"}) => FileFollowsSha

InHand(d) ==
    \E t \in Tasks : /\ task[t].doc = d
                     /\ pc[t] \in {"accept", "store"} \union FreshSteps

\* A document shown as in progress has a task that will bring it on.
InProgressIsInHand == \A d \in Docs : status[d] \in InProgress => InHand(d)

InProgressIsInHandQuietly == Without({"cancel", "pg", "crash"}) => InProgressIsInHand

\* A version that is online stays searchable until it is replaced or deleted: no
\* failing job takes it away, as long as no statement of its first ingest fails
\* after the overwrite, and no restart or reprocess request came in between.
OnlineStays ==
    [][Without({"pg", "crash", "reprocess"})' =>
         \A d \in Docs : status[d] = "embedded" =>
                           status'[d] \in {"embedded", "chunked", "deleted"}]_vars

\* What the back-fill is for: no document stays without its vectors for good.
Graduates == \A d \in Docs : status[d] = "chunked" ~> status[d] # "chunked"

\* An accepted upload comes to an end, one way or the other.
Settles ==
    \A d \in Docs : status[d] \in InProgress ~>
                      status[d] \notin InProgress \/ ~Without({"cancel", "pg", "crash"})

\* What FILE_SWITCH_LOCK is meant to ensure: the index is not that of another
\* version than the one its row, and so the next upload's dedup, goes by.
IndexFollowsSha ==
    switching = None => \A d \in Docs : status[d] = "embedded" => chunk[d] = sha[d]

=============================================================================
