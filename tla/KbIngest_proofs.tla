--------------------------- MODULE KbIngest_proofs ---------------------------
(***************************************************************************)
(* Proofs about KbIngest, for any sets of documents, contents, folders and   *)
(* upload slots, any number of requests and any events.                      *)
(***************************************************************************)
EXTENDS KbIngest, TLAPS

(***************************************************************************)
(* The inductive invariant                                                 *)
(***************************************************************************)
\* The steps at which a task has a document.
DocSteps == Steps \ {"idle", "bySha", "byName", "insertDoc"}

\* After insert_chunks the document has chunks, unless it was deleted.
HasChunks(d) == Present(d) => chunk[d] # None

TaskOK(t) ==
    /\ pc[t] # "idle" => task[t].content \in Contents
    /\ pc[t] \in DocSteps => task[t].doc \in Docs
    /\ pc[t] \in HandlerSteps => t \in Slots /\ task[t].place \in Folders
    /\ t \in moving => task[t].doc \in Docs /\ task[t].place \in Folders
    /\ task[t].doc # None => status[task[t].doc] # "none"
    /\ pc[t] \in {"count", "texts", "embed"} => HasChunks(task[t].doc)

TasksOK == \A t \in Tasks : TaskOK(t)

StuckOK == \A s \in stuck : status[s.doc] # "none"

\* A row that is there has a folder, one that is not has no index.
RowsOK ==
    \A d \in Docs : IF Present(d) THEN folder[d] \in Folders
                    ELSE chunk[d] = None /\ vec[d] = None

DataOK == RowsOK /\ VectorsCurrent /\ ShownIsFound

IInv == TypeOK /\ DataOK /\ TasksOK /\ StuckOK

RowTypes ==
    /\ status \in [Docs -> Statuses]
    /\ sha \in [Docs -> Contents \union {None}]
    /\ folder \in [Docs -> Folders \union {None}]

IndexTypes ==
    /\ chunk \in [Docs -> Contents \union {None}]
    /\ vec \in [Docs -> Texts \union {None}]

\* What every step does for the tasks that do not take it.
Stays ==
    \A d \in Docs : status[d] # "none" => /\ status'[d] # "none"
                                          /\ HasChunks(d) => HasChunks(d)'

(***************************************************************************)
(* The statements of the store keep the rows and the index in order         *)
(***************************************************************************)
\* A step that leaves the rows and the index alone.
LEMMA Frame ==
    ASSUME RowTypes, IndexTypes, DataOK, UNCHANGED <<row, index>>
    PROVE  RowTypes' /\ IndexTypes' /\ DataOK' /\ Stays
  BY SMTT(60) DEF RowTypes, IndexTypes, DataOK, Stays, row, index, RowsOK, VectorsCurrent, ShownIsFound,
         Present, EmbeddingText, HasChunks

\* set_status: what is served has chunks, and what is embedded its vectors.
LEMMA SetStatusOK ==
    ASSUME RowTypes, IndexTypes, DataOK,
           NEW d \in Docs, Present(d),
           NEW s \in {"parsing", "failed", "chunked", "embedded"},
           s \in {"chunked", "embedded"} => chunk[d] # None,
           s = "embedded" => vec[d] # None,
           SetStatus(d, s), UNCHANGED index
    PROVE  RowTypes' /\ IndexTypes' /\ DataOK' /\ Stays
  BY SMTT(60) DEF SetStatus, RowTypes, IndexTypes, DataOK, Stays, index, RowsOK, VectorsCurrent, ShownIsFound,
         Present, EmbeddingText, HasChunks, Statuses

\* set_status(Failed), on a row that may be gone.
LEMMA SetFailedOK ==
    ASSUME RowTypes, IndexTypes, DataOK, NEW d \in Docs, SetFailed(d), UNCHANGED index
    PROVE  RowTypes' /\ IndexTypes' /\ DataOK' /\ Stays
  BY SetStatusOK, Frame DEF SetFailed

\* replace_chunks: vectors only where they are those of the new text.
LEMMA ReplaceChunksOK ==
    ASSUME RowTypes, IndexTypes, DataOK, NEW t, ReplaceChunks(t),
           task[t].doc \in Docs, task[t].content \in Contents, Present(task[t].doc)
    PROVE  RowTypes' /\ IndexTypes' /\ DataOK' /\ Stays
  BY NoneAssumption, SMTT(60) DEF ReplaceChunks, ReplacedStatus, RowTypes, IndexTypes, DataOK, Stays, RowsOK,
         VectorsCurrent, ShownIsFound, Present, EmbeddingText, HasChunks, Statuses, Texts

\* move_doc: a document whose text changes loses its vectors, and its status with them.
LEMMA MoveDocOK ==
    ASSUME RowTypes, IndexTypes, DataOK,
           NEW d \in Docs, NEW f \in Folders, Present(d), MoveDoc(d, f)
    PROVE  RowTypes' /\ IndexTypes' /\ DataOK' /\ Stays
  <1>1. CASE folder[d] = f
    BY <1>1, Frame DEF MoveDoc
  <1>2. CASE folder[d] # f /\ chunk[d] = None
    BY <1>2, SMTT(60) DEF MoveDoc, RowTypes, IndexTypes, DataOK, Stays, RowsOK, VectorsCurrent,
       ShownIsFound, Present, EmbeddingText, HasChunks
  <1>3. CASE folder[d] # f /\ chunk[d] # None
    BY <1>3, SMTT(60) DEF MoveDoc, MovedStatus, RowTypes, IndexTypes, DataOK, Stays, RowsOK, VectorsCurrent,
       ShownIsFound, Present, EmbeddingText, HasChunks, Statuses
  <1> QED BY <1>1, <1>2, <1>3

\* set_embeddings and set_chunk_embedding: the compare-and-set.
LEMMA WriteVectorsOK ==
    ASSUME RowTypes, IndexTypes, DataOK,
           NEW d \in Docs, NEW text \in Texts \union {None},
           WriteVectors(d, text), UNCHANGED <<row, chunk>>
    PROVE  RowTypes' /\ IndexTypes' /\ DataOK' /\ Stays
  BY SMTT(60) DEF WriteVectors, Fits, row, RowTypes, IndexTypes, DataOK, Stays, RowsOK, VectorsCurrent,
     ShownIsFound, Present, EmbeddingText, HasChunks

(***************************************************************************)
(* A step of one task leaves the others in order                           *)
(***************************************************************************)
\* Only pc[t] and task[t] change, and whether t is in moving.
OnlyOf(t) ==
    /\ \A u \in Tasks \ {t} : pc'[u] = pc[u] /\ task'[u] = task[u]
    /\ moving' \ {t} \subseteq moving

\* The other tasks stay in order: no document in their hands is unmade or loses its chunks.
LEMMA OthersStay ==
    ASSUME TypeOK, TasksOK, Stays, NEW t, OnlyOf(t), TaskOK(t)'
    PROVE  TasksOK'
  <1> SUFFICES ASSUME NEW u \in Tasks, u # t PROVE TaskOK(u)'
    BY DEF TasksOK
  <1>1. TaskOK(u) /\ pc'[u] = pc[u] /\ task'[u] = task[u] /\ (u \in moving' => u \in moving)
    BY DEF TasksOK, OnlyOf
  <1>2. task[u].doc \in Docs \union {None}
    BY DEF TypeOK, TaskRecords
  <1>3. pc[u] \in {"count", "texts", "embed"} => pc[u] \in DocSteps
    BY DEF DocSteps, Steps, FreshSteps
  <1>4. None \notin Docs
    BY DocsAssumption
  <1> QED BY <1>1, <1>2, <1>3, <1>4 DEF TaskOK, Stays

\* Everything of TypeOK but the rows and the index.
RunTypes ==
    /\ file \in [Docs -> Contents \union {None}]
    /\ pc \in [Tasks -> Steps]
    /\ task \in [Tasks -> TaskRecords]
    /\ moving \subseteq Slots
    /\ switching \in Tasks \union {None}
    /\ fstep \in {"idle", "write"}
    /\ fill \in [Docs -> Texts \union {None}]
    /\ stuck \subseteq [doc : Docs, chunks : BOOLEAN]
    /\ uploads \in 0 .. MaxUploads
    /\ happened \subseteq Events

DataStep == RowTypes' /\ IndexTypes' /\ DataOK' /\ Stays

\* A step of task t keeps the invariant when its statement is in order, the types
\* hold, and t is in order afterwards.
LEMMA Combine ==
    ASSUME IInv, NEW t, DataStep, RunTypes', OnlyOf(t), TaskOK(t)', stuck' \subseteq stuck
    PROVE  IInv'
  <1>1. TypeOK'
    BY DEF TypeOK, RunTypes, DataStep, RowTypes, IndexTypes
  <1>2. TasksOK'
    BY OthersStay DEF IInv, DataStep
  <1>3. StuckOK'
    BY DEF IInv, StuckOK, TypeOK, DataStep, Stays
  <1> QED BY <1>1, <1>2, <1>3 DEF IInv, DataStep

\* A step that is no task's leaves every task in order.
LEMMA CombineRest ==
    ASSUME IInv, DataStep, RunTypes', UNCHANGED <<pc, task, moving>>, stuck' \subseteq stuck
    PROVE  IInv'
  <1>1. TypeOK'
    BY DEF TypeOK, RunTypes, DataStep, RowTypes, IndexTypes
  <1>2. ASSUME NEW u \in Tasks PROVE TaskOK(u)'
    <2>1. TaskOK(u) /\ pc'[u] = pc[u] /\ task'[u] = task[u] /\ moving' = moving
      BY DEF IInv, TasksOK
    <2>2. task[u].doc \in Docs \union {None}
      BY DEF IInv, TypeOK, TaskRecords
    <2>3. pc[u] \in {"count", "texts", "embed"} => pc[u] \in DocSteps
      BY DEF DocSteps, Steps, FreshSteps
    <2> QED
      BY <2>1, <2>2, <2>3, DocsAssumption DEF TaskOK, Stays, DataStep
  <1>3. StuckOK'
    BY DEF IInv, StuckOK, TypeOK, DataStep, Stays
  <1> QED BY <1>1, <1>2, <1>3 DEF IInv, DataStep, TasksOK

\* The upload handler.
LEMMA HandlerKeeps ==
    ASSUME IInv, NEW t \in Tasks, HandlerStep(t)
    PROVE  IInv'
  <1> USE DEF RunTypes, TaskRecords, Steps, HandlerSteps, FreshSteps, ShadowSteps, SwitchSteps,
              DocSteps, TaskOK, NoTask, Goto, End, filler, counters
  <1>a. RunTypes /\ TaskOK(t)
    BY DEF IInv, TypeOK, TasksOK
  <1>b. RowTypes /\ IndexTypes /\ DataOK
    BY DEF IInv, TypeOK, RowTypes, IndexTypes
  <1>1. CASE FindBySha(t)
    <2>1. DataStep
      BY <1>1, <1>b, Frame DEF FindBySha, DataStep, row, index
    <2>2. RunTypes'
      BY <1>1, <1>a, TasksAssumption, SMTT(60) DEF FindBySha, Present
    <2>3. OnlyOf(t)
      BY <1>1, <1>a DEF FindBySha, OnlyOf, Present
    <2>4. TaskOK(t)'
      BY <1>1, <1>a, <2>1, TasksAssumption, DocsAssumption, SMTT(60) DEF FindBySha, DataStep,
         Stays, Present
    <2> QED
      BY <1>1, <2>1, <2>2, <2>3, <2>4, Combine DEF FindBySha, Present
  <1>2. CASE FindByName(t)
    <2>1. DataStep
      BY <1>2, <1>b, Frame DEF FindByName, DataStep, row, index
    <2>2. RunTypes'
      BY <1>2, <1>a, TasksAssumption, SMTT(60) DEF FindByName, Present
    <2>3. OnlyOf(t)
      BY <1>2, <1>a DEF FindByName, OnlyOf, Present
    <2>4. TaskOK(t)'
      BY <1>2, <1>a, <2>1, TasksAssumption, DocsAssumption, SMTT(60) DEF FindByName, DataStep,
         Stays, Present
    <2> QED
      BY <1>2, <2>1, <2>2, <2>3, <2>4, Combine DEF FindByName, Present
  <1>3. CASE InsertDoc(t)
    <2>1. DataStep
      <3>1. CASE UNCHANGED row
        BY <1>3, <1>b, <3>1, Frame DEF InsertDoc, DataStep
      <3>2. CASE \E d \in Docs : /\ status[d] = "none"
                                /\ status' = [status EXCEPT ![d] = "pending"]
                                /\ sha' = [sha EXCEPT ![d] = task[t].content]
                                /\ folder' = [folder EXCEPT ![d] = task[t].place]
        BY <1>3, <1>a, <1>b, <3>2, SMTT(60) DEF InsertDoc, DataStep, RowTypes, IndexTypes,
           DataOK, RowsOK,
           VectorsCurrent, ShownIsFound, Stays, Present, HasChunks, EmbeddingText, Statuses,
              index
      <3> QED BY <1>3, <3>1, <3>2 DEF InsertDoc
    <2>2. RunTypes'
      BY <1>3, <1>a, TasksAssumption, SMTT(60) DEF InsertDoc, Present
    <2>3. OnlyOf(t)
      BY <1>3, <1>a DEF InsertDoc, OnlyOf, Present
    <2>4. TaskOK(t)'
      BY <1>3, <1>a, <2>1, <1>b, TasksAssumption, DocsAssumption, SMTT(60) DEF InsertDoc,
         DataStep, Stays, Present, RowTypes, Statuses
    <2> QED
      BY <1>3, <2>1, <2>2, <2>3, <2>4, Combine DEF InsertDoc, Present
  <1>4. CASE Accept(t)
    <2>1. DataStep
      BY <1>4, <1>a, <1>b, SetStatusOK, Frame DEF Accept, DataStep, row
    <2>2. RunTypes'
      BY <1>4, <1>a, TasksAssumption, SMTT(60) DEF Accept
    <2>3. OnlyOf(t)
      BY <1>4, <1>a DEF Accept, OnlyOf
    <2>4. TaskOK(t)'
      BY <1>4, <1>a, <2>1, TasksAssumption, DocsAssumption, SMTT(60) DEF Accept, DataStep, Stays
    <2> QED
      BY <1>4, <2>1, <2>2, <2>3, <2>4, Combine DEF Accept
  <1>5. CASE Store(t)
    <2>1. DataStep
      BY <1>5, <1>b, Frame DEF Store, DataStep, row, index
    <2>2. RunTypes'
      BY <1>5, <1>a, TasksAssumption, SMTT(60) DEF Store, Spawn
    <2>3. OnlyOf(t)
      BY <1>5, <1>a DEF Store, OnlyOf, Spawn
    <2>4. TaskOK(t)'
      BY <1>5, <1>a, <2>1, TasksAssumption, DocsAssumption, SMTT(60) DEF Store, DataStep,
         Stays, Spawn
    <2> QED
      BY <1>5, <2>1, <2>2, <2>3, <2>4, Combine DEF Store, Spawn
  <1>6. CASE Dedup(t)
    <2>1. DataStep
      BY <1>6, <1>b, Frame DEF Dedup, DataStep, row, index
    <2>2. RunTypes'
      BY <1>6, <1>a, TasksAssumption, SMTT(60) DEF Dedup, Spawn
    <2>3. OnlyOf(t)
      BY <1>6, <1>a DEF Dedup, OnlyOf, Spawn
    <2>4. TaskOK(t)'
      BY <1>6, <1>a, <2>1, TasksAssumption, DocsAssumption, SMTT(60) DEF Dedup, DataStep,
         Stays, Spawn
    <2> QED
      BY <1>6, <2>1, <2>2, <2>3, <2>4, Combine DEF Dedup, Spawn
  <1>7. CASE Replaceable(t)
    <2>1. DataStep
      BY <1>7, <1>b, Frame DEF Replaceable, DataStep, row, index
    <2>2. RunTypes'
      BY <1>7, <1>a, TasksAssumption, SMTT(60) DEF Replaceable, Spawn
    <2>3. OnlyOf(t)
      BY <1>7, <1>a DEF Replaceable, OnlyOf, Spawn
    <2>4. TaskOK(t)'
      BY <1>7, <1>a, <2>1, TasksAssumption, DocsAssumption, SMTT(60) DEF Replaceable, DataStep,
         Stays, Spawn
    <2> QED
      BY <1>7, <2>1, <2>2, <2>3, <2>4, Combine DEF Replaceable, Spawn
  <1> QED
    BY <1>1, <1>2, <1>3, <1>4, <1>5, <1>6, <1>7 DEF HandlerStep

\* The first ingest.
LEMMA FreshKeeps ==
    ASSUME IInv, NEW t \in Tasks, FreshStep(t)
    PROVE  IInv'
  <1> USE DEF RunTypes, TaskRecords, Steps, HandlerSteps, FreshSteps, ShadowSteps, SwitchSteps,
              DocSteps, TaskOK, NoTask, Goto, End, filler, counters
  <1>a. RunTypes /\ TaskOK(t)
    BY DEF IInv, TypeOK, TasksOK
  <1>b. RowTypes /\ IndexTypes /\ DataOK
    BY DEF IInv, TypeOK, RowTypes, IndexTypes
  <1>1. CASE Begin(t)
    <2>1. DataStep
      BY <1>1, <1>a, <1>b, SetStatusOK, Frame DEF Begin, DataStep, row
    <2>2. RunTypes'
      BY <1>1, <1>a, TasksAssumption, SMTT(60) DEF Begin
    <2>3. OnlyOf(t)
      BY <1>1, <1>a DEF Begin, OnlyOf
    <2>4. TaskOK(t)'
      BY <1>1, <1>a, <2>1, TasksAssumption, DocsAssumption, SMTT(60) DEF Begin, DataStep, Stays
    <2> QED
      BY <1>1, <2>1, <2>2, <2>3, <2>4, Combine DEF Begin
  <1>2. CASE Save(t)
    <2>1. DataStep
      BY <1>2, <1>b, Frame DEF Save, DataStep, row, index
    <2>2. RunTypes'
      BY <1>2, <1>a, TasksAssumption, SMTT(60) DEF Save
    <2>3. OnlyOf(t)
      BY <1>2, <1>a DEF Save, OnlyOf
    <2>4. TaskOK(t)'
      BY <1>2, <1>a, <2>1, TasksAssumption, DocsAssumption, SMTT(60) DEF Save, DataStep, Stays
    <2> QED
      BY <1>2, <2>1, <2>2, <2>3, <2>4, Combine DEF Save
  <1>3. CASE Parse(t)
    <2>1. DataStep
      BY <1>3, <1>b, Frame DEF Parse, DataStep, row, index
    <2>2. RunTypes'
      BY <1>3, <1>a, TasksAssumption, SMTT(60) DEF Parse
    <2>3. OnlyOf(t)
      BY <1>3, <1>a DEF Parse, OnlyOf
    <2>4. TaskOK(t)'
      BY <1>3, <1>a, <2>1, TasksAssumption, DocsAssumption, SMTT(60) DEF Parse, DataStep, Stays
    <2> QED
      BY <1>3, <2>1, <2>2, <2>3, <2>4, Combine DEF Parse
  <1>4. CASE InsertChunks(t)
    <2>1. DataStep
      <3>1. CASE UNCHANGED chunk
        BY <1>4, <1>b, <3>1, Frame DEF InsertChunks, DataStep, index
      <3>2. CASE UNCHANGED vec /\ Present(task[t].doc) /\ chunk[task[t].doc] = None
                 /\ chunk' = [chunk EXCEPT ![task[t].doc] = task[t].content]
        BY <1>4, <1>a, <1>b, <3>2, NoneAssumption, SMTT(60) DEF InsertChunks, row, DataStep,
           RowTypes, IndexTypes, DataOK, RowsOK,
           VectorsCurrent, ShownIsFound, Stays, Present, HasChunks, EmbeddingText
      <3> QED BY <1>4, <3>1, <3>2 DEF InsertChunks
    <2>2. RunTypes'
      BY <1>4, <1>a, TasksAssumption, SMTT(60) DEF InsertChunks, HasChunks
    <2>3. OnlyOf(t)
      BY <1>4, <1>a DEF InsertChunks, OnlyOf, HasChunks
    <2>4. TaskOK(t)'
      BY <1>4, <1>a, <2>1, <1>b, NoneAssumption, TasksAssumption, DocsAssumption,
         SMTT(60) DEF InsertChunks, DataStep, Stays, HasChunks, IndexTypes
    <2> QED
      BY <1>4, <2>1, <2>2, <2>3, <2>4, Combine DEF InsertChunks, HasChunks
  <1>5. CASE Count(t)
    <2>1. DataStep
      BY <1>5, <1>a, <1>b, SetStatusOK, Frame DEF Count, DataStep, row, HasChunks
    <2>2. RunTypes'
      BY <1>5, <1>a, TasksAssumption, SMTT(60) DEF Count
    <2>3. OnlyOf(t)
      BY <1>5, <1>a DEF Count, OnlyOf
    <2>4. TaskOK(t)'
      BY <1>5, <1>a, <2>1, TasksAssumption, DocsAssumption, SMTT(60) DEF Count, DataStep, Stays
    <2> QED
      BY <1>5, <2>1, <2>2, <2>3, <2>4, Combine DEF Count
  <1>6. CASE ReadTexts(t)
    <2>1. DataStep
      BY <1>6, <1>b, Frame DEF ReadTexts, DataStep, row, index
    <2>2. RunTypes'
      BY <1>6, <1>a, <1>b, TasksAssumption, SMTT(60) DEF ReadTexts, TextOf, EmbeddingText,
         Texts, IndexTypes, RowTypes, DataOK, RowsOK
    <2>3. OnlyOf(t)
      BY <1>6, <1>a DEF ReadTexts, OnlyOf
    <2>4. TaskOK(t)'
      BY <1>6, <1>a, <2>1, TasksAssumption, DocsAssumption, SMTT(60) DEF ReadTexts, DataStep,
         Stays
    <2> QED
      BY <1>6, <2>1, <2>2, <2>3, <2>4, Combine DEF ReadTexts
  <1>7. CASE Embed(t)
    <2>1. DataStep
      BY <1>7, <1>b, Frame DEF Embed, DataStep, row, index
    <2>2. RunTypes'
      BY <1>7, <1>a, TasksAssumption, SMTT(60) DEF Embed
    <2>3. OnlyOf(t)
      BY <1>7, <1>a DEF Embed, OnlyOf
    <2>4. TaskOK(t)'
      BY <1>7, <1>a, <2>1, TasksAssumption, DocsAssumption, SMTT(60) DEF Embed, DataStep, Stays
    <2> QED
      BY <1>7, <2>1, <2>2, <2>3, <2>4, Combine DEF Embed
  <1>8. CASE Publish(t)
    <2>1. DataStep
      BY <1>8, <1>a, <1>b, WriteVectorsOK DEF Publish, DataStep
    <2>2. RunTypes'
      BY <1>8, <1>a, TasksAssumption, SMTT(60) DEF Publish
    <2>3. OnlyOf(t)
      BY <1>8, <1>a DEF Publish, OnlyOf
    <2>4. TaskOK(t)'
      BY <1>8, <1>a, <2>1, TasksAssumption, DocsAssumption, SMTT(60) DEF Publish, DataStep,
         Stays
    <2> QED
      BY <1>8, <2>1, <2>2, <2>3, <2>4, Combine DEF Publish
  <1>9. CASE Promote(t)
    <2>1. DataStep
      BY <1>9, <1>a, <1>b, SetStatusOK, Frame DEF Promote, DataStep, row, Ready, Present
    <2>2. RunTypes'
      BY <1>9, <1>a, TasksAssumption, SMTT(60) DEF Promote
    <2>3. OnlyOf(t)
      BY <1>9, <1>a DEF Promote, OnlyOf
    <2>4. TaskOK(t)'
      BY <1>9, <1>a, <2>1, TasksAssumption, DocsAssumption, SMTT(60) DEF Promote, DataStep,
         Stays
    <2> QED
      BY <1>9, <2>1, <2>2, <2>3, <2>4, Combine DEF Promote
  <1>10. CASE Fail(t)
    <2>1. DataStep
      BY <1>10, <1>a, <1>b, SetFailedOK DEF Fail, DataStep
    <2>2. RunTypes'
      BY <1>10, <1>a, TasksAssumption, SMTT(60) DEF Fail
    <2>3. OnlyOf(t)
      BY <1>10, <1>a DEF Fail, OnlyOf
    <2>4. TaskOK(t)'
      BY <1>10, <1>a, <2>1, TasksAssumption, DocsAssumption, SMTT(60) DEF Fail, DataStep, Stays
    <2> QED
      BY <1>10, <2>1, <2>2, <2>3, <2>4, Combine DEF Fail
  <1> QED
    BY <1>1, <1>2, <1>3, <1>4, <1>5, <1>6, <1>7, <1>8, <1>9, <1>10 DEF FreshStep

\* The shadow index and its switch.
LEMMA ShadowKeeps ==
    ASSUME IInv, NEW t \in Tasks, ShadowStep(t)
    PROVE  IInv'
  <1> USE DEF RunTypes, TaskRecords, Steps, HandlerSteps, FreshSteps, ShadowSteps, SwitchSteps,
              DocSteps, TaskOK, NoTask, Goto, End, filler, counters
  <1>a. RunTypes /\ TaskOK(t)
    BY DEF IInv, TypeOK, TasksOK
  <1>b. RowTypes /\ IndexTypes /\ DataOK
    BY DEF IInv, TypeOK, RowTypes, IndexTypes
  <1>1. CASE ReadRow(t)
    <2>1. DataStep
      BY <1>1, <1>b, Frame DEF ReadRow, DataStep, row, index
    <2>2. RunTypes'
      BY <1>1, <1>a, <1>b, TasksAssumption, SMTT(60) DEF ReadRow, Texts, RowTypes, DataOK,
         RowsOK
    <2>3. OnlyOf(t)
      BY <1>1, <1>a DEF ReadRow, OnlyOf
    <2>4. TaskOK(t)'
      BY <1>1, <1>a, <2>1, TasksAssumption, DocsAssumption, SMTT(60) DEF ReadRow, DataStep,
         Stays
    <2> QED
      BY <1>1, <2>1, <2>2, <2>3, <2>4, Combine DEF ReadRow
  <1>2. CASE BuildShadow(t)
    <2>1. DataStep
      BY <1>2, <1>b, Frame DEF BuildShadow, DataStep, row, index
    <2>2. RunTypes'
      BY <1>2, <1>a, TasksAssumption, SMTT(60) DEF BuildShadow
    <2>3. OnlyOf(t)
      BY <1>2, <1>a DEF BuildShadow, OnlyOf
    <2>4. TaskOK(t)'
      BY <1>2, <1>a, <2>1, TasksAssumption, DocsAssumption, SMTT(60) DEF BuildShadow, DataStep,
         Stays
    <2> QED
      BY <1>2, <2>1, <2>2, <2>3, <2>4, Combine DEF BuildShadow
  <1>3. CASE TakeLock(t)
    <2>1. DataStep
      BY <1>3, <1>b, Frame DEF TakeLock, DataStep, row, index
    <2>2. RunTypes'
      BY <1>3, <1>a, TasksAssumption, SMTT(60) DEF TakeLock
    <2>3. OnlyOf(t)
      BY <1>3, <1>a DEF TakeLock, OnlyOf
    <2>4. TaskOK(t)'
      BY <1>3, <1>a, <2>1, TasksAssumption, DocsAssumption, SMTT(60) DEF TakeLock, DataStep,
         Stays
    <2> QED
      BY <1>3, <2>1, <2>2, <2>3, <2>4, Combine DEF TakeLock
  <1>4. CASE RestoreMissing(t)
    <2>1. DataStep
      BY <1>4, <1>b, Frame DEF RestoreMissing, DataStep, row, index
    <2>2. RunTypes'
      BY <1>4, <1>a, TasksAssumption, SMTT(60) DEF RestoreMissing
    <2>3. OnlyOf(t)
      BY <1>4, <1>a DEF RestoreMissing, OnlyOf
    <2>4. TaskOK(t)'
      BY <1>4, <1>a, <2>1, TasksAssumption, DocsAssumption, SMTT(60) DEF RestoreMissing,
         DataStep, Stays
    <2> QED
      BY <1>4, <2>1, <2>2, <2>3, <2>4, Combine DEF RestoreMissing
  <1>5. CASE Shift(t)
    <2>1. DataStep
      BY <1>5, <1>b, Frame DEF Shift, DataStep, row, index
    <2>2. RunTypes'
      BY <1>5, <1>a, TasksAssumption, SMTT(60) DEF Shift
    <2>3. OnlyOf(t)
      BY <1>5, <1>a DEF Shift, OnlyOf
    <2>4. TaskOK(t)'
      BY <1>5, <1>a, <2>1, TasksAssumption, DocsAssumption, SMTT(60) DEF Shift, DataStep, Stays
    <2> QED
      BY <1>5, <2>1, <2>2, <2>3, <2>4, Combine DEF Shift
  <1>6. CASE Install(t)
    <2>1. DataStep
      BY <1>6, <1>b, Frame DEF Install, DataStep, row, index
    <2>2. RunTypes'
      BY <1>6, <1>a, TasksAssumption, SMTT(60) DEF Install
    <2>3. OnlyOf(t)
      BY <1>6, <1>a DEF Install, OnlyOf
    <2>4. TaskOK(t)'
      BY <1>6, <1>a, <2>1, TasksAssumption, DocsAssumption, SMTT(60) DEF Install, DataStep,
         Stays
    <2> QED
      BY <1>6, <2>1, <2>2, <2>3, <2>4, Combine DEF Install
  <1>7. CASE Replace(t)
    <2>1. DataStep
      <3>1. task[t].doc \in Docs /\ task[t].content \in Contents
        BY <1>7, <1>a DEF Replace
      <3> QED
        BY <1>7, <1>b, <3>1, ReplaceChunksOK, Frame DEF Replace, DataStep, index
    <2>2. RunTypes'
      BY <1>7, <1>a, TasksAssumption, SMTT(60) DEF Replace, SwitchFailed, Leave
    <2>3. OnlyOf(t)
      BY <1>7, <1>a DEF Replace, OnlyOf, SwitchFailed, Leave
    <2>4. TaskOK(t)'
      BY <1>7, <1>a, <2>1, TasksAssumption, DocsAssumption, SMTT(60) DEF Replace, DataStep,
         Stays, SwitchFailed, Leave
    <2> QED
      BY <1>7, <2>1, <2>2, <2>3, <2>4, Combine DEF Replace, SwitchFailed, Leave
  <1>8. CASE Restore(t)
    <2>1. DataStep
      BY <1>8, <1>b, Frame DEF Restore, DataStep, row, index
    <2>2. RunTypes'
      BY <1>8, <1>a, TasksAssumption, SMTT(60) DEF Restore, Leave, Restored
    <2>3. OnlyOf(t)
      BY <1>8, <1>a DEF Restore, OnlyOf, Leave, Restored
    <2>4. TaskOK(t)'
      BY <1>8, <1>a, <2>1, TasksAssumption, DocsAssumption, SMTT(60) DEF Restore, DataStep,
         Stays, Leave, Restored
    <2> QED
      BY <1>8, <2>1, <2>2, <2>3, <2>4, Combine DEF Restore, Leave, Restored
  <1> QED
    BY <1>1, <1>2, <1>3, <1>4, <1>5, <1>6, <1>7, <1>8 DEF ShadowStep

\* Whatever fails on the way.
LEMMA FailureKeeps ==
    ASSUME IInv, NEW t \in Tasks, Failure(t)
    PROVE  IInv'
  <1> USE DEF RunTypes, TaskRecords, Steps, HandlerSteps, FreshSteps, ShadowSteps, SwitchSteps,
              DocSteps, TaskOK, NoTask, Goto, End, filler, counters
  <1>a. RunTypes /\ TaskOK(t)
    BY DEF IInv, TypeOK, TasksOK
  <1>b. RowTypes /\ IndexTypes /\ DataOK
    BY DEF IInv, TypeOK, RowTypes, IndexTypes
  <1>1. CASE StoreFails(t)
    <2>1. DataStep
      BY <1>1, <1>a, <1>b, SetFailedOK DEF StoreFails, DataStep
    <2>2. RunTypes'
      BY <1>1, <1>a, TasksAssumption, SMTT(60) DEF StoreFails, Once
    <2>3. OnlyOf(t)
      BY <1>1, <1>a DEF StoreFails, OnlyOf, Once
    <2>4. TaskOK(t)'
      BY <1>1, <1>a, <2>1, TasksAssumption, DocsAssumption, SMTT(60) DEF StoreFails, DataStep,
         Stays, Once
    <2> QED
      BY <1>1, <2>1, <2>2, <2>3, <2>4, Combine DEF StoreFails, Once
  <1>2. CASE Cancel(t)
    <2>1. DataStep
      BY <1>2, <1>b, Frame DEF Cancel, DataStep, row, index
    <2>2. RunTypes'
      BY <1>2, <1>a, TasksAssumption, SMTT(60) DEF Cancel, Once
    <2>3. OnlyOf(t)
      BY <1>2, <1>a DEF Cancel, OnlyOf, Once
    <2>4. TaskOK(t)'
      BY <1>2, <1>a, <2>1, TasksAssumption, DocsAssumption, SMTT(60) DEF Cancel, DataStep,
         Stays, Once
    <2> QED
      BY <1>2, <2>1, <2>2, <2>3, <2>4, Combine DEF Cancel, Once
  <1>3. CASE RunFails(t)
    <2>1. DataStep
      BY <1>3, <1>b, Frame DEF RunFails, DataStep, row, index
    <2>2. RunTypes'
      BY <1>3, <1>a, TasksAssumption, SMTT(60) DEF RunFails, Once
    <2>3. OnlyOf(t)
      BY <1>3, <1>a DEF RunFails, OnlyOf, Once
    <2>4. TaskOK(t)'
      BY <1>3, <1>a, <2>1, TasksAssumption, DocsAssumption, SMTT(60) DEF RunFails, DataStep,
         Stays, Once
    <2> QED
      BY <1>3, <2>1, <2>2, <2>3, <2>4, Combine DEF RunFails, Once
  <1>4. CASE EmbedUnavailable(t)
    <2>1. DataStep
      BY <1>4, <1>a, <1>b, SetStatusOK, Frame DEF EmbedUnavailable, DataStep, row, HasChunks
    <2>2. RunTypes'
      BY <1>4, <1>a, TasksAssumption, SMTT(60) DEF EmbedUnavailable, Once
    <2>3. OnlyOf(t)
      BY <1>4, <1>a DEF EmbedUnavailable, OnlyOf, Once
    <2>4. TaskOK(t)'
      BY <1>4, <1>a, <2>1, TasksAssumption, DocsAssumption, SMTT(60) DEF EmbedUnavailable,
         DataStep, Stays, Once
    <2> QED
      BY <1>4, <2>1, <2>2, <2>3, <2>4, Combine DEF EmbedUnavailable, Once
  <1>5. CASE ShadowFails(t)
    <2>1. DataStep
      BY <1>5, <1>b, Frame DEF ShadowFails, DataStep, row, index
    <2>2. RunTypes'
      BY <1>5, <1>a, TasksAssumption, SMTT(60) DEF ShadowFails, Once
    <2>3. OnlyOf(t)
      BY <1>5, <1>a DEF ShadowFails, OnlyOf, Once
    <2>4. TaskOK(t)'
      BY <1>5, <1>a, <2>1, TasksAssumption, DocsAssumption, SMTT(60) DEF ShadowFails, DataStep,
         Stays, Once
    <2> QED
      BY <1>5, <2>1, <2>2, <2>3, <2>4, Combine DEF ShadowFails, Once
  <1>6. CASE InstallFails(t)
    <2>1. DataStep
      BY <1>6, <1>b, Frame DEF InstallFails, DataStep, row, index
    <2>2. RunTypes'
      BY <1>6, <1>a, TasksAssumption, SMTT(60) DEF InstallFails, Once, Leave
    <2>3. OnlyOf(t)
      BY <1>6, <1>a DEF InstallFails, OnlyOf, Once, Leave
    <2>4. TaskOK(t)'
      BY <1>6, <1>a, <2>1, TasksAssumption, DocsAssumption, SMTT(60) DEF InstallFails,
         DataStep, Stays, Once, Leave
    <2> QED
      BY <1>6, <2>1, <2>2, <2>3, <2>4, Combine DEF InstallFails, Once, Leave
  <1>7. CASE ReplaceUnanswered(t)
    <2>1. DataStep
      <3>1. task[t].doc \in Docs /\ task[t].content \in Contents
        BY <1>7, <1>a DEF ReplaceUnanswered
      <3> QED
        BY <1>7, <1>b, <3>1, ReplaceChunksOK DEF ReplaceUnanswered, DataStep
    <2>2. RunTypes'
      BY <1>7, <1>a, TasksAssumption, SMTT(60) DEF ReplaceUnanswered, Once, SwitchFailed, Leave
    <2>3. OnlyOf(t)
      BY <1>7, <1>a DEF ReplaceUnanswered, OnlyOf, Once, SwitchFailed, Leave
    <2>4. TaskOK(t)'
      BY <1>7, <1>a, <2>1, TasksAssumption, DocsAssumption, SMTT(60) DEF ReplaceUnanswered,
         DataStep, Stays, Once, SwitchFailed, Leave
    <2> QED
      BY <1>7, <2>1, <2>2, <2>3, <2>4, Combine DEF ReplaceUnanswered, Once, SwitchFailed, Leave
  <1>8. CASE RestoreFails(t)
    <2>1. DataStep
      BY <1>8, <1>b, Frame DEF RestoreFails, DataStep, row, index
    <2>2. RunTypes'
      BY <1>8, <1>a, TasksAssumption, SMTT(60) DEF RestoreFails, Once, Leave
    <2>3. OnlyOf(t)
      BY <1>8, <1>a DEF RestoreFails, OnlyOf, Once, Leave
    <2>4. TaskOK(t)'
      BY <1>8, <1>a, <2>1, TasksAssumption, DocsAssumption, SMTT(60) DEF RestoreFails,
         DataStep, Stays, Once, Leave
    <2> QED
      BY <1>8, <2>1, <2>2, <2>3, <2>4, Combine DEF RestoreFails, Once, Leave
  <1>9. CASE StatementFails(t)
    <2>1. DataStep
      BY <1>9, <1>b, Frame DEF StatementFails, DataStep, row, index
    <2>2. RunTypes'
      BY <1>9, <1>a, TasksAssumption, SMTT(60) DEF StatementFails, Once, SwitchFailed, Leave,
         HandlerQueries, FreshQueries
    <2>3. OnlyOf(t)
      BY <1>9, <1>a DEF StatementFails, OnlyOf, Once, SwitchFailed, Leave, HandlerQueries,
         FreshQueries
    <2>4. TaskOK(t)'
      BY <1>9, <1>a, <2>1, TasksAssumption, DocsAssumption, SMTT(60) DEF StatementFails,
         DataStep, Stays, Once, SwitchFailed, Leave, HandlerQueries, FreshQueries
    <2> QED
      BY <1>9, <2>1, <2>2, <2>3, <2>4, Combine DEF StatementFails, Once, SwitchFailed, Leave,
         HandlerQueries, FreshQueries
  <1>10. CASE MoveFails(t)
    <2>1. DataStep
      BY <1>10, <1>b, Frame DEF MoveFails, DataStep, row, index
    <2>2. RunTypes'
      BY <1>10, <1>a, TasksAssumption, SMTT(60) DEF MoveFails, Once
    <2>3. OnlyOf(t)
      BY <1>10, <1>a DEF MoveFails, OnlyOf, Once
    <2>4. TaskOK(t)'
      BY <1>10, <1>a, <2>1, TasksAssumption, DocsAssumption, SMTT(60) DEF MoveFails, DataStep,
         Stays, Once
    <2> QED
      BY <1>10, <2>1, <2>2, <2>3, <2>4, Combine DEF MoveFails, Once
  <1> QED
    BY <1>1, <1>2, <1>3, <1>4, <1>5, <1>6, <1>7, <1>8, <1>9, <1>10 DEF Failure
\* Requests: an upload or a reprocess starts, a handler comes to move_doc.
LEMMA RequestKeeps ==
    ASSUME IInv, NEW t \in Slots, Request(t) \/ Move(t)
    PROVE  IInv'
  <1> USE DEF RunTypes, TaskRecords, Steps, HandlerSteps, ShadowSteps, DocSteps, TaskOK,
              NoTask, Goto, filler, counters
  <1>a. t \in Tasks /\ RunTypes /\ TaskOK(t)
    BY DEF IInv, TypeOK, TasksOK, Tasks
  <1>b. RowTypes /\ IndexTypes /\ DataOK
    BY DEF IInv, TypeOK, RowTypes, IndexTypes
  <1>1. ASSUME NEW c \in Contents, NEW f \in Folders, StartUpload(t, c, f)
        PROVE  IInv'
    <2>1. DataStep
      BY <1>1, <1>b, Frame DEF StartUpload, DataStep, row, index
    <2>a. /\ task' = [task EXCEPT ![t] = task'[t]]
          /\ task'[t] = [doc |-> None, content |-> c, place |-> f, op |-> "none",
                         text |-> None, kept |-> None]
      BY <1>1, <1>a, Zenon DEF StartUpload
    <2>2. RunTypes'
      BY <1>1, <1>a, <2>a, UploadsAssumption, SMTT(60) DEF StartUpload
    <2>3. OnlyOf(t)
      BY <1>1, <1>a DEF StartUpload, OnlyOf
    <2>4. TaskOK(t)'
      BY <1>1, <1>a, <2>a, SMTT(60) DEF StartUpload, Idle
    <2> QED
      BY <2>1, <2>2, <2>3, <2>4, <1>1, Combine DEF StartUpload
  <1>2. ASSUME NEW d \in Docs, Reprocess(t, d)
        PROVE  IInv'
    <2>1. DataStep
      BY <1>2, <1>b, Frame DEF Reprocess, DataStep, row, index
    <2>a. PICK op \in {"rebuild", "overwrite"} :
             /\ task' = [task EXCEPT ![t] = task'[t]]
             /\ task'[t] = [doc |-> d, content |-> file[d], place |-> None, op |-> op,
                            text |-> None, kept |-> None]
      BY <1>2, <1>a, Zenon DEF Reprocess
    <2>2. RunTypes'
      BY <1>2, <1>a, <2>a, SMTT(60) DEF Reprocess, Once
    <2>3. OnlyOf(t)
      BY <1>2, <1>a DEF Reprocess, OnlyOf
    <2>4. TaskOK(t)'
      BY <1>2, <1>a, <2>a, SMTT(60) DEF Reprocess, Idle, Present, row
    <2> QED
      BY <2>1, <2>2, <2>3, <2>4, <1>2, Combine DEF Reprocess
  <1>3. CASE Move(t)
    <2>1. DataStep
      BY <1>3, <1>a, <1>b, MoveDocOK, Frame DEF Move, DataStep
    <2>2. RunTypes'
      BY <1>3, <1>a, SMTT(60) DEF Move
    <2>3. OnlyOf(t)
      BY <1>3, <1>a DEF Move, OnlyOf
    <2>4. TaskOK(t)'
      BY <1>3, <1>a, <2>1, DocsAssumption, SMTT(60) DEF Move, DataStep, Stays
    <2> QED
      BY <2>1, <2>2, <2>3, <2>4, <1>3, Combine DEF Move
  <1> QED
    BY <1>1, <1>2, <1>3 DEF Request

\* The back-fill writes the vectors of the texts it has read.
LEMMA FillKeeps ==
    ASSUME IInv, FillStep \/ FillFails
    PROVE  IInv'
  <1> USE DEF RunTypes, counters
  <1>a. RunTypes
    BY DEF IInv, TypeOK
  <1>b. RowTypes /\ IndexTypes /\ DataOK
    BY DEF IInv, TypeOK, RowTypes, IndexTypes
  <1>1. CASE FillRead
    <2>1. DataStep
      BY <1>1, <1>b, Frame DEF FillRead, DataStep, row, index
    <2>2. RunTypes'
      BY <1>1, <1>a, <1>b, SMTT(60) DEF FillRead, Missing, EmbeddingText, Texts, RowTypes, IndexTypes,
         DataOK, RowsOK, Present
    <2> QED
      BY <2>1, <2>2, <1>1, CombineRest DEF FillRead
  <1>2. ASSUME NEW d \in Docs, FillWrite(d)
        PROVE  IInv'
    <2>1. DataStep
      BY <1>2, <1>a, <1>b, WriteVectorsOK DEF FillWrite, DataStep
    <2>2. RunTypes'
      BY <1>2, <1>a, SMTT(60) DEF FillWrite
    <2> QED
      BY <2>1, <2>2, <1>2, CombineRest DEF FillWrite
  <1>3. CASE FillFlip
    <2>1. DataStep
      BY <1>3, <1>b, SMTT(60) DEF FillFlip, Ready, DataStep, RowTypes, IndexTypes, DataOK, RowsOK, Stays,
         VectorsCurrent, ShownIsFound, Present, HasChunks, EmbeddingText, Statuses, index
    <2>2. RunTypes'
      BY <1>3, <1>a, SMTT(60) DEF FillFlip
    <2> QED
      BY <2>1, <2>2, <1>3, CombineRest DEF FillFlip
  <1>4. CASE FillFails
    <2>1. DataStep
      BY <1>4, <1>b, Frame DEF FillFails, DataStep, row, index
    <2>2. RunTypes'
      BY <1>4, <1>a, SMTT(60) DEF FillFails, Once
    <2> QED
      BY <2>1, <2>2, <1>4, CombineRest DEF FillFails
  <1> QED
    BY <1>1, <1>2, <1>3, <1>4 DEF FillStep

\* The record of a job that recovery starts.
LEMMA JobRecord ==
    ASSUME NEW d, NEW c, NEW o, NEW r, r = [NoTask EXCEPT !.doc = d, !.content = c, !.op = o]
    PROVE  r = [doc |-> d, content |-> c, place |-> None, op |-> o, text |-> None, kept |-> None]
  BY DEF NoTask

\* Restart, recovery and the users.
LEMMA RestKeeps ==
    ASSUME IInv,
           \/ Crash \/ Recover \/ RecoverFails
           \/ \E d \in Docs : UserDeletes(d) \/ \E f \in Folders : UserMoves(d, f)
    PROVE  IInv'
  <1> USE DEF RunTypes, filler, counters
  <1>a. RunTypes
    BY DEF IInv, TypeOK
  <1>b. RowTypes /\ IndexTypes /\ DataOK
    BY DEF IInv, TypeOK, RowTypes, IndexTypes
  <1>1. CASE Crash
    <2>1. DataStep
      BY <1>1, <1>b, Frame DEF Crash, DataStep, row, index
    <2>a. stuck' \subseteq [doc : Docs, chunks : BOOLEAN]
      <3>1. PICK stale \in SUBSET Docs : stuck' = {[doc |-> d, chunks |-> chunk[d] # None] : d \in stale}
        BY <1>1 DEF Crash
      <3>2. ASSUME NEW d \in Docs
            PROVE  [doc |-> d, chunks |-> chunk[d] # None] \in [doc : Docs, chunks : BOOLEAN]
        <4>1. (chunk[d] # None) \in BOOLEAN
          BY Zenon
        <4> QED BY <4>1, Zenon
      <3> QED
        BY <3>1, <3>2, Zenon
    <2>b. NoTask \in TaskRecords
      BY SMTT(60) DEF NoTask, TaskRecords
    <2>2. RunTypes'
      BY <1>1, <1>a, <2>a, <2>b, SMTT(60) DEF Crash, Once, Steps
    <2>3. TasksOK'
      BY <1>1, SMTT(60) DEF Crash, TasksOK, TaskOK, NoTask, DocSteps, HandlerSteps
    <2>4. StuckOK'
      BY <1>1, SMTT(60) DEF Crash, StuckOK, InProgress, row
    <2> QED
      BY <2>1, <2>2, <2>3, <2>4 DEF IInv, TypeOK, DataStep, RowTypes, IndexTypes
  <1>2. CASE Recover
    <2>a. Recovery \in Tasks /\ TaskOK(Recovery) /\ Recovery \notin moving
      BY <1>a, TasksAssumption DEF IInv, TasksOK, Tasks
    <2>b. PICK s \in stuck :
             /\ stuck' = stuck \ {s}
             /\ file[s.doc] = None => SetFailed(s.doc) /\ UNCHANGED <<pc, task>>
             /\ file[s.doc] # None =>
                  /\ UNCHANGED row
                  /\ task' = [task EXCEPT ![Recovery] =
                               [NoTask EXCEPT !.doc = s.doc, !.content = file[s.doc],
                                              !.op = IF s.chunks THEN "rebuild" ELSE "fresh"]]
                  /\ Goto(Recovery, IF s.chunks THEN "read" ELSE "begin")
      BY <1>2, Zenon DEF Recover
    <2>c. /\ s.doc \in Docs
          /\ status[s.doc] # "none"
          /\ UNCHANGED <<index, file, moving, filler, switching, counters>>
      BY <1>2, <1>a DEF Recover, IInv, StuckOK
    <2>1. DataStep
      BY <2>b, <2>c, <1>b, SetFailedOK, Frame DEF DataStep
    <2>2. CASE file[s.doc] = None
      <3>1. RunTypes'
        BY <2>2, <2>b, <2>c, <1>a
      <3> QED
        BY <2>2, <2>b, <2>c, <2>1, <3>1, CombineRest
    <2>3. CASE file[s.doc] # None
      <3> DEFINE op == IF s.chunks THEN "rebuild" ELSE "fresh"
      <3> HIDE DEF op
      <3> DEFINE rec == [doc |-> s.doc, content |-> file[s.doc], place |-> None,
                         op |-> op, text |-> None, kept |-> None]
      <3>0. /\ task' = [task EXCEPT ![Recovery] = task'[Recovery]]
            /\ task'[Recovery] = [NoTask EXCEPT !.doc = s.doc, !.content = file[s.doc], !.op = op]
        BY <2>3, <2>a, <2>b, <1>a, Zenon DEF op
      <3>1. task' = [task EXCEPT ![Recovery] = rec] /\ task'[Recovery] = rec
        BY <3>0, JobRecord
      <3>2. /\ pc' = [pc EXCEPT ![Recovery] = pc'[Recovery]]
            /\ pc'[Recovery] \in {"read", "begin"}
        BY <2>3, <2>a, <2>b, <1>a DEF Goto
      <3>3. rec \in TaskRecords
        <4>1. op \in {"rebuild", "fresh"}
          BY DEF op
        <4> QED
          BY <4>1, <2>c, <1>a, SMTT(60) DEF TaskRecords
      <3> HIDE DEF rec
      <3>4. RunTypes'
        <4>1. pc' \in [Tasks -> Steps]
          BY <1>a, <3>2, SMTT(60) DEF Steps, ShadowSteps, FreshSteps
        <4>2. task' \in [Tasks -> TaskRecords]
          BY <1>a, <3>1, <3>3
        <4>3. stuck' \subseteq stuck
          BY <2>b
        <4> QED
          BY <2>c, <1>a, <4>1, <4>2, <4>3
      <3>5. OnlyOf(Recovery)
        BY <2>c, <1>a, <3>1, <3>2 DEF OnlyOf
      <3>6. TaskOK(Recovery)'
        BY <2>a, <2>c, <2>3, <2>1, <1>a, <3>1, <3>2, SMTT(60) DEF rec, TaskOK, HandlerSteps, Stays, DataStep
      <3> QED
        BY <2>b, <2>1, <3>4, <3>5, <3>6, Combine
    <2> QED BY <2>2, <2>3
  <1>3. CASE RecoverFails
    <2>1. DataStep
      BY <1>3, <1>b, Frame DEF RecoverFails, DataStep, row, index
    <2>2. RunTypes'
      BY <1>3, <1>a, SMTT(60) DEF RecoverFails, Once
    <2> QED
      BY <2>1, <2>2, <1>3, CombineRest DEF RecoverFails
  <1>4. ASSUME NEW d \in Docs, UserDeletes(d)
        PROVE  IInv'
    <2>1. DataStep
      BY <1>4, <1>b, SMTT(60) DEF UserDeletes, DataStep, RowTypes, IndexTypes, DataOK, RowsOK, Stays,
         VectorsCurrent, ShownIsFound, Present, HasChunks, EmbeddingText, Statuses
    <2>2. RunTypes'
      BY <1>4, <1>a, SMTT(60) DEF UserDeletes, Once
    <2> QED
      BY <2>1, <2>2, <1>4, CombineRest DEF UserDeletes
  <1>5. ASSUME NEW d \in Docs, NEW f \in Folders, UserMoves(d, f)
        PROVE  IInv'
    <2>1. DataStep
      BY <1>5, <1>b, MoveDocOK DEF UserMoves, DataStep
    <2>2. RunTypes'
      BY <1>5, <1>a, SMTT(60) DEF UserMoves, Once
    <2> QED
      BY <2>1, <2>2, <1>5, CombineRest DEF UserMoves
  <1> QED
    BY <1>1, <1>2, <1>3, <1>4, <1>5

(***************************************************************************)
(* Theorems                                                                *)
(***************************************************************************)
\* The invariant holds at the start, and every step keeps it.
THEOREM IngestInductive ==
    /\ Init => IInv
    /\ IInv /\ [Next]_vars => IInv'
  <1>1. Init => IInv
    BY UploadsAssumption, SMTT(60) DEF Init, IInv, TypeOK, DataOK, RowsOK, VectorsCurrent, ShownIsFound, TasksOK, TaskOK,
       StuckOK, Present, Statuses, Steps, DocSteps, HandlerSteps, TaskRecords, NoTask
  <1>2. ASSUME IInv, [Next]_vars PROVE IInv'
    <2>1. CASE UNCHANGED vars
      <3>1. RunTypes /\ RowTypes /\ IndexTypes /\ DataOK
        BY <1>2 DEF IInv, TypeOK, RunTypes, RowTypes, IndexTypes
      <3>2. DataStep
        BY <2>1, <3>1, Frame DEF vars, DataStep, row, index
      <3>3. RunTypes'
        BY <2>1, <3>1 DEF vars, RunTypes, filler, counters
      <3> QED
        BY <1>2, <2>1, <3>2, <3>3, CombineRest DEF vars
    <2>2. CASE Next
      BY <2>2, <1>2, HandlerKeeps, FreshKeeps, ShadowKeeps, FailureKeeps, RequestKeeps, FillKeeps, RestKeeps
         DEF Next, Step
    <2> QED BY <1>2, <2>1, <2>2
  <1> QED BY <1>1, <1>2

\* The invariant of every behaviour.
LEMMA Always == Spec => []IInv
  BY IngestInductive, PTL DEF Spec

\* The variables keep their types: TypeOK, for any instance.
THEOREM TypeCorrect == Spec => []TypeOK
  <1>1. IInv => TypeOK
    BY DEF IInv
  <1> QED BY <1>1, Always, PTL

\* The compare-and-set of set_embeddings and set_chunk_embedding, the vectors that
\* replace_chunks keeps and those that move_doc drops: no stale vector is ever
\* stored, in whatever order uploads, jobs, back-fill, moves and restarts come.
THEOREM NoStaleVectors == Spec => []VectorsCurrent
  <1>1. IInv => VectorsCurrent
    BY DEF IInv, DataOK
  <1> QED BY <1>1, Always, PTL

\* What retrieval serves is there to be found: no order of the same steps shows a
\* document as chunked without chunks or as embedded without vectors.
THEOREM ServedIsComplete == Spec => []ShownIsFound
  <1>1. IInv => ShownIsFound
    BY DEF IInv, DataOK
  <1> QED BY <1>1, Always, PTL

=============================================================================
