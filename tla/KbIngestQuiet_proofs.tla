------------------------ MODULE KbIngestQuiet_proofs ------------------------
(***************************************************************************)
(* Proofs about KbIngest: what holds as long as certain events stay away.    *)
(* The file of a document is the one its row names, a document in progress   *)
(* has a task that works on it, and a version that is online stays so.       *)
(***************************************************************************)
EXTENDS KbIngest_proofs

(***************************************************************************)
(* The inductive invariant                                                 *)
(***************************************************************************)
\* The steps of a first ingest, from the row that was inserted for it ...
Owning == {"accept", "store"} \union FreshSteps
\* ... up to its set_status(Chunked), and from there on.
Early == {"accept", "store", "begin", "save", "parse", "insert", "count"}
Late == {"texts", "embed", "publish", "promote"}
\* The steps of a job that works on a shadow index.
Shadowing == ShadowSteps \union SwitchSteps

\* Nothing happened that FileFollowsShaQuietly sets aside.
Quiet == Without({"crash", "answer", "disk", "reprocess"})

\* The document of the task is there.
Holds(t) == task[t].doc \in Docs /\ Present(task[t].doc)

\* It is the document of the job that has FILE_SWITCH_LOCK.
Switched(d) == switching # None /\ task[switching].doc = d

LockOK(t) ==
    /\ pc[t] \in SwitchSteps <=> switching = t
    /\ pc[t] \in {"shift", "install", "restore"} => task[t].op = "overwrite"
    /\ pc[t] = "heal" => task[t].op # "overwrite"

\* What the document of a task can be while the task works on it.
StatusOK(t) ==
    LET pending == status[task[t].doc] \in InProgress
    IN  /\ Without({"crash"}) /\ Holds(t) /\ pc[t] \in Late => ~pending
        /\ Without({"crash", "reprocess"}) /\ Holds(t) /\ pc[t] \in Early => pending
        /\ Without({"crash", "reprocess"}) /\ Holds(t) /\ pc[t] \in Shadowing => ~pending
        /\ Without({"crash", "reprocess", "pg"}) /\ Holds(t) /\ pc[t] = "fail" => pending

FileOK(t) ==
    LET d == task[t].doc IN
    Quiet /\ Holds(t) =>
      /\ pc[t] \in Early => task[t].content = sha[d]
      /\ pc[t] \in FreshSteps /\ ~Switched(d) => file[d] = sha[d]
      /\ pc[t] \in {"heal", "shift"} => file[d] = sha[d]
      /\ pc[t] \in {"install", "restore"} => task[t].kept = sha[d]
      /\ pc[t] = "replace" => IF task[t].op = "overwrite"
                              THEN task[t].kept = sha[d] /\ file[d] = task[t].content
                              ELSE file[d] = sha[d]

JobOK(t) == LockOK(t) /\ StatusOK(t) /\ FileOK(t)

NoRecovery == Without({"crash"}) => stuck = {} /\ pc[Recovery] = "idle"

\* A document has at most one first ingest.
OneHand ==
    Without({"crash"}) =>
      \A t, u \in Tasks : pc[t] \in Owning /\ pc[u] \in Owning /\ t # u => task[t].doc # task[u].doc

FiledOK ==
    \A d \in Docs : /\ status[d] = "none" => file[d] = None
                    /\ Present(d) => sha[d] \in Contents
                    /\ Quiet /\ Present(d) /\ ~Switched(d) => Stored(d)

QuietInv ==
    /\ \A t \in Tasks : JobOK(t)
    /\ NoRecovery /\ OneHand /\ FiledOK /\ InProgressIsInHandQuietly

(***************************************************************************)
(* What a step does to the jobs of the other tasks                         *)
(***************************************************************************)
\* Once something happened it has happened.
LEMMA Grows ==
    ASSUME happened \subseteq happened', NEW kinds, Without(kinds)'
    PROVE  Without(kinds)
  BY DEF Without

LEMMA Fewer ==
    /\ Quiet => Without({"crash", "reprocess"})
    /\ Without({"crash", "reprocess", "pg"}) => Without({"crash", "reprocess"})
    /\ Without({"crash", "reprocess"}) => Without({"crash"})
    /\ Without({"cancel", "pg", "crash"}) => Without({"crash"})
  BY DEF Quiet, Without

LEMMA QuietGrows == ASSUME happened \subseteq happened' PROVE Quiet' => Quiet
  BY DEF Quiet, Without

\* A step that does nothing to the document that its file or its progress depends on.
Calm(d) ==
    /\ Present(d)' => /\ Present(d)
                      /\ status'[d] \in InProgress <=> status[d] \in InProgress
                      /\ sha'[d] = sha[d] /\ file'[d] = file[d]
    /\ status'[d] = "none" => status[d] = "none" /\ file'[d] = file[d]

\* The lock may be taken, but nobody lets it go.
LockStays == switching # None => switching' = switching /\ task'[switching].doc = task[switching].doc

\* What calm steps leave of a task.
Untouched(u) == pc'[u] = pc[u] /\ task'[u] = task[u] /\ (switching' = u <=> switching = u)

LEMMA CalmStays ==
    ASSUME NEW u \in Tasks, JobOK(u), Untouched(u), \A d \in Docs : Calm(d), LockStays,
           happened \subseteq happened'
    PROVE  JobOK(u)'
  <1>1. LockOK(u)'
    BY DEF JobOK, LockOK, Untouched
  <1>2. Holds(u)' => Holds(u) /\ Calm(task[u].doc)
    BY DEF Holds, Untouched, Calm
  <1>3. ~Switched(task[u].doc)' => ~Switched(task[u].doc)
    BY TasksAssumption, DocsAssumption DEF Switched, LockStays, Untouched
  <1>4. StatusOK(u)'
    BY <1>2, Grows DEF JobOK, StatusOK, Untouched, Calm, Holds
  <1>5. FileOK(u)'
    BY <1>2, <1>3, QuietGrows DEF JobOK, FileOK, Untouched, Calm, Holds
  <1> QED BY <1>1, <1>4, <1>5 DEF JobOK

\* The step touches no other document than that of task t.
OnlyDocOf(t) ==
    \A d \in Docs : d # task[t].doc => status'[d] = status[d] /\ sha'[d] = sha[d] /\ file'[d] = file[d]

\* A step of a first ingest on its document.
Works(t) ==
    /\ pc[t] \in Owning /\ task[t].doc \in Docs
    /\ OnlyDocOf(t)
    /\ \E d \in {task[t].doc} :
           /\ Present(d)' <=> Present(d)
           /\ status[d] # "none" /\ status'[d] # "none"
           /\ sha'[d] = sha[d]
           /\ pc[t] \in Early \/ (status'[d] \notin InProgress /\ file'[d] = file[d])
    /\ UNCHANGED switching

LEMMA WorkStays ==
    ASSUME QuietInv, NEW t \in Tasks, Works(t), NEW u \in Tasks, u # t, Untouched(u),
           switching # None => task'[switching].doc = task[switching].doc,
           happened \subseteq happened'
    PROVE  JobOK(u)'
  <1>a. JobOK(u) /\ JobOK(t) /\ OneHand
    BY DEF QuietInv
  <1>b. LockOK(u)'
    BY <1>a DEF JobOK, LockOK, Untouched
  <1>c. ~Switched(task[u].doc)' => ~Switched(task[u].doc)
    BY DEF Switched, Works, Untouched
  <1>1. CASE task[u].doc # task[t].doc
    <2>1. Holds(u)' => Holds(u) /\ status'[task[u].doc] = status[task[u].doc]
                       /\ sha'[task[u].doc] = sha[task[u].doc] /\ file'[task[u].doc] = file[task[u].doc]
      BY <1>1 DEF Holds, Untouched, Works, OnlyDocOf, Present
    <2>2. StatusOK(u)'
      BY <1>a, <2>1, Grows DEF JobOK, StatusOK, Untouched
    <2>3. FileOK(u)'
      BY <1>a, <1>c, <2>1, QuietGrows DEF JobOK, FileOK, Untouched
    <2> QED BY <1>b, <2>2, <2>3 DEF JobOK
  <1>2. CASE task[u].doc = task[t].doc
    <2>1. Holds(u)' => Holds(u) /\ Holds(t) /\ sha'[task[u].doc] = sha[task[u].doc]
      BY <1>2 DEF Holds, Untouched, Works
    <2>2. Without({"crash"}) => pc[u] \notin Owning
      BY <1>a, <1>2 DEF OneHand, Works
    <2>3. Without({"crash"}) => pc[u] \notin Early /\ pc[u] \notin Late /\ pc[u] # "fail" /\ pc[u] \notin FreshSteps
      BY <2>2 DEF Owning, Early, Late, FreshSteps
    <2>4. ASSUME Without({"crash", "reprocess"})', Holds(u)', pc[u] \in Shadowing
          PROVE  pc[t] \notin Early
      BY <1>a, <1>2, <2>1, <2>4, Grows DEF JobOK, StatusOK
    <2>5. StatusOK(u)'
      <3>1. /\ Without({"crash"})' => Without({"crash"})
            /\ Without({"crash", "reprocess"})' => Without({"crash"})
            /\ Without({"crash", "reprocess", "pg"})' => Without({"crash"})
        BY Grows, Fewer
      <3>2. /\ Without({"crash"})' => pc'[u] \notin Late
            /\ Without({"crash", "reprocess"})' => pc'[u] \notin Early
            /\ Without({"crash", "reprocess", "pg"})' => pc'[u] # "fail"
        BY <2>3, <3>1 DEF Untouched
      <3>3. ASSUME Without({"crash", "reprocess"})', Holds(u)', pc'[u] \in Shadowing
            PROVE  status'[task'[u].doc] \notin InProgress
        BY <1>2, <2>4, <3>3 DEF Untouched, Works
      <3> QED BY <3>2, <3>3 DEF StatusOK
    <2>6. FileOK(u)'
      <3>1. Quiet' => Without({"crash", "reprocess"})' /\ Without({"crash"}) /\ Quiet
        BY QuietGrows, Fewer, Grows DEF Quiet, Without
      <3>2. SwitchSteps \subseteq Shadowing
        BY DEF Shadowing
      <3> QED
        BY <1>a, <1>2, <2>1, <2>3, <2>4, <3>1, <3>2 DEF JobOK, FileOK, Untouched, Works, SwitchSteps
    <2> QED BY <1>b, <2>5, <2>6 DEF JobOK
  <1> QED BY <1>1, <1>2

\* A step of the holder of FILE_SWITCH_LOCK: when it lets the lock go, the file of its
\* document is the one the row names.
Switches(t) ==
    /\ pc[t] \in SwitchSteps /\ task[t].doc \in Docs
    /\ OnlyDocOf(t)
    /\ \E d \in {task[t].doc} :
           /\ Present(d)' <=> Present(d)
           /\ status[d] # "none" /\ status'[d] # "none"
           /\ status'[d] = status[d] \/ status'[d] \notin InProgress
           /\ \/ switching' = t /\ task'[t].doc = d
              \/ switching' = None /\ (Quiet' /\ Present(d)' => file'[d] = sha'[d])

LEMMA SwitchStays ==
    ASSUME QuietInv, NEW t \in Tasks, Switches(t), NEW u \in Tasks, u # t, Untouched(u),
           happened \subseteq happened'
    PROVE  JobOK(u)'
  <1>a. JobOK(u) /\ JobOK(t) /\ switching = t
    BY DEF QuietInv, JobOK, LockOK, Switches
  <1>b. LockOK(u)'
    BY <1>a DEF JobOK, LockOK, Untouched
  <1>c. pc[u] \notin SwitchSteps
    BY <1>a DEF JobOK, LockOK
  <1>d. t # None
    BY TasksAssumption DEF Tasks
  <1>1. CASE task[u].doc # task[t].doc
    <2>1. Holds(u)' => Holds(u) /\ status'[task[u].doc] = status[task[u].doc]
                       /\ sha'[task[u].doc] = sha[task[u].doc] /\ file'[task[u].doc] = file[task[u].doc]
      BY <1>1 DEF Holds, Untouched, Switches, OnlyDocOf, Present
    <2>2. StatusOK(u)'
      BY <1>a, <2>1, Grows DEF JobOK, StatusOK, Untouched
    <2>3. ~Switched(task[u].doc)
      BY <1>1, <1>a DEF Switched
    <2>4. FileOK(u)'
      BY <1>a, <2>1, <2>3, QuietGrows DEF JobOK, FileOK, Untouched
    <2> QED BY <1>b, <2>2, <2>4 DEF JobOK
  <1>2. CASE task[u].doc = task[t].doc
    <2>1. Holds(u)' => Holds(u) /\ Holds(t)
      BY <1>2 DEF Holds, Untouched, Switches
    <2>2. ASSUME Without({"crash", "reprocess"})', Holds(u)'
          PROVE  pc[u] \notin Early /\ (Without({"pg", "crash", "reprocess"}) => pc[u] # "fail")
      <3>1. pc[t] \in Shadowing
        BY DEF Switches, Shadowing
      <3>2. Without({"crash", "reprocess"})
        BY <2>2, Grows
      <3>3. Without({"pg", "crash", "reprocess"}) => Without({"crash", "reprocess", "pg"})
        BY DEF Without
      <3> QED BY <1>a, <1>2, <2>1, <2>2, <3>1, <3>2, <3>3 DEF JobOK, StatusOK
    <2>3. StatusOK(u)'
      <3>1. /\ Without({"crash"})' => Without({"crash"})
            /\ Without({"crash", "reprocess"})' => Without({"crash", "reprocess"})
            /\ Without({"crash", "reprocess", "pg"})' =>
                 Without({"crash", "reprocess"})' /\ Without({"pg", "crash", "reprocess"})
        BY Grows, Fewer DEF Without
      <3>2. /\ Without({"crash", "reprocess"})' /\ Holds(u)' => pc'[u] \notin Early
            /\ Without({"crash", "reprocess", "pg"})' /\ Holds(u)' => pc'[u] # "fail"
        BY <2>2, <3>1 DEF Untouched
      <3>3. ASSUME Without({"crash", "reprocess"})', Holds(u)', pc'[u] \in Shadowing
            PROVE  status'[task'[u].doc] \notin InProgress
        BY <1>a, <1>2, <2>1, <3>1, <3>3 DEF JobOK, StatusOK, Untouched, Switches
      <3>4. ASSUME Without({"crash"})', Holds(u)', pc'[u] \in Late
            PROVE  status'[task'[u].doc] \notin InProgress
        BY <1>a, <1>2, <2>1, <3>1, <3>4 DEF JobOK, StatusOK, Untouched, Switches
      <3> QED BY <3>2, <3>3, <3>4 DEF StatusOK
    <2>4. FileOK(u)'
      <3>1. Quiet' => Without({"crash", "reprocess"})' /\ Quiet
        BY QuietGrows, Fewer, Grows DEF Quiet, Without
      <3>2. switching' = t => Switched(task[u].doc)'
        BY <1>2, <1>d DEF Switched, Untouched, Switches
      <3> QED
        BY <1>a, <1>c, <1>2, <2>1, <2>2, <3>1, <3>2 DEF JobOK, FileOK, Untouched, Switches, SwitchSteps, Holds
    <2> QED BY <1>b, <2>3, <2>4 DEF JobOK
  <1> QED BY <1>1, <1>2

(***************************************************************************)
(* What a step does to the rest of the invariant                           *)
(***************************************************************************)
\* A step of task t, which is the recovery only while that has something to do.
Turn(t) ==
    /\ OnlyOf(t) /\ happened \subseteq happened' /\ stuck' \subseteq stuck
    /\ t \in Slots \/ pc[t] # "idle"

\* A first ingest leaves its document only when the document is not in progress, or the
\* client left, or a statement failed.
KeepsHand(t) ==
    /\ pc'[t] \in Owning => pc[t] \in Owning /\ task'[t].doc = task[t].doc
    /\ Without({"cancel", "pg", "crash"})' /\ pc[t] \in Owning /\ status'[task[t].doc] \in InProgress =>
         pc'[t] \in Owning

LEMMA HandStays ==
    ASSUME QuietInv, NEW t \in Tasks, Turn(t), KeepsHand(t),
           \A d \in Docs : status'[d] \in InProgress =>
                             status[d] \in InProgress \/ (d = task[t].doc /\ pc[t] \in Owning)
    PROVE  NoRecovery' /\ OneHand' /\ InProgressIsInHandQuietly'
  <1>a. happened \subseteq happened'
    BY DEF Turn
  <1>1. NoRecovery'
    <2>1. ASSUME Without({"crash"})' PROVE stuck' = {} /\ pc'[Recovery] = "idle"
      <3>1. stuck = {} /\ pc[Recovery] = "idle"
        BY <2>1, <1>a, Grows DEF QuietInv, NoRecovery
      <3>2. t # Recovery /\ Recovery \in Tasks
        BY <3>1, TasksAssumption DEF Turn, Tasks
      <3> QED BY <3>1, <3>2 DEF Turn, OnlyOf
    <2> QED BY <2>1 DEF NoRecovery
  <1>2. OneHand'
    <2>1. \A u \in Tasks : pc'[u] \in Owning => pc[u] \in Owning /\ task'[u].doc = task[u].doc
      BY DEF Turn, OnlyOf, KeepsHand
    <2> QED BY <2>1, <1>a, Grows DEF QuietInv, OneHand
  <1>3. InProgressIsInHandQuietly'
    <2>1. ASSUME Without({"cancel", "pg", "crash"})', NEW d \in Docs, status'[d] \in InProgress
          PROVE  InHand(d)'
      <3>1. PICK u \in Tasks : task[u].doc = d /\ pc[u] \in Owning
        <4>1. CASE status[d] \in InProgress
          BY <4>1, <2>1, <1>a, Grows DEF QuietInv, InProgressIsInHandQuietly, InProgressIsInHand, InHand, Owning
        <4>2. CASE status[d] \notin InProgress
          BY <4>2, <2>1
        <4> QED BY <4>1, <4>2
      <3>2. task'[u].doc = d /\ pc'[u] \in Owning
        BY <3>1, <2>1 DEF Turn, OnlyOf, KeepsHand
      <3> QED BY <3>2 DEF InHand, Owning
    <2> QED BY <2>1 DEF InProgressIsInHandQuietly, InProgressIsInHand
  <1> QED BY <1>1, <1>2, <1>3

\* Nothing changes on a document in a calm step.
LEMMA CalmFiled ==
    ASSUME FiledOK, \A d \in Docs : Calm(d), LockStays, happened \subseteq happened'
    PROVE  FiledOK'
  <1> SUFFICES ASSUME NEW d \in Docs
               PROVE  /\ status'[d] = "none" => file'[d] = None
                      /\ Present(d)' => sha'[d] \in Contents
                      /\ Quiet' /\ Present(d)' /\ ~Switched(d)' => Stored(d)'
    BY DEF FiledOK
  <1>1. Calm(d) /\ (Quiet' => Quiet)
    BY QuietGrows
  <1>2. ~Switched(d)' => ~Switched(d)
    BY DEF Switched, LockStays
  <1>3. status'[d] = "none" => file'[d] = None
    BY <1>1 DEF FiledOK, Calm
  <1>4. Present(d)' => sha'[d] \in Contents
    BY <1>1 DEF FiledOK, Calm
  <1>5. Quiet' /\ Present(d)' /\ ~Switched(d)' => Stored(d)'
    BY <1>1, <1>2 DEF FiledOK, Calm, Stored
  <1> QED BY <1>3, <1>4, <1>5

\* A calm step of a task keeps the invariant when the task itself is in order.
LEMMA CalmKeeps ==
    ASSUME IInv, QuietInv, NEW t \in Tasks, Turn(t), KeepsHand(t), \A d \in Docs : Calm(d),
           switching' = switching \/ (switching = None /\ switching' = t),
           switching = t => task'[t].doc = task[t].doc,
           JobOK(t)'
    PROVE  QuietInv'
  <1>a. switching \in Tasks \union {None}
    BY DEF IInv, TypeOK
  <1>1. LockStays
    BY <1>a DEF LockStays, Turn, OnlyOf
  <1>2. happened \subseteq happened'
    BY DEF Turn
  <1>3. ASSUME NEW u \in Tasks, u # t PROVE JobOK(u)'
    <2>1. Untouched(u)
      BY <1>3, TasksAssumption DEF Turn, OnlyOf, Untouched, Tasks
    <2> QED BY <2>1, <1>1, <1>2, CalmStays DEF QuietInv
  <1>4. NoRecovery' /\ OneHand' /\ InProgressIsInHandQuietly'
    <2>1. \A d \in Docs : status'[d] \in InProgress => status[d] \in InProgress
      BY DEF Calm, Present, InProgress
    <2> QED BY <2>1, HandStays
  <1>5. FiledOK'
    BY <1>1, <1>2, CalmFiled DEF QuietInv
  <1> QED BY <1>3, <1>4, <1>5 DEF QuietInv

\* A calm step that is no task's.
LEMMA CalmRest ==
    ASSUME QuietInv, \A d \in Docs : Calm(d), UNCHANGED <<pc, task, switching>>,
           happened \subseteq happened', stuck' \subseteq stuck
    PROVE  QuietInv'
  <1>1. LockStays
    BY DEF LockStays
  <1>2. ASSUME NEW u \in Tasks PROVE JobOK(u)'
    BY <1>1, CalmStays DEF Untouched, QuietInv
  <1>3. FiledOK'
    BY <1>1, CalmFiled DEF QuietInv
  <1>4. NoRecovery' /\ OneHand'
    BY Grows DEF QuietInv, NoRecovery, OneHand
  <1>5. InProgressIsInHandQuietly'
    <2>1. \A d \in Docs : status'[d] \in InProgress => status[d] \in InProgress
      BY DEF Calm, Present, InProgress
    <2> QED
      BY <2>1, Grows DEF QuietInv, InProgressIsInHandQuietly, InProgressIsInHand, InHand
  <1> QED BY <1>2, <1>3, <1>4, <1>5 DEF QuietInv

\* A step of a first ingest on its document.
LEMMA WorkKeeps ==
    ASSUME IInv, QuietInv, NEW t \in Tasks, Turn(t), KeepsHand(t), Works(t), JobOK(t)',
           \A d \in {task[t].doc} : Quiet' /\ Present(d)' /\ ~Switched(d) => Stored(d)'
    PROVE  QuietInv'
  <1>1. happened \subseteq happened'
    BY DEF Turn
  <1>a. switching # t
    BY DEF QuietInv, JobOK, LockOK, Works, Owning, FreshSteps, SwitchSteps
  <1>b. switching # None => task'[switching].doc = task[switching].doc
    <2>1. switching \in Tasks \union {None}
      BY DEF IInv, TypeOK
    <2> QED BY <1>a, <2>1 DEF Turn, OnlyOf
  <1>2. ASSUME NEW u \in Tasks, u # t PROVE JobOK(u)'
    <2>1. Untouched(u)
      BY <1>2 DEF Turn, OnlyOf, Untouched, Works
    <2> QED BY <2>1, <1>1, <1>2, <1>b, WorkStays
  <1>3. NoRecovery' /\ OneHand' /\ InProgressIsInHandQuietly'
    <2>1. \A d \in Docs : status'[d] \in InProgress =>
                             status[d] \in InProgress \/ (d = task[t].doc /\ pc[t] \in Owning)
      BY DEF Works, OnlyDocOf
    <2> QED BY <2>1, HandStays
  <1>4. FiledOK'
    <2> SUFFICES ASSUME NEW d \in Docs
                 PROVE  /\ status'[d] = "none" => file'[d] = None
                        /\ Present(d)' => sha'[d] \in Contents
                        /\ Quiet' /\ Present(d)' /\ ~Switched(d)' => Stored(d)'
      BY DEF FiledOK
    <2>1. ~Switched(d)' => ~Switched(d)
      BY <1>b DEF Switched, Works
    <2>2. CASE d = task[t].doc
      BY <2>1, <2>2 DEF QuietInv, FiledOK, Works
    <2>3. CASE d # task[t].doc
      BY <2>1, <2>3, <1>1, QuietGrows DEF QuietInv, FiledOK, Works, OnlyDocOf, Present, Stored
    <2> QED BY <2>2, <2>3
  <1> QED BY <1>2, <1>3, <1>4 DEF QuietInv

\* A step of the holder of FILE_SWITCH_LOCK.
LEMMA SwitchKeeps ==
    ASSUME QuietInv, NEW t \in Tasks, Turn(t), Switches(t), pc'[t] \notin Owning, JobOK(t)',
           \A d \in {task[t].doc} : Present(d)' => sha'[d] \in Contents
    PROVE  QuietInv'
  <1>1. happened \subseteq happened'
    BY DEF Turn
  <1>a. switching = t
    BY DEF QuietInv, JobOK, LockOK, Switches
  <1>b. t # None
    BY TasksAssumption DEF Tasks
  <1>2. ASSUME NEW u \in Tasks, u # t PROVE JobOK(u)'
    <2>1. Untouched(u)
      BY <1>2, <1>a, TasksAssumption DEF Turn, OnlyOf, Untouched, Switches, Tasks
    <2> QED BY <2>1, <1>1, <1>2, SwitchStays
  <1>3. NoRecovery' /\ OneHand' /\ InProgressIsInHandQuietly'
    <2>1. \A d \in Docs : status'[d] \in InProgress => status[d] \in InProgress
      BY DEF Switches, OnlyDocOf
    <2>2. KeepsHand(t)
      BY DEF KeepsHand, Switches, Owning, SwitchSteps, FreshSteps
    <2> QED BY <2>1, <2>2, HandStays
  <1>4. FiledOK'
    <2> SUFFICES ASSUME NEW d \in Docs
                 PROVE  /\ status'[d] = "none" => file'[d] = None
                        /\ Present(d)' => sha'[d] \in Contents
                        /\ Quiet' /\ Present(d)' /\ ~Switched(d)' => Stored(d)'
      BY DEF FiledOK
    <2>1. CASE d = task[t].doc
      <3>1. status'[d] # "none" /\ (Present(d)' => sha'[d] \in Contents)
        BY <2>1 DEF Switches
      <3>2. ~Switched(d)' => switching' = None
        BY <2>1, <1>b DEF Switched, Switches
      <3>3. Quiet' /\ Present(d)' /\ ~Switched(d)' => file'[d] = sha'[d]
        BY <2>1, <3>2, <1>b DEF Switches
      <3> QED BY <3>1, <3>3 DEF Stored
    <2>2. CASE d # task[t].doc
      <3>1. ~Switched(d)
        BY <2>2, <1>a DEF Switched
      <3> QED BY <2>2, <3>1, <1>1, QuietGrows DEF QuietInv, FiledOK, Switches, OnlyDocOf, Present, Stored
    <2> QED BY <2>1, <2>2
  <1> QED BY <1>2, <1>3, <1>4 DEF QuietInv

(***************************************************************************)
(* The upload handler                                                      *)
(***************************************************************************)
\* A step that leaves the rows and the files alone is calm.
LEMMA SameIsCalm == ASSUME UNCHANGED <<row, file>> PROVE \A d \in Docs : Calm(d)
  BY DEF row, Calm, Present

\* A task that works on nothing is in order.
LEMMA AtEase ==
    ASSUME NEW t, pc'[t] \notin Owning \union Shadowing, switching' # t
    PROVE  JobOK(t)'
  <1>1. /\ pc'[t] \notin SwitchSteps /\ pc'[t] \notin Early /\ pc'[t] \notin Late
        /\ pc'[t] \notin Shadowing /\ pc'[t] # "fail" /\ pc'[t] \notin FreshSteps
    BY DEF Owning, Shadowing, Early, Late, FreshSteps
  <1>2. pc'[t] \notin {"heal", "shift", "install", "replace", "restore"}
    BY <1>1 DEF SwitchSteps
  <1> QED BY <1>1, <1>2 DEF JobOK, LockOK, StatusOK, FileOK

\* What a step of a task may use about it.
LEMMA Known ==
    ASSUME IInv, QuietInv, NEW t \in Tasks
    PROVE  /\ RunTypes /\ RowTypes /\ TaskOK(t) /\ JobOK(t)
           /\ pc \in [Tasks -> Steps] /\ task \in [Tasks -> TaskRecords]
           /\ t # None
           /\ t \in moving => t \in Slots
           /\ pc[t] \in HandlerSteps => t \in Slots
           /\ pc[t] \in DocSteps => task[t].doc \in Docs /\ status[task[t].doc] # "none"
           /\ pc[t] \notin SwitchSteps => switching # t
           /\ switching \in Tasks \union {None}
  <1>1. RunTypes /\ RowTypes /\ TaskOK(t)
    BY DEF IInv, TypeOK, RunTypes, RowTypes, TasksOK
  <1>2. JobOK(t) /\ (pc[t] \notin SwitchSteps => switching # t)
    BY DEF QuietInv, JobOK, LockOK
  <1>3. t # None
    BY TasksAssumption DEF Tasks
  <1>4. pc[t] \in DocSteps => task[t].doc \in Docs /\ status[task[t].doc] # "none"
    BY <1>1, DocsAssumption DEF TaskOK
  <1> QED BY <1>1, <1>2, <1>3, <1>4 DEF RunTypes, TaskOK

\* A step of a task that is not working on a document, nor is afterwards.
LEMMA IdleKeeps ==
    ASSUME IInv, QuietInv, NEW t \in Tasks, Turn(t), UNCHANGED <<row, file, switching>>,
           pc[t] \notin Owning \union SwitchSteps, pc'[t] \notin Owning \union Shadowing
    PROVE  QuietInv'
  <1>1. \A d \in Docs : Calm(d)
    BY SameIsCalm
  <1>2. switching # t
    BY Known
  <1>3. JobOK(t)'
    BY <1>2, AtEase
  <1>4. KeepsHand(t)
    BY DEF KeepsHand
  <1> QED BY <1>1, <1>2, <1>3, <1>4, CalmKeeps

\* A job begins, or goes on, to prepare a shadow index.
LEMMA PrepareKeeps ==
    ASSUME IInv, QuietInv, NEW t \in Tasks, Turn(t), UNCHANGED <<row, file, switching>>,
           pc[t] \notin Owning \union SwitchSteps, pc'[t] \in ShadowSteps,
           Without({"crash", "reprocess"})' /\ Holds(t)' => status'[task'[t].doc] \notin InProgress
    PROVE  QuietInv'
  <1>1. \A d \in Docs : Calm(d)
    BY SameIsCalm
  <1>2. switching # t
    BY Known
  <1>3. JobOK(t)'
    <2>1. /\ pc'[t] \notin SwitchSteps /\ pc'[t] \notin Early /\ pc'[t] \notin Late
          /\ pc'[t] # "fail" /\ pc'[t] \notin FreshSteps
          /\ pc'[t] \notin {"heal", "shift", "install", "replace", "restore"}
      BY DEF ShadowSteps, SwitchSteps, Early, Late, FreshSteps
    <2> QED BY <1>2, <2>1 DEF JobOK, LockOK, StatusOK, FileOK
  <1>4. KeepsHand(t)
    BY DEF KeepsHand, ShadowSteps, Owning, FreshSteps
  <1> QED BY <1>1, <1>2, <1>3, <1>4, CalmKeeps

\* Nothing that a handler does before it has a document is seen.
LEMMA LookKeeps ==
    ASSUME IInv, QuietInv, NEW t \in Tasks, FindBySha(t) \/ FindByName(t)
    PROVE  QuietInv'
  <1>1. /\ UNCHANGED <<row, file, switching, stuck, happened, moving>>
        /\ pc[t] \in {"bySha", "byName"} /\ pc'[t] \in {"dedup", "replaceable", "byName", "insertDoc"}
        /\ OnlyOf(t)
    BY Known DEF FindBySha, FindByName, Goto, OnlyOf, counters, RunTypes
  <1>2. Turn(t)
    BY <1>1 DEF Turn
  <1>3. pc[t] \notin Owning \union SwitchSteps /\ pc'[t] \notin Owning \union Shadowing
    BY <1>1 DEF Owning, FreshSteps, SwitchSteps, Shadowing, ShadowSteps
  <1> QED BY <1>1, <1>2, <1>3, IdleKeeps

\* dedup and replaceable: the job starts on a document that is not in progress.
LEMMA DispatchKeeps ==
    ASSUME IInv, QuietInv, NEW t \in Tasks, Dedup(t) \/ Replaceable(t)
    PROVE  QuietInv'
  <1>1. /\ UNCHANGED <<row, file, switching, stuck, happened>>
        /\ pc[t] \in {"dedup", "replaceable"}
    BY DEF Dedup, Replaceable, counters
  <1>2. /\ OnlyOf(t)
        /\ pc'[t] \in {"idle", "read"}
        /\ pc'[t] = "read" => /\ task'[t].doc = task[t].doc
                              /\ status[task[t].doc] \notin InProgress
    BY Known DEF Dedup, Replaceable, Goto, End, Spawn, OnlyOf, RunTypes, Reusable, Busy, InProgress, TaskRecords
  <1>3. Turn(t)
    BY <1>1, <1>2 DEF Turn
  <1>4. pc[t] \notin Owning \union SwitchSteps
    BY <1>1 DEF Owning, FreshSteps, SwitchSteps
  <1>5. CASE pc'[t] = "idle"
    <2>1. pc'[t] \notin Owning \union Shadowing
      BY <1>5 DEF Owning, FreshSteps, SwitchSteps, Shadowing, ShadowSteps
    <2> QED BY <1>1, <1>3, <1>4, <2>1, IdleKeeps
  <1>6. CASE pc'[t] = "read"
    <2>1. pc'[t] \in ShadowSteps
      BY <1>6 DEF ShadowSteps
    <2>2. status'[task'[t].doc] \notin InProgress
      BY <1>1, <1>2, <1>6 DEF row
    <2> QED BY <1>1, <1>3, <1>4, <2>1, <2>2, PrepareKeeps
  <1> QED BY <1>2, <1>5, <1>6

\* A row is inserted for a document that nobody has yet: the handler has it in hand.
LEMMA InsertKeeps ==
    ASSUME IInv, QuietInv, NEW t \in Tasks, InsertDoc(t)
    PROVE  QuietInv'
  <1>1. /\ UNCHANGED <<file, switching, stuck, happened>> /\ OnlyOf(t) /\ pc[t] = "insertDoc"
    BY Known DEF InsertDoc, Goto, OnlyOf, counters, RunTypes
  <1>2. Turn(t)
    BY <1>1 DEF Turn
  <1>3. pc[t] \notin Owning \union SwitchSteps /\ switching # t
    <2>1. pc[t] \notin Owning \union SwitchSteps
      BY <1>1 DEF Owning, FreshSteps, SwitchSteps
    <2> QED BY <2>1, Known
  <1>4. CASE UNCHANGED row /\ pc'[t] = "dedup"
    <2>1. pc'[t] \notin Owning \union Shadowing
      BY <1>4 DEF Owning, FreshSteps, SwitchSteps, Shadowing, ShadowSteps
    <2> QED BY <1>1, <1>2, <1>3, <1>4, <2>1, IdleKeeps
  <1>5. ASSUME NEW d \in Docs, status[d] = "none", pc' = [pc EXCEPT ![t] = "accept"],
               status' = [status EXCEPT ![d] = "pending"],
               sha' = [sha EXCEPT ![d] = task[t].content],
               task' = [task EXCEPT ![t].doc = d]
        PROVE  QuietInv'
    <2>a. /\ pc'[t] = "accept" /\ task'[t].doc = d /\ task'[t].content = task[t].content
          /\ task[t].content \in Contents
      BY <1>1, <1>5, Known DEF TaskOK, TaskRecords
    <2>b. /\ status'[d] = "pending" /\ sha'[d] = task[t].content
          /\ \A e \in Docs : e # d => status'[e] = status[e] /\ sha'[e] = sha[e]
      BY <1>5, Known DEF RowTypes
    <2>c. ASSUME NEW u \in Tasks PROVE task[u].doc # d
      BY <1>5, DocsAssumption, Known DEF TaskOK
    <2>1. JobOK(t)'
      <3>1. LockOK(t)'
        BY <1>1, <1>3, <2>a DEF LockOK, SwitchSteps
      <3>2. StatusOK(t)'
        BY <2>a, <2>b DEF StatusOK, InProgress, Late, Shadowing, ShadowSteps, SwitchSteps
      <3>3. FileOK(t)'
        BY <2>a, <2>b DEF FileOK, FreshSteps
      <3> QED BY <3>1, <3>2, <3>3 DEF JobOK
    <2>2. ASSUME NEW u \in Tasks, u # t PROVE JobOK(u)'
      <3>1. /\ Untouched(u) /\ JobOK(u) /\ task[u].doc # d
        BY <1>1, <2>2, <2>c DEF Untouched, OnlyOf, QuietInv
      <3>2. Switched(task[u].doc)' <=> Switched(task[u].doc)
        BY <1>1, <1>3, <3>1, Known DEF Switched, OnlyOf, Untouched
      <3>3. Holds(u)' => Holds(u) /\ status'[task[u].doc] = status[task[u].doc] /\ sha'[task[u].doc] = sha[task[u].doc]
        BY <3>1, <2>b DEF Holds, Untouched, Present
      <3>4. LockOK(u)'
        BY <3>1, <1>1 DEF JobOK, LockOK, Untouched
      <3>5. StatusOK(u)'
        BY <3>1, <3>3, <1>1 DEF JobOK, StatusOK, Untouched, Without
      <3>6. FileOK(u)'
        BY <3>1, <3>2, <3>3, <1>1 DEF JobOK, FileOK, Untouched, Quiet, Without
      <3> QED BY <3>4, <3>5, <3>6 DEF JobOK
    <2>3. NoRecovery'
      <3>1. Without({"crash"}) => t # Recovery
        BY <1>1 DEF QuietInv, NoRecovery
      <3> QED BY <1>1, <3>1, TasksAssumption DEF QuietInv, NoRecovery, OnlyOf, Without, Tasks
    <2>4. OneHand'
      <3>1. \A u \in Tasks : u # t => pc'[u] = pc[u] /\ task'[u] = task[u] /\ task[u].doc # d
        BY <1>1, <2>c DEF OnlyOf
      <3> QED BY <1>1, <2>a, <3>1 DEF QuietInv, OneHand, Without
    <2>5. FiledOK'
      <3> SUFFICES ASSUME NEW e \in Docs
                   PROVE  /\ status'[e] = "none" => file'[e] = None
                          /\ Present(e)' => sha'[e] \in Contents
                          /\ Quiet' /\ Present(e)' /\ ~Switched(e)' => Stored(e)'
        BY DEF FiledOK
      <3>1. CASE e = d
        BY <1>1, <1>5, <2>a, <2>b, <3>1 DEF QuietInv, FiledOK, Stored, InProgress
      <3>2. CASE e # d
        <4>1. Switched(e)' <=> Switched(e)
          BY <1>1, <1>3, Known DEF Switched, OnlyOf
        <4> QED BY <1>1, <2>b, <3>2, <4>1 DEF QuietInv, FiledOK, Stored, Present, Quiet, Without
      <3> QED BY <3>1, <3>2
    <2>6. InProgressIsInHandQuietly'
      <3>1. ASSUME Without({"cancel", "pg", "crash"})', NEW e \in Docs, status'[e] \in InProgress
            PROVE  InHand(e)'
        <4>1. CASE e = d
          BY <2>a, <4>1 DEF InHand
        <4>2. CASE e # d
          <5>1. PICK u \in Tasks : task[u].doc = e /\ pc[u] \in Owning
            BY <1>1, <2>b, <3>1, <4>2 DEF QuietInv, InProgressIsInHandQuietly, InProgressIsInHand, InHand,
               Owning, Without
          <5>2. task'[u].doc = e /\ pc'[u] \in Owning
            BY <1>1, <1>3, <5>1 DEF OnlyOf
          <5> QED BY <5>2 DEF InHand, Owning
        <4> QED BY <4>1, <4>2
      <3> QED BY <3>1 DEF InProgressIsInHandQuietly, InProgressIsInHand
    <2> QED BY <2>1, <2>2, <2>3, <2>4, <2>5, <2>6 DEF QuietInv
  <1> QED
    <2>1. \/ UNCHANGED row /\ pc' = [pc EXCEPT ![t] = "dedup"]
          \/ \E d \in Docs : /\ status[d] = "none" /\ pc' = [pc EXCEPT ![t] = "accept"]
                             /\ status' = [status EXCEPT ![d] = "pending"]
                             /\ sha' = [sha EXCEPT ![d] = task[t].content]
                             /\ task' = [task EXCEPT ![t].doc = d]
      BY DEF InsertDoc, Goto
    <2>2. CASE UNCHANGED row /\ pc' = [pc EXCEPT ![t] = "dedup"]
      BY <1>4, <2>2, Known
    <2> QED BY <1>5, <2>1, <2>2

(***************************************************************************)
(* The first ingest                                                        *)
(***************************************************************************)
\* The task is dropped with its document, or ends on one that is gone.
LEMMA DropKeeps ==
    ASSUME IInv, QuietInv, NEW t \in Tasks, Turn(t), UNCHANGED <<row, file, switching>>,
           pc[t] \notin SwitchSteps, pc'[t] \notin Owning \union Shadowing,
           Without({"cancel", "pg", "crash"})' /\ pc[t] \in Owning => status[task[t].doc] \notin InProgress
    PROVE  QuietInv'
  <1>1. \A d \in Docs : Calm(d)
    BY SameIsCalm
  <1>2. switching # t
    BY Known
  <1>3. JobOK(t)'
    BY <1>2, AtEase
  <1>4. KeepsHand(t)
    BY DEF KeepsHand, row
  <1> QED BY <1>1, <1>2, <1>3, <1>4, CalmKeeps

\* The ingest goes on, or to its failure, with nothing written to the row or the file.
LEMMA OnwardKeeps ==
    ASSUME IInv, QuietInv, NEW t \in Tasks, Turn(t), \A d \in Docs : Calm(d),
           UNCHANGED <<status, sha, file, switching>>,
           pc[t] \in FreshSteps, pc'[t] \in FreshSteps,
           task'[t].doc = task[t].doc, task'[t].content = task[t].content,
           pc'[t] \in Early => pc[t] \in Early,
           pc'[t] \in Late => pc[t] \in Late,
           pc'[t] = "fail" /\ Without({"crash", "reprocess", "pg"})' /\ Holds(t) => status[task[t].doc] \in InProgress
    PROVE  QuietInv'
  <1>1. pc[t] \notin SwitchSteps /\ pc'[t] \notin SwitchSteps /\ pc[t] \in Owning /\ pc'[t] \in Owning
    BY DEF SwitchSteps, FreshSteps, Owning
  <1>2. switching # t /\ JobOK(t)
    BY <1>1, Known
  <1>3. KeepsHand(t)
    BY <1>1 DEF KeepsHand
  <1>4. happened \subseteq happened'
    BY DEF Turn
  <1>5. JobOK(t)'
    <2>1. LockOK(t)'
      BY <1>1, <1>2 DEF LockOK, SwitchSteps
    <2>2. Holds(t)' <=> Holds(t)
      BY DEF Holds, Present
    <2>3. pc'[t] \notin Shadowing
      BY <1>1 DEF Shadowing, ShadowSteps, FreshSteps
    <2>4. StatusOK(t)'
      BY <1>2, <1>4, <2>2, <2>3, Grows DEF JobOK, StatusOK
    <2>5. Switched(task[t].doc)' => Switched(task[t].doc)
      BY <1>2, Known DEF Switched, Turn, OnlyOf
    <2>6. Switched(task[t].doc) => Switched(task[t].doc)'
      BY <1>2, Known DEF Switched, Turn, OnlyOf
    <2>7. FileOK(t)'
      BY <1>1, <1>2, <1>4, <2>2, <2>6, QuietGrows DEF JobOK, FileOK, SwitchSteps
    <2> QED BY <2>1, <2>4, <2>7 DEF JobOK
  <1> QED BY <1>2, <1>3, <1>5, CalmKeeps

\* set_status of a first ingest.
LEMMA StatusSet ==
    ASSUME IInv, QuietInv, NEW t \in Tasks, pc[t] \in Owning, task[t].doc \in Docs, Holds(t),
           NEW s \in {"parsing", "chunked", "embedded", "failed"},
           pc[t] \in Early \/ s # "parsing",
           SetStatus(task[t].doc, s), UNCHANGED <<file, switching>>
    PROVE  /\ Works(t)
           /\ UNCHANGED sha
           /\ status'[task[t].doc] = s
           /\ s # "parsing" => status'[task[t].doc] \notin InProgress
  <1>1. /\ status' = [status EXCEPT ![task[t].doc] = s] /\ UNCHANGED sha
        /\ status \in [Docs -> Statuses]
    BY Known DEF SetStatus, RowTypes
  <1>2. status'[task[t].doc] = s /\ \A d \in Docs : d # task[t].doc => status'[d] = status[d]
    BY <1>1
  <1>3. Present(task[t].doc)
    BY DEF Holds
  <1>4. \A d \in {task[t].doc} : Present(d)' /\ Present(d)
    BY <1>2, <1>3 DEF Present
  <1> QED BY <1>1, <1>2, <1>4 DEF Works, OnlyDocOf, InProgress, Present

\* accept and begin: the document is shown as being parsed.
LEMMA ParsingKeeps ==
    ASSUME IInv, QuietInv, NEW t \in Tasks, Accept(t) \/ Begin(t), Holds(t)
    PROVE  QuietInv'
  <1>1. /\ SetStatus(task[t].doc, "parsing") /\ UNCHANGED <<file, switching, task, stuck, happened>>
        /\ \/ pc[t] = "accept" /\ pc'[t] = "store"
           \/ pc[t] = "begin" /\ pc'[t] = "save"
        /\ OnlyOf(t)
    BY Known DEF Accept, Begin, Goto, OnlyOf, counters, Holds
  <1>2. pc[t] \in Early /\ pc'[t] \in Early /\ pc[t] \in Owning /\ pc'[t] \in Owning /\ pc[t] \in DocSteps
        /\ pc'[t] \notin SwitchSteps /\ pc[t] \notin SwitchSteps
        /\ pc'[t] \notin Late /\ pc'[t] \notin Shadowing /\ pc'[t] # "fail"
        /\ (pc'[t] \in FreshSteps <=> pc[t] \in FreshSteps)
    BY <1>1 DEF Early, Owning, FreshSteps, SwitchSteps, Late, Shadowing, ShadowSteps, DocSteps, Steps, HandlerSteps
  <1>3. JobOK(t) /\ task[t].doc \in Docs /\ switching # t
    BY <1>2, Known
  <1>4. Works(t) /\ UNCHANGED sha /\ status'[task[t].doc] = "parsing"
    BY <1>1, <1>2, <1>3, StatusSet
  <1>5. Turn(t) /\ KeepsHand(t)
    BY <1>1, <1>2 DEF Turn, KeepsHand
  <1>6. Switched(task[t].doc)' <=> Switched(task[t].doc)
    BY <1>1 DEF Switched
  <1>7. JobOK(t)'
    <2>1. LockOK(t)'
      BY <1>1, <1>2, <1>3 DEF LockOK, SwitchSteps
    <2>2. StatusOK(t)'
      BY <1>1, <1>2, <1>4 DEF StatusOK, InProgress
    <2>3. FileOK(t)'
      BY <1>1, <1>2, <1>3, <1>4, <1>6 DEF JobOK, FileOK, SwitchSteps, Quiet, Without
    <2> QED BY <2>1, <2>2, <2>3 DEF JobOK
  <1>8. \A d \in {task[t].doc} : Quiet' /\ Present(d)' /\ ~Switched(d) => Stored(d)'
    <2>1. Quiet /\ ~Switched(task[t].doc) => file[task[t].doc] \in {sha[task[t].doc], None}
      <3>1. Quiet => status[task[t].doc] \in InProgress
        BY <1>2, <1>3, Fewer DEF JobOK, StatusOK
      <3> QED BY <1>3, <3>1 DEF QuietInv, FiledOK, Stored, Holds
    <2> QED BY <1>1, <1>4, <2>1 DEF Stored, InProgress, Quiet, Without
  <1> QED BY <1>4, <1>5, <1>7, <1>8, WorkKeeps

\* The rest of Accept and Begin: the document was deleted meanwhile.
LEMMA GoneKeeps ==
    ASSUME IInv, QuietInv, NEW t \in Tasks, Accept(t) \/ Begin(t), ~Holds(t)
    PROVE  QuietInv'
  <1>1. /\ UNCHANGED <<row, file, switching, stuck, happened>>
        /\ \/ pc[t] = "accept" /\ pc'[t] = "idle"
           \/ pc[t] = "begin" /\ pc'[t] = "fail" /\ UNCHANGED task
        /\ OnlyOf(t)
    BY Known DEF Accept, Begin, Goto, End, OnlyOf, counters, Holds, TaskOK, DocSteps, Steps, HandlerSteps, FreshSteps,
       RunTypes
  <1>2. Turn(t)
    BY <1>1 DEF Turn
  <1>3. status[task[t].doc] \notin InProgress
    BY <1>1, Known DEF Holds, Present, InProgress, DocSteps, Steps, HandlerSteps, FreshSteps
  <1>4. CASE pc[t] = "accept"
    <2>1. pc[t] \notin SwitchSteps /\ pc'[t] \notin Owning \union Shadowing
      BY <1>1, <1>4 DEF SwitchSteps, Owning, FreshSteps, Shadowing, ShadowSteps
    <2> QED BY <1>1, <1>2, <1>3, <2>1, DropKeeps
  <1>5. CASE pc[t] = "begin"
    <2>1. pc[t] \in FreshSteps /\ pc'[t] \in FreshSteps /\ pc'[t] \notin Early /\ pc'[t] \notin Late
      BY <1>1, <1>5 DEF FreshSteps, Early, Late
    <2>2. \A d \in Docs : Calm(d)
      BY <1>1, SameIsCalm
    <2> QED BY <1>1, <1>2, <1>5, <2>1, <2>2, OnwardKeeps DEF row
  <1> QED BY <1>1, <1>4, <1>5

\* store and save: the file of the document is written, with the content of its row.
LEMMA WriteKeeps ==
    ASSUME IInv, QuietInv, NEW t \in Tasks, Store(t) \/ Save(t)
    PROVE  QuietInv'
  <1>1. /\ file' = [file EXCEPT ![task[t].doc] = task[t].content]
        /\ UNCHANGED <<row, switching, stuck, happened>>
        /\ \/ pc[t] = "store" /\ pc'[t] = "begin"
           \/ pc[t] = "save" /\ pc'[t] = "parse"
        /\ task'[t].doc = task[t].doc /\ task'[t].content = task[t].content
        /\ OnlyOf(t)
    BY Known DEF Store, Save, Spawn, Goto, OnlyOf, counters, TaskRecords
  <1>2. /\ pc[t] \in Early /\ pc'[t] \in Early /\ pc[t] \in Owning /\ pc'[t] \in Owning /\ pc[t] \in DocSteps
        /\ pc'[t] \notin SwitchSteps /\ pc[t] \notin SwitchSteps /\ pc[t] # "idle"
        /\ pc'[t] \notin Late /\ pc'[t] \notin Shadowing /\ pc'[t] # "fail"
    BY <1>1 DEF Early, Owning, FreshSteps, SwitchSteps, Late, Shadowing, ShadowSteps, DocSteps, Steps, HandlerSteps
  <1>3. /\ JobOK(t) /\ task[t].doc \in Docs /\ switching # t /\ status[task[t].doc] # "none"
        /\ file \in [Docs -> Contents \union {None}]
    BY <1>2, Known DEF RunTypes
  <1>4. /\ file'[task[t].doc] = task[t].content
        /\ \A d \in Docs : d # task[t].doc => file'[d] = file[d]
    BY <1>1, <1>3
  <1>5. Works(t)
    BY <1>1, <1>2, <1>3, <1>4 DEF Works, OnlyDocOf, row, Present
  <1>6. Turn(t) /\ KeepsHand(t)
    BY <1>1, <1>2 DEF Turn, KeepsHand
  <1>7. Quiet' /\ Holds(t) => task[t].content = sha[task[t].doc]
    BY <1>1, <1>2, <1>3 DEF JobOK, FileOK, Quiet, Without
  <1>8. JobOK(t)'
    <2>1. LockOK(t)'
      BY <1>1, <1>2, <1>3 DEF LockOK, SwitchSteps
    <2>2. Holds(t)' <=> Holds(t)
      BY <1>1 DEF Holds, row, Present
    <2>3. StatusOK(t)'
      BY <1>1, <1>2, <1>3, <2>2 DEF JobOK, StatusOK, row, Without
    <2>4. FileOK(t)'
      BY <1>1, <1>2, <1>4, <1>7, <2>2 DEF FileOK, SwitchSteps, row
    <2> QED BY <2>1, <2>3, <2>4 DEF JobOK
  <1>9. \A d \in {task[t].doc} : Quiet' /\ Present(d)' /\ ~Switched(d) => Stored(d)'
    <2>1. Present(task[t].doc) => Holds(t)
      BY <1>3 DEF Holds
    <2> QED BY <1>1, <1>4, <1>7, <2>1 DEF Stored, row, Present
  <1> QED BY <1>5, <1>6, <1>8, <1>9, WorkKeeps

\* A set_status with which the document is no longer in progress.
LEMMA DoneKeeps ==
    ASSUME IInv, QuietInv, NEW t \in Tasks, Turn(t), pc[t] \in Owning, task[t].doc \in Docs, Holds(t),
           NEW s \in {"chunked", "embedded", "failed"},
           SetStatus(task[t].doc, s), UNCHANGED <<file, switching>>,
           pc[t] \in FreshSteps \/ ~Quiet',
           pc'[t] = "idle" \/ (pc'[t] = "texts" /\ UNCHANGED task)
    PROVE  QuietInv'
  <1>1. /\ Works(t) /\ UNCHANGED sha /\ status'[task[t].doc] \notin InProgress
        /\ status'[task[t].doc] = s
    BY StatusSet
  <1>2. KeepsHand(t)
    <2>1. pc'[t] \in Owning => task'[t].doc = task[t].doc
      BY DEF Owning, FreshSteps
    <2> QED BY <1>1, <2>1 DEF KeepsHand
  <1>3. switching # t /\ JobOK(t) /\ happened \subseteq happened'
    BY Known DEF Owning, SwitchSteps, FreshSteps, Turn
  <1>4. Quiet' /\ ~Switched(task[t].doc) => file[task[t].doc] = sha[task[t].doc]
    BY <1>3, QuietGrows DEF JobOK, FileOK
  <1>5. JobOK(t)'
    <2>1. CASE pc'[t] = "idle"
      <3>1. pc'[t] \notin Owning \union Shadowing
        BY <2>1 DEF SwitchSteps, Owning, FreshSteps, Shadowing, ShadowSteps
      <3> QED BY <1>3, <3>1, AtEase
    <2>2. CASE pc'[t] = "texts" /\ UNCHANGED task
      <3>1. LockOK(t)'
        BY <1>3, <2>2 DEF LockOK, SwitchSteps
      <3>2. StatusOK(t)'
        BY <1>1, <2>2 DEF StatusOK, Early, Late, Shadowing, ShadowSteps, SwitchSteps
      <3>3. Switched(task[t].doc)' <=> Switched(task[t].doc)
        BY <2>2 DEF Switched
      <3>4. FileOK(t)'
        BY <1>1, <1>4, <2>2, <3>3 DEF FileOK, Early
      <3> QED BY <3>1, <3>2, <3>4 DEF JobOK
    <2> QED BY <2>1, <2>2
  <1>6. \A d \in {task[t].doc} : Quiet' /\ Present(d)' /\ ~Switched(d) => Stored(d)'
    BY <1>1, <1>4 DEF Stored
  <1> QED BY <1>1, <1>2, <1>5, <1>6, WorkKeeps

\* The ingest prepares what it will write next, or writes of the index alone.
LEMMA IndexKeeps ==
    ASSUME IInv, QuietInv, NEW t \in Tasks,
           Parse(t) \/ InsertChunks(t) \/ ReadTexts(t) \/ Embed(t) \/ Publish(t) \/ RunFails(t)
    PROVE  QuietInv'
  <1>1. /\ UNCHANGED <<row, file, switching, stuck>> /\ happened \subseteq happened'
        /\ \/ pc[t] \in {"save", "parse", "insert"} /\ pc'[t] \in {"insert", "count", "fail"}
           \/ pc[t] \in {"texts", "embed", "publish"} /\ pc'[t] \in {"embed", "publish", "promote"}
        /\ task'[t].doc = task[t].doc /\ task'[t].content = task[t].content
        /\ OnlyOf(t)
    BY Known DEF Parse, InsertChunks, ReadTexts, Embed, Publish, RunFails, Goto, OnlyOf, counters, TaskRecords, Once
  <1>2. /\ pc[t] \in FreshSteps /\ pc'[t] \in FreshSteps /\ pc[t] # "idle"
        /\ pc'[t] \in Early => pc[t] \in Early
        /\ pc'[t] \in Late => pc[t] \in Late
        /\ pc'[t] = "fail" => pc[t] \in Early
    BY <1>1 DEF FreshSteps, Early, Late
  <1>3. Turn(t)
    BY <1>1, <1>2 DEF Turn
  <1>4. \A d \in Docs : Calm(d)
    BY <1>1, SameIsCalm
  <1>5. pc'[t] = "fail" /\ Without({"crash", "reprocess", "pg"})' /\ Holds(t) => status[task[t].doc] \in InProgress
    <2>1. Without({"crash", "reprocess", "pg"})' => Without({"crash", "reprocess"})
      BY <1>1, Grows, Fewer
    <2> QED BY <1>2, <2>1, Known DEF JobOK, StatusOK
  <1> QED BY <1>1, <1>2, <1>3, <1>4, <1>5, OnwardKeeps DEF row

\* A document that is gone fails its ingest.
LEMMA LostKeeps ==
    ASSUME IInv, QuietInv, NEW t \in Tasks, Turn(t), UNCHANGED <<row, file, switching, task>>,
           pc[t] \in FreshSteps, pc'[t] = "fail", ~Holds(t)
    PROVE  QuietInv'
  <1>1. pc'[t] \in FreshSteps /\ pc'[t] \notin Early /\ pc'[t] \notin Late
    BY DEF FreshSteps, Early, Late
  <1>2. \A d \in Docs : Calm(d)
    BY SameIsCalm
  <1> QED BY <1>1, <1>2, OnwardKeeps DEF row

\* count: the chunks are there; without the embedding service that is also the end.
LEMMA CountKeeps ==
    ASSUME IInv, QuietInv, NEW t \in Tasks, Count(t) \/ EmbedUnavailable(t)
    PROVE  QuietInv'
  <1>1. /\ UNCHANGED <<file, switching, stuck>> /\ happened \subseteq happened'
        /\ OnlyOf(t) /\ pc[t] \in {"count", "embed"}
    BY Known DEF Count, EmbedUnavailable, Goto, End, OnlyOf, counters, Once
  <1>2. pc[t] \in FreshSteps /\ pc[t] \in Owning /\ pc[t] \in DocSteps
    BY <1>1 DEF FreshSteps, Owning, DocSteps, Steps, HandlerSteps
  <1>3. Turn(t) /\ task[t].doc \in Docs
    BY <1>1, <1>2, Known DEF Turn
  <1>4. CASE Holds(t)
    <2>1. /\ SetStatus(task[t].doc, "chunked")
          /\ pc'[t] = "idle" \/ (pc'[t] = "texts" /\ UNCHANGED task)
      BY <1>4, Known DEF Count, EmbedUnavailable, Goto, End, Holds
    <2> QED BY <1>1, <1>2, <1>3, <1>4, <2>1, DoneKeeps
  <1>5. CASE ~Holds(t)
    <2>1. pc'[t] = "fail" /\ UNCHANGED <<row, task>>
      BY <1>3, <1>5, Known DEF Count, EmbedUnavailable, Goto, Holds
    <2> QED BY <1>1, <1>2, <1>3, <1>5, <2>1, LostKeeps
  <1> QED BY <1>4, <1>5

\* The end of a first ingest.
LEMMA IngestEndKeeps ==
    ASSUME IInv, QuietInv, NEW t \in Tasks, Promote(t) \/ Fail(t) \/ StoreFails(t)
    PROVE  QuietInv'
  <1>1. /\ UNCHANGED <<file, switching, stuck>> /\ happened \subseteq happened'
        /\ OnlyOf(t) /\ pc[t] \in {"promote", "fail", "store"} /\ pc'[t] = "idle"
        /\ pc[t] = "store" => ~Quiet'
    BY Known DEF Promote, Fail, StoreFails, Goto, End, OnlyOf, counters, Once, Quiet, Without
  <1>2. /\ pc[t] \in FreshSteps \/ ~Quiet'
        /\ pc[t] \in Owning /\ pc[t] \in DocSteps /\ pc[t] \notin SwitchSteps
        /\ pc'[t] \notin Owning \union Shadowing
    BY <1>1 DEF FreshSteps, Owning, DocSteps, Steps, HandlerSteps, SwitchSteps, Shadowing, ShadowSteps
  <1>3. Turn(t) /\ task[t].doc \in Docs
    BY <1>1, <1>2, Known DEF Turn
  <1>4. CASE \E s \in {"embedded", "failed"} : SetStatus(task[t].doc, s) /\ Holds(t)
    BY <1>1, <1>2, <1>3, <1>4, DoneKeeps
  <1>5. CASE UNCHANGED row
    <2>1. Without({"cancel", "pg", "crash"})' => status[task[t].doc] \notin InProgress
      <3>1. CASE pc[t] = "promote"
        <4>1. Without({"cancel", "pg", "crash"})' => Without({"crash"})
          BY <1>1, Grows, Fewer
        <4>2. pc[t] \in Late
          BY <3>1 DEF Late
        <4> QED BY <1>3, <4>1, <4>2, Known DEF JobOK, StatusOK, Holds, Present, InProgress
      <3>2. CASE pc[t] # "promote"
        <4>1. SetFailed(task[t].doc)
          BY <3>2 DEF Promote, Fail, StoreFails
        <4> QED BY <1>3, <1>5, <4>1, Known DEF SetFailed, SetStatus, row, Present, InProgress, RowTypes
      <3> QED BY <3>1, <3>2
    <2> QED BY <1>1, <1>2, <1>3, <1>5, <2>1, DropKeeps
  <1> QED
    <2>1. (\E s \in {"embedded", "failed"} : SetStatus(task[t].doc, s) /\ Holds(t)) \/ UNCHANGED row
      BY <1>3 DEF Promote, Fail, StoreFails, SetFailed, Ready, Present, Holds
    <2> QED BY <1>4, <1>5, <2>1

LEMMA FirstIngestKeeps ==
    ASSUME IInv, QuietInv, NEW t \in Tasks, HandlerStep(t) \/ FreshStep(t)
    PROVE  QuietInv'
  BY LookKeeps, DispatchKeeps, InsertKeeps, ParsingKeeps, GoneKeeps, WriteKeeps, IndexKeeps,
     CountKeeps, IngestEndKeeps DEF HandlerStep, FreshStep

(***************************************************************************)
(* The jobs that switch a shadow index in                                  *)
(***************************************************************************)
LEMMA ShadowKept ==
    ASSUME IInv, QuietInv, NEW t \in Tasks, ReadRow(t) \/ BuildShadow(t) \/ ShadowFails(t)
    PROVE  QuietInv'
  <1>1. /\ UNCHANGED <<row, file, switching, stuck>> /\ happened \subseteq happened'
        /\ OnlyOf(t) /\ pc[t] \in {"read", "shadow"}
        /\ pc'[t] = "idle" \/ (pc'[t] \in {"shadow", "lock"} /\ task'[t].doc = task[t].doc)
    BY Known DEF ReadRow, BuildShadow, ShadowFails, Goto, End, OnlyOf, counters, Once, TaskRecords
  <1>2. /\ pc[t] \notin Owning \union SwitchSteps /\ pc[t] \in Shadowing /\ pc[t] # "idle"
        /\ pc'[t] = "idle" => pc'[t] \notin Owning \union Shadowing
        /\ pc'[t] # "idle" => pc'[t] \in ShadowSteps
    BY <1>1 DEF FreshSteps, Owning, SwitchSteps, Shadowing, ShadowSteps
  <1>3. Turn(t)
    BY <1>1, <1>2 DEF Turn
  <1>4. CASE pc'[t] = "idle"
    BY <1>1, <1>2, <1>3, <1>4, IdleKeeps
  <1>5. CASE pc'[t] # "idle"
    <2>1. Holds(t)' => Holds(t)
      BY <1>1, <1>5 DEF Holds, row, Present
    <2>2. Without({"crash", "reprocess"})' /\ Holds(t)' => status'[task'[t].doc] \notin InProgress
      <3>1. Without({"crash", "reprocess"})' => Without({"crash", "reprocess"})
        BY <1>1, Grows
      <3> QED BY <1>1, <1>2, <1>5, <2>1, <3>1, Known DEF JobOK, StatusOK, row
    <2> QED BY <1>1, <1>2, <1>3, <1>5, <2>2, PrepareKeeps
  <1> QED BY <1>4, <1>5

\* The lock is taken on a document whose file is the one its row names.
LEMMA TakeLockKeeps ==
    ASSUME IInv, QuietInv, NEW t \in Tasks, TakeLock(t)
    PROVE  QuietInv'
  <1>1. /\ UNCHANGED <<row, file, task, stuck, happened>> /\ switching = None /\ switching' = t
        /\ OnlyOf(t) /\ pc[t] = "lock"
        /\ pc'[t] = IF task[t].op = "overwrite" THEN "shift" ELSE "heal"
    BY Known DEF TakeLock, Goto, OnlyOf, counters
  <1>2. /\ pc[t] \notin Owning /\ pc[t] \in Shadowing /\ pc'[t] \notin Owning
        /\ pc'[t] \in SwitchSteps /\ pc'[t] \notin Early /\ pc'[t] \notin Late
        /\ pc'[t] \notin FreshSteps /\ pc'[t] # "fail"
        /\ pc[t] # "idle"
    BY <1>1 DEF FreshSteps, Owning, SwitchSteps, Shadowing, ShadowSteps, Early, Late
  <1>3. Turn(t) /\ KeepsHand(t) /\ \A d \in Docs : Calm(d)
    BY <1>1, <1>2, SameIsCalm DEF Turn, KeepsHand
  <1>4. Holds(t)' <=> Holds(t)
    BY <1>1 DEF Holds, row, Present
  <1>5. JobOK(t) /\ t # None
    BY Known
  <1>6. Quiet /\ Holds(t) => file[task[t].doc] = sha[task[t].doc]
    <2>1. Without({"crash", "reprocess"}) /\ Holds(t) => status[task[t].doc] \notin InProgress
      BY <1>2, <1>5 DEF JobOK, StatusOK
    <2>2. ~Switched(task[t].doc)
      BY <1>1 DEF Switched
    <2> QED BY <2>1, <2>2, Fewer DEF QuietInv, FiledOK, Stored, Holds
  <1>7. JobOK(t)'
    <2>1. LockOK(t)'
      BY <1>1, <1>2, <1>5 DEF LockOK
    <2>2. StatusOK(t)'
      BY <1>1, <1>2, <1>4, <1>5 DEF JobOK, StatusOK, row, Without
    <2>3. FileOK(t)'
      BY <1>1, <1>2, <1>4, <1>6 DEF FileOK, row, Quiet, Without
    <2> QED BY <2>1, <2>2, <2>3 DEF JobOK
  <1> QED BY <1>1, <1>3, <1>5, <1>7, CalmKeeps

\* The holder goes on under the lock with nothing written to the rows.
LEMMA GoesOnKeeps ==
    ASSUME IInv, QuietInv, NEW t \in Tasks, Turn(t), UNCHANGED <<row, switching>>,
           pc[t] \in SwitchSteps, pc'[t] \in SwitchSteps,
           task'[t].doc = task[t].doc, task'[t].op = task[t].op,
           \A d \in Docs : d # task[t].doc => file'[d] = file[d],
           pc'[t] \in {"shift", "install", "restore"} => task[t].op = "overwrite",
           pc'[t] # "heal",
           FileOK(t)'
    PROVE  QuietInv'
  <1>1. /\ pc[t] \in DocSteps /\ pc[t] \in Shadowing /\ pc'[t] \notin Owning
        /\ pc'[t] \notin Early /\ pc'[t] \notin Late /\ pc'[t] # "fail"
    BY DEF DocSteps, Steps, HandlerSteps, SwitchSteps, Shadowing, Owning, FreshSteps, Early, Late
  <1>2. task[t].doc \in Docs /\ status[task[t].doc] # "none" /\ JobOK(t) /\ happened \subseteq happened'
    BY <1>1, Known DEF Turn
  <1>3. switching = t
    BY <1>2 DEF JobOK, LockOK
  <1>4. Switches(t)
    BY <1>2, <1>3 DEF Switches, OnlyDocOf, row, Present
  <1>5. Holds(t)' <=> Holds(t)
    BY DEF Holds, row, Present
  <1>6. JobOK(t)'
    <2>1. LockOK(t)'
      BY <1>3 DEF LockOK
    <2>2. StatusOK(t)'
      BY <1>1, <1>2, <1>5, Grows DEF JobOK, StatusOK, row
    <2> QED BY <2>1, <2>2 DEF JobOK
  <1>7. \A d \in {task[t].doc} : Present(d)' => sha'[d] \in Contents
    BY <1>2 DEF QuietInv, FiledOK, row, Present
  <1> QED BY <1>1, <1>4, <1>6, <1>7, SwitchKeeps

\* heal, shift, install: the file is moved about, and what was there is kept.
LEMMA FileStepKeeps ==
    ASSUME IInv, QuietInv, NEW t \in Tasks, RestoreMissing(t) \/ Shift(t) \/ Install(t)
    PROVE  QuietInv'
  <1>1. /\ UNCHANGED <<row, switching, stuck, happened>> /\ OnlyOf(t)
        /\ pc[t] \in {"heal", "shift", "install"} /\ pc'[t] \in {"replace", "install"}
        /\ pc[t] = "shift" <=> pc'[t] = "install"
        /\ task'[t].doc = task[t].doc /\ task'[t].op = task[t].op /\ task'[t].content = task[t].content
    BY Known DEF RestoreMissing, Shift, Install, Goto, OnlyOf, counters, TaskRecords
  <1>2. pc[t] \in SwitchSteps /\ pc'[t] \in SwitchSteps /\ pc[t] \in DocSteps
    BY <1>1 DEF SwitchSteps, DocSteps, Steps, HandlerSteps
  <1>3. /\ JobOK(t) /\ Turn(t) /\ task[t].doc \in Docs
        /\ file \in [Docs -> Contents \union {None}] /\ task \in [Tasks -> TaskRecords]
    BY <1>1, <1>2, Known DEF Turn, RunTypes
  <1>4. \A d \in Docs : d # task[t].doc => file'[d] = file[d]
    BY <1>3 DEF RestoreMissing, Shift, Install
  <1>5. /\ pc[t] \in {"shift", "install"} => task[t].op = "overwrite"
        /\ pc[t] = "heal" => task[t].op # "overwrite"
    BY <1>3 DEF JobOK, LockOK
  <1>6. Quiet' /\ Holds(t)' => Quiet /\ Holds(t) /\ sha[task[t].doc] # None
    <2>1. Quiet' /\ Holds(t)' => Quiet /\ Holds(t)
      BY <1>1 DEF Holds, row, Present, Quiet, Without
    <2> QED BY <1>3, <2>1, NoneAssumption DEF QuietInv, FiledOK, Holds
  <1>7. FileOK(t)'
    <2>1. pc'[t] \notin Early /\ pc'[t] \notin FreshSteps
      BY <1>1 DEF Early, FreshSteps
    <2>2. CASE pc[t] = "heal"
      <3>1. Quiet' /\ Holds(t)' => file'[task[t].doc] = sha[task[t].doc]
        BY <1>3, <1>6, <2>2 DEF RestoreMissing, Shift, Install, JobOK, FileOK
      <3> QED BY <1>1, <1>5, <2>1, <2>2, <3>1 DEF FileOK, row
    <2>3. CASE pc[t] = "shift"
      <3>1. task'[t].kept = file[task[t].doc]
        BY <1>3, <2>3 DEF RestoreMissing, Shift, Install, TaskRecords
      <3>2. Quiet' /\ Holds(t)' => task'[t].kept = sha[task[t].doc]
        BY <1>3, <1>6, <2>3, <3>1 DEF JobOK, FileOK
      <3> QED BY <1>1, <1>5, <2>1, <2>3, <3>2 DEF FileOK, row
    <2>4. CASE pc[t] = "install"
      <3>1. task'[t].kept = task[t].kept /\ file'[task[t].doc] = task[t].content
        BY <1>3, <2>4 DEF RestoreMissing, Shift, Install, TaskRecords
      <3>2. Quiet' /\ Holds(t)' => task'[t].kept = sha[task[t].doc]
        BY <1>3, <1>6, <2>4, <3>1 DEF JobOK, FileOK
      <3> QED BY <1>1, <1>5, <2>1, <2>4, <3>1, <3>2 DEF FileOK, row
    <2> QED BY <1>1, <2>2, <2>3, <2>4
  <1> QED BY <1>1, <1>2, <1>3, <1>4, <1>5, <1>7, GoesOnKeeps

\* The holder lets the lock go.
LEMMA LeaveKeeps ==
    ASSUME IInv, QuietInv, NEW t \in Tasks, Turn(t), pc[t] \in SwitchSteps, Leave(t),
           OnlyDocOf(t),
           \A d \in {task[t].doc} :
             /\ Present(d)' <=> Present(d)
             /\ status'[d] = status[d] \/ (status'[d] # "none" /\ status'[d] \notin InProgress)
             /\ Quiet' /\ Present(d)' => file'[d] = sha'[d]
             /\ Present(d)' => sha'[d] \in Contents
    PROVE  QuietInv'
  <1>1. switching' = None /\ pc'[t] = "idle"
    BY Known DEF Leave, End, Goto
  <1>2. pc[t] \in DocSteps /\ pc'[t] \notin Owning \union Shadowing /\ pc'[t] \notin Owning
    BY <1>1 DEF DocSteps, Steps, HandlerSteps, SwitchSteps, Shadowing, ShadowSteps, Owning, FreshSteps
  <1>3. task[t].doc \in Docs /\ status[task[t].doc] # "none" /\ t # None
    BY <1>2, Known
  <1>4. Switches(t)
    BY <1>1, <1>3 DEF Switches
  <1>5. JobOK(t)'
    BY <1>1, <1>2, <1>3, AtEase
  <1> QED BY <1>2, <1>4, <1>5, SwitchKeeps

\* replace_chunks, when it takes effect.
LEMMA Replaced ==
    ASSUME IInv, QuietInv, NEW t \in Tasks, pc[t] = "replace", Holds(t), ReplaceChunks(t), UNCHANGED file
    PROVE  /\ OnlyDocOf(t)
           /\ \A d \in {task[t].doc} :
                /\ Present(d)'
                /\ status'[d] \in {"embedded", "chunked"}
                /\ sha'[d] = IF task[t].op = "overwrite" THEN task[t].content ELSE sha[d]
                /\ sha'[d] \in Contents
  <1>1. /\ \A d \in Docs : d # task[t].doc => status'[d] = status[d] /\ sha'[d] = sha[d]
        /\ status'[task[t].doc] \in {"embedded", "chunked"}
        /\ sha'[task[t].doc] = IF task[t].op = "overwrite" THEN task[t].content ELSE sha[task[t].doc]
    <2>1. status \in [Docs -> Statuses] /\ sha \in [Docs -> Contents \union {None}] /\ task[t].doc \in Docs
      BY Known DEF RowTypes, Holds
    <2>2. PICK s \in {"embedded", "chunked"} : status' = [status EXCEPT ![task[t].doc] = s]
      BY DEF ReplaceChunks, ReplacedStatus
    <2>3. sha' = IF task[t].op = "overwrite" THEN [sha EXCEPT ![task[t].doc] = task[t].content] ELSE sha
      BY DEF ReplaceChunks
    <2> QED BY <2>1, <2>2, <2>3
  <1>2. OnlyDocOf(t)
    BY <1>1 DEF OnlyDocOf
  <1>3. task[t].content \in Contents /\ sha[task[t].doc] \in Contents
    BY Known DEF TaskOK, QuietInv, FiledOK, Holds
  <1>4. \A d \in {task[t].doc} : Present(d)'
    BY <1>1 DEF Present
  <1> QED BY <1>1, <1>2, <1>3, <1>4

\* The job takes the switch for failed, and it did fail.
LEMMA GivesUpKeeps ==
    ASSUME IInv, QuietInv, NEW t \in Tasks, pc[t] = "replace", SwitchFailed(t),
           UNCHANGED <<row, file, moving, stuck>>, happened \subseteq happened'
    PROVE  QuietInv'
  <1>1. /\ OnlyOf(t) /\ Turn(t)
        /\ pc[t] \in SwitchSteps /\ pc[t] \in DocSteps
    BY Known DEF SwitchFailed, Leave, End, Goto, OnlyOf, Turn, SwitchSteps, DocSteps, Steps, HandlerSteps
  <1>2. JobOK(t) /\ task[t].doc \in Docs
    BY <1>1, Known
  <1>3. Quiet' /\ Holds(t) => /\ task[t].op = "overwrite" => task[t].kept = sha[task[t].doc]
                              /\ task[t].op # "overwrite" => file[task[t].doc] = sha[task[t].doc]
    BY <1>2, QuietGrows DEF JobOK, FileOK
  <1>4. CASE task[t].op = "overwrite"
    <2>1. pc'[t] = "restore" /\ UNCHANGED <<task, switching>>
      BY <1>4, Known DEF SwitchFailed, Goto
    <2>2. pc'[t] \in SwitchSteps /\ pc'[t] \notin Early /\ pc'[t] \notin FreshSteps
      BY <2>1 DEF SwitchSteps, Early, FreshSteps
    <2>3. Holds(t)' <=> Holds(t)
      BY <2>1 DEF Holds, row, Present
    <2>4. FileOK(t)'
      BY <1>3, <1>4, <2>1, <2>2, <2>3 DEF FileOK, row
    <2> QED BY <1>1, <1>4, <2>1, <2>2, <2>4, GoesOnKeeps
  <1>5. CASE task[t].op # "overwrite"
    <2>1. Leave(t)
      BY <1>5 DEF SwitchFailed
    <2>2. OnlyDocOf(t)
      BY DEF OnlyDocOf, row
    <2>3. \A d \in {task[t].doc} :
             /\ Present(d)' <=> Present(d)
             /\ status'[d] = status[d]
             /\ Quiet' /\ Present(d)' => file'[d] = sha'[d]
             /\ Present(d)' => sha'[d] \in Contents
      BY <1>2, <1>3, <1>5 DEF row, Present, Holds, QuietInv, FiledOK
    <2> QED BY <1>1, <2>1, <2>2, <2>3, LeaveKeeps
  <1> QED BY <1>4, <1>5

LEMMA ReplaceKeeps ==
    ASSUME IInv, QuietInv, NEW t \in Tasks, Replace(t)
    PROVE  QuietInv'
  <1>1. /\ UNCHANGED <<file, moving, stuck, happened>> /\ pc[t] = "replace"
        /\ pc[t] \in SwitchSteps /\ pc[t] \in DocSteps
    BY DEF Replace, counters, SwitchSteps, DocSteps, Steps, HandlerSteps
  <1>2. JobOK(t) /\ task[t].doc \in Docs
    BY <1>1, Known
  <1>3. CASE Present(task[t].doc) /\ ~ShaTaken(t)
    <2>1. Holds(t) /\ ReplaceChunks(t) /\ Leave(t)
      BY <1>2, <1>3 DEF Replace, Holds
    <2>2. Turn(t)
      BY <1>1, <2>1, Known DEF Leave, End, Goto, OnlyOf, Turn
    <2>3. Quiet' => file[task[t].doc] = IF task[t].op = "overwrite" THEN task[t].content ELSE sha[task[t].doc]
      BY <1>1, <1>2, <2>1 DEF JobOK, FileOK, Quiet, Without
    <2>4. /\ OnlyDocOf(t)
          /\ \A d \in {task[t].doc} :
               /\ Present(d)' <=> Present(d)
               /\ status'[d] # "none" /\ status'[d] \notin InProgress
               /\ Quiet' /\ Present(d)' => file'[d] = sha'[d]
               /\ Present(d)' => sha'[d] \in Contents
      BY <1>1, <1>3, <2>1, <2>3, Replaced DEF InProgress
    <2> QED BY <1>1, <2>1, <2>2, <2>4, LeaveKeeps
  <1>4. CASE ~(Present(task[t].doc) /\ ~ShaTaken(t))
    BY <1>1, <1>4, GivesUpKeeps DEF Replace
  <1> QED BY <1>3, <1>4

\* The switch took effect, and the job takes it for failed: not a quiet behaviour any more.
LEMMA UnansweredKeeps ==
    ASSUME IInv, QuietInv, NEW t \in Tasks, ReplaceUnanswered(t)
    PROVE  QuietInv'
  <1>1. /\ UNCHANGED <<file, moving, stuck>> /\ pc[t] = "replace" /\ happened \subseteq happened' /\ ~Quiet'
        /\ pc[t] \in SwitchSteps /\ pc[t] \in DocSteps /\ ReplaceChunks(t) /\ Present(task[t].doc)
        /\ SwitchFailed(t)
    BY DEF ReplaceUnanswered, Once, Quiet, Without, SwitchSteps, DocSteps, Steps, HandlerSteps
  <1>2. JobOK(t) /\ task[t].doc \in Docs /\ Holds(t)
    BY <1>1, Known DEF Holds
  <1>3. Turn(t)
    BY <1>1, Known DEF SwitchFailed, Leave, End, Goto, OnlyOf, Turn
  <1>4. /\ OnlyDocOf(t)
        /\ \A d \in {task[t].doc} :
             /\ Present(d)' <=> Present(d)
             /\ status[d] # "none" /\ status'[d] # "none" /\ status'[d] \notin InProgress
             /\ Present(d)' => sha'[d] \in Contents
    BY <1>1, <1>2, Replaced DEF InProgress, Present
  <1>5. CASE task[t].op = "overwrite"
    <2>1. pc'[t] = "restore" /\ UNCHANGED <<task, switching>>
      BY <1>1, <1>5, Known DEF SwitchFailed, Goto
    <2>2. switching = t
      BY <1>1, <1>2 DEF JobOK, LockOK
    <2>3. Switches(t)
      BY <1>1, <1>2, <1>4, <2>1, <2>2 DEF Switches
    <2>4. pc'[t] \notin Owning /\ pc'[t] \in SwitchSteps
          /\ pc'[t] \notin Early /\ pc'[t] \notin Late /\ pc'[t] # "fail"
      BY <2>1 DEF Owning, FreshSteps, SwitchSteps, Early, Late
    <2>5. JobOK(t)'
      <3>1. LockOK(t)'
        BY <1>5, <2>1, <2>2, <2>4 DEF LockOK
      <3>2. StatusOK(t)'
        BY <1>4, <2>1, <2>4 DEF StatusOK
      <3>3. FileOK(t)'
        BY <1>1 DEF FileOK
      <3> QED BY <3>1, <3>2, <3>3 DEF JobOK
    <2> QED BY <1>3, <1>4, <2>3, <2>4, <2>5, SwitchKeeps
  <1>6. CASE task[t].op # "overwrite"
    <2>1. Leave(t)
      BY <1>1, <1>6 DEF SwitchFailed
    <2> QED BY <1>1, <1>3, <1>4, <2>1, LeaveKeeps
  <1> QED BY <1>5, <1>6

\* The old file is put back; or a file operation fails.
LEMMA PutBackKeeps ==
    ASSUME IInv, QuietInv, NEW t \in Tasks, Restore(t) \/ RestoreFails(t) \/ InstallFails(t)
    PROVE  QuietInv'
  <1>1. /\ UNCHANGED <<row, moving, stuck>> /\ happened \subseteq happened' /\ Leave(t)
        /\ pc[t] \in {"heal", "shift", "install", "restore"}
        /\ ~Quiet' \/ (Restore(t) /\ UNCHANGED happened)
    BY DEF Restore, RestoreFails, InstallFails, Once, Quiet, Without, counters
  <1>2. pc[t] \in SwitchSteps /\ pc[t] \in DocSteps
    BY <1>1 DEF SwitchSteps, DocSteps, Steps, HandlerSteps
  <1>3. /\ JobOK(t) /\ task[t].doc \in Docs /\ Turn(t)
        /\ file \in [Docs -> Contents \union {None}]
    BY <1>1, <1>2, Known DEF Leave, End, Goto, OnlyOf, Turn, RunTypes
  <1>4. OnlyDocOf(t)
    <2>1. \A d \in Docs : d # task[t].doc => file'[d] = file[d]
      BY <1>3 DEF Restore, RestoreFails, InstallFails
    <2> QED BY <1>1, <2>1 DEF OnlyDocOf, row
  <1>5. Quiet' /\ Holds(t) => file'[task[t].doc] = sha[task[t].doc]
    <2>1. Quiet' => Restore(t) /\ Quiet
      BY <1>1, QuietGrows
    <2> QED BY <1>3, <2>1 DEF Restore, Restored, JobOK, FileOK
  <1>6. \A d \in {task[t].doc} :
             /\ Present(d)' <=> Present(d)
             /\ status'[d] = status[d]
             /\ Quiet' /\ Present(d)' => file'[d] = sha'[d]
             /\ Present(d)' => sha'[d] \in Contents
    BY <1>1, <1>3, <1>5 DEF row, Present, Holds, QuietInv, FiledOK
  <1> QED BY <1>1, <1>2, <1>3, <1>4, <1>6, LeaveKeeps

LEMMA SwitchStepKeeps ==
    ASSUME IInv, QuietInv, NEW t \in Tasks, ShadowStep(t)
    PROVE  QuietInv'
  BY ShadowKept, TakeLockKeeps, FileStepKeeps, ReplaceKeeps, PutBackKeeps DEF ShadowStep

(***************************************************************************)
(* Failures, and the move_doc beside a job                                 *)
(***************************************************************************)
LEMMA StatementFailsKeeps ==
    ASSUME IInv, QuietInv, NEW t \in Tasks, StatementFails(t)
    PROVE  QuietInv'
  <1>1. /\ UNCHANGED <<row, file, moving, stuck>> /\ happened \subseteq happened' /\ "pg" \in happened'
    BY DEF StatementFails, Once
  <1>2. /\ ~Without({"cancel", "pg", "crash"})' /\ ~Without({"crash", "reprocess", "pg"})'
    BY <1>1 DEF Without
  <1>3. CASE /\ pc[t] \in HandlerQueries \union {"fail", "read", "lock"}
             /\ End(t) /\ UNCHANGED switching
    <2>1. pc'[t] = "idle" /\ pc[t] # "idle" /\ pc[t] \notin SwitchSteps
      BY <1>3, Known DEF End, Goto, HandlerQueries, HandlerSteps, SwitchSteps
    <2>2. pc'[t] \notin Owning \union Shadowing
      BY <2>1 DEF Owning, FreshSteps, Shadowing, ShadowSteps, SwitchSteps
    <2>3. Turn(t)
      BY <1>1, <1>3, <2>1 DEF End, Goto, OnlyOf, Turn
    <2> QED BY <1>1, <1>2, <1>3, <2>1, <2>2, <2>3, DropKeeps
  <1>4. CASE pc[t] \in FreshQueries /\ Goto(t, "fail") /\ UNCHANGED <<task, switching>>
    <2>1. /\ pc'[t] = "fail" /\ pc[t] # "idle" /\ pc[t] \in FreshSteps /\ pc'[t] \in FreshSteps
          /\ pc'[t] \notin Early /\ pc'[t] \notin Late
      BY <1>4, Known DEF Goto, FreshQueries, FreshSteps, Early, Late
    <2>2. Turn(t)
      BY <1>1, <1>4, <2>1 DEF Goto, OnlyOf, Turn
    <2>3. \A d \in Docs : Calm(d)
      BY <1>1, SameIsCalm
    <2> QED BY <1>1, <1>2, <1>4, <2>1, <2>2, <2>3, OnwardKeeps DEF row
  <1>5. CASE pc[t] = "replace" /\ SwitchFailed(t)
    BY <1>1, <1>5, GivesUpKeeps
  <1> QED BY <1>3, <1>4, <1>5 DEF StatementFails

\* move_doc changes nothing that the file or the progress of a document depends on.
LEMMA MoveDocIsCalm ==
    ASSUME IInv, NEW d \in Docs, NEW f, MoveDoc(d, f), UNCHANGED file
    PROVE  \A e \in Docs : Calm(e)
  <1>1. status \in [Docs -> Statuses]
    BY DEF IInv, TypeOK
  <1>2. UNCHANGED sha
    BY DEF MoveDoc, row
  <1>3. \A e \in Docs : status'[e] = status[e] \/ (status[e] = "embedded" /\ status'[e] = "chunked")
    BY <1>1 DEF MoveDoc, MovedStatus, row
  <1> QED BY <1>2, <1>3 DEF Calm, Present, InProgress

\* The handler is done: the folder of the request is set, or not.
LEMMA MovingKeeps ==
    ASSUME IInv, QuietInv, NEW t \in Tasks, t \in moving, \A d \in Docs : Calm(d),
           moving' = moving \ {t}, UNCHANGED <<pc, switching, stuck>>, happened \subseteq happened',
           task' = IF pc[t] = "idle" THEN [task EXCEPT ![t] = NoTask] ELSE task
    PROVE  QuietInv'
  <1>1. t \in Slots
    BY Known
  <1>2. Turn(t)
    BY <1>1 DEF Turn, OnlyOf
  <1>3. CASE pc[t] = "idle"
    <2>1. pc'[t] \notin Owning \union Shadowing /\ pc[t] \notin SwitchSteps
      BY <1>3 DEF Owning, FreshSteps, Shadowing, ShadowSteps, SwitchSteps
    <2>2. switching # t
      BY <2>1, Known
    <2>3. JobOK(t)' /\ KeepsHand(t)
      BY <2>1, <2>2, AtEase DEF KeepsHand
    <2> QED BY <1>2, <2>2, <2>3, CalmKeeps
  <1>4. CASE pc[t] # "idle"
    <2>1. UNCHANGED task
      BY <1>4
    <2>2. LockStays /\ Untouched(t) /\ KeepsHand(t) /\ JobOK(t)
      BY <2>1, Known DEF LockStays, Untouched, KeepsHand
    <2>3. JobOK(t)'
      BY <2>2, CalmStays
    <2> QED BY <1>2, <2>1, <2>2, <2>3, CalmKeeps
  <1> QED BY <1>3, <1>4

LEMMA MoveKeeps ==
    ASSUME IInv, QuietInv, NEW t \in Tasks, Move(t) \/ MoveFails(t)
    PROVE  QuietInv'
  <1>1. /\ t \in moving /\ moving' = moving \ {t} /\ UNCHANGED <<file, pc, switching, stuck>>
        /\ happened \subseteq happened'
        /\ task' = IF pc[t] = "idle" THEN [task EXCEPT ![t] = NoTask] ELSE task
    BY DEF Move, MoveFails, Once, counters
  <1>2. task[t].doc \in Docs
    BY <1>1, Known DEF TaskOK
  <1>3. \A d \in Docs : Calm(d)
    BY <1>1, <1>2, SameIsCalm, MoveDocIsCalm DEF Move, MoveFails
  <1> QED BY <1>1, <1>3, MovingKeeps

\* The client disconnects.
LEMMA CancelKeeps ==
    ASSUME IInv, QuietInv, NEW t \in Tasks, Cancel(t)
    PROVE  QuietInv'
  <1>1. /\ UNCHANGED <<row, file, switching, stuck>> /\ happened \subseteq happened' /\ "cancel" \in happened'
    BY DEF Cancel, Once
  <1>2. ~Without({"cancel", "pg", "crash"})'
    BY <1>1 DEF Without
  <1>3. CASE pc[t] \in HandlerSteps /\ End(t) /\ UNCHANGED moving
    <2>1. pc'[t] = "idle" /\ pc[t] # "idle" /\ pc[t] \notin SwitchSteps
      BY <1>3, Known DEF End, Goto, HandlerSteps, SwitchSteps
    <2>2. pc'[t] \notin Owning \union Shadowing
      BY <2>1 DEF Owning, FreshSteps, Shadowing, ShadowSteps, SwitchSteps
    <2>3. Turn(t)
      BY <1>1, <1>3, <2>1 DEF End, Goto, OnlyOf, Turn
    <2> QED BY <1>1, <1>2, <2>1, <2>2, <2>3, DropKeeps
  <1>4. CASE /\ t \in moving /\ moving' = moving \ {t} /\ UNCHANGED pc
             /\ task' = IF pc[t] = "idle" THEN [task EXCEPT ![t] = NoTask] ELSE task
    <2>1. \A d \in Docs : Calm(d)
      BY <1>1, SameIsCalm
    <2> QED BY <1>1, <1>4, <2>1, MovingKeeps
  <1> QED BY <1>3, <1>4 DEF Cancel

LEMMA EveryFailureKeeps ==
    ASSUME IInv, QuietInv, NEW t \in Tasks, Failure(t)
    PROVE  QuietInv'
  BY IngestEndKeeps, CancelKeeps, IndexKeeps, CountKeeps, ShadowKept, PutBackKeeps, UnansweredKeeps,
     StatementFailsKeeps, MoveKeeps DEF Failure

(***************************************************************************)
(* Requests                                                                *)
(***************************************************************************)
LEMMA StartKeeps ==
    ASSUME IInv, QuietInv, NEW t \in Slots, NEW c, NEW f, StartUpload(t, c, f)
    PROVE  QuietInv'
  <1>1. /\ UNCHANGED <<row, file, switching, stuck, happened, moving>> /\ t \in Tasks
        /\ pc[t] = "idle" /\ pc'[t] = "bySha" /\ OnlyOf(t)
    BY DEF StartUpload, Idle, Goto, OnlyOf, Tasks, IInv, TypeOK
  <1>2. pc[t] \notin Owning \union SwitchSteps /\ pc'[t] \notin Owning \union Shadowing
    BY <1>1 DEF Owning, FreshSteps, Shadowing, ShadowSteps, SwitchSteps
  <1>3. Turn(t)
    BY <1>1 DEF Turn
  <1> QED BY <1>1, <1>2, <1>3, IdleKeeps

\* A reprocess request is looked at with no regard to the status: not quiet any more.
LEMMA ReprocessKeeps ==
    ASSUME IInv, QuietInv, NEW t \in Slots, NEW d \in Docs, Reprocess(t, d)
    PROVE  QuietInv'
  <1>1. /\ UNCHANGED <<row, file, switching, stuck, moving>> /\ t \in Tasks
        /\ happened \subseteq happened' /\ "reprocess" \in happened'
        /\ pc[t] = "idle" /\ pc'[t] = "read" /\ OnlyOf(t)
    BY DEF Reprocess, Idle, Goto, OnlyOf, Tasks, IInv, TypeOK, Once
  <1>2. /\ pc[t] \notin Owning \union SwitchSteps /\ pc'[t] \in ShadowSteps
    BY <1>1 DEF Owning, FreshSteps, ShadowSteps, SwitchSteps
  <1>3. Turn(t)
    BY <1>1 DEF Turn
  <1>4. ~Without({"crash", "reprocess"})'
    BY <1>1 DEF Without
  <1> QED BY <1>1, <1>2, <1>3, <1>4, PrepareKeeps

(***************************************************************************)
(* The back-fill, restart and recovery, and the users                      *)
(***************************************************************************)
LEMMA FillCalm ==
    ASSUME IInv, QuietInv, FillStep \/ FillFails
    PROVE  QuietInv'
  <1>1. /\ UNCHANGED <<sha, folder, file, pc, task, switching, stuck>> /\ happened \subseteq happened'
        /\ UNCHANGED row \/ FillFlip
    BY DEF FillStep, FillRead, FillWrite, FillFlip, FillFails, Once, counters, row
  <1>2. \A d \in Docs : Calm(d)
    <2>1. CASE UNCHANGED row
      BY <1>1, <2>1, SameIsCalm
    <2>2. CASE FillFlip
      <3>1. \A d \in Docs : status'[d] = status[d] \/ (status[d] = "chunked" /\ status'[d] = "embedded")
        BY <2>2 DEF FillFlip, Ready
      <3> QED BY <1>1, <3>1 DEF Calm, Present, InProgress
    <2> QED BY <1>1, <2>1, <2>2
  <1> QED BY <1>1, <1>2, CalmRest

LEMMA UsersCalm ==
    ASSUME IInv, QuietInv, NEW d \in Docs, UserDeletes(d) \/ \E f \in Folders : UserMoves(d, f)
    PROVE  QuietInv'
  <1>1. UNCHANGED <<pc, task, switching, stuck>> /\ happened \subseteq happened'
    BY DEF UserDeletes, UserMoves, Once
  <1>2. \A e \in Docs : Calm(e)
    <2>1. CASE UserDeletes(d)
      <3>1. status \in [Docs -> Statuses] /\ sha \in [Docs -> Contents \union {None}]
            /\ file \in [Docs -> Contents \union {None}]
        BY DEF IInv, TypeOK
      <3>2. \A e \in Docs : IF e = d THEN status'[e] = "deleted"
                            ELSE status'[e] = status[e] /\ sha'[e] = sha[e] /\ file'[e] = file[e]
        BY <2>1, <3>1 DEF UserDeletes
      <3> QED BY <3>2 DEF Calm, Present
    <2>2. CASE \E f \in Folders : UserMoves(d, f)
      BY <2>2, MoveDocIsCalm DEF UserMoves
    <2> QED BY <2>1, <2>2
  <1> QED BY <1>1, <1>2, CalmRest

\* After a restart only the lock and the rows are of interest.
LEMMA AfterCrash ==
    ASSUME ~Without({"crash"})', \A t \in Tasks : LockOK(t)',
           \A d \in Docs : /\ status'[d] = "none" => file'[d] = None
                           /\ Present(d)' => sha'[d] \in Contents
    PROVE  QuietInv'
  <1>1. /\ ~Without({"crash", "reprocess"})' /\ ~Without({"crash", "reprocess", "pg"})'
        /\ ~Quiet' /\ ~Without({"cancel", "pg", "crash"})'
    BY DEF Without, Quiet
  <1>2. \A t \in Tasks : JobOK(t)'
    BY <1>1 DEF JobOK, StatusOK, FileOK
  <1> QED BY <1>1, <1>2 DEF QuietInv, NoRecovery, OneHand, FiledOK, InProgressIsInHandQuietly

LEMMA CrashKeeps ==
    ASSUME IInv, QuietInv, Crash
    PROVE  QuietInv'
  <1>1. ~Without({"crash"})'
    BY DEF Crash, Once, Without
  <1>2. ASSUME NEW t \in Tasks PROVE LockOK(t)'
    BY Known DEF Crash, LockOK, SwitchSteps
  <1>3. \A d \in Docs : /\ status'[d] = "none" => file'[d] = None
                        /\ Present(d)' => sha'[d] \in Contents
    BY DEF Crash, row, Present, QuietInv, FiledOK
  <1> QED BY <1>1, <1>2, <1>3, AfterCrash

LEMMA RecoverKeeps ==
    ASSUME IInv, QuietInv, Recover
    PROVE  QuietInv'
  <1>1. /\ UNCHANGED <<file, switching, happened>> /\ pc[Recovery] = "idle" /\ stuck # {}
        /\ Recovery \in Tasks /\ pc \in [Tasks -> Steps]
    BY DEF Recover, Idle, counters, Tasks, IInv, TypeOK
  <1>2. ~Without({"crash"})'
    BY <1>1 DEF QuietInv, NoRecovery, Without
  <1>3. pc' = pc \/ \E step \in {"read", "begin"} : pc' = [pc EXCEPT ![Recovery] = step]
    BY DEF Recover, Goto
  <1>4. \A t \in Tasks \ {Recovery} : pc'[t] = pc[t] /\ task'[t] = task[t]
    BY DEF Recover, Goto, IInv, TypeOK
  <1>5. pc'[Recovery] \in {"idle", "read", "begin"}
    BY <1>1, <1>3
  <1>6. ASSUME NEW t \in Tasks PROVE LockOK(t)'
    <2>1. CASE t = Recovery
      <3>1. switching # Recovery
        BY <1>1, Known DEF SwitchSteps
      <3> QED BY <1>1, <1>5, <2>1, <3>1 DEF LockOK, SwitchSteps
    <2>2. CASE t # Recovery
      BY <1>1, <1>4, <2>2 DEF QuietInv, JobOK, LockOK
    <2> QED BY <2>1, <2>2
  <1>7. \A d \in Docs : /\ status'[d] = "none" => file'[d] = None
                        /\ Present(d)' => sha'[d] \in Contents
    <2>1. /\ UNCHANGED sha
          /\ \A d \in Docs : status'[d] = status[d] \/ (Present(d) /\ status'[d] = "failed")
      BY DEF Recover, SetFailed, SetStatus, row, IInv, TypeOK
    <2> QED BY <1>1, <2>1 DEF QuietInv, FiledOK, Present
  <1> QED BY <1>2, <1>6, <1>7, AfterCrash

LEMMA RecoverFailsKeeps ==
    ASSUME IInv, QuietInv, RecoverFails
    PROVE  QuietInv'
  <1>1. UNCHANGED <<row, file, pc, task, switching>> /\ happened \subseteq happened' /\ stuck' \subseteq stuck
    BY DEF RecoverFails, Once
  <1> QED BY <1>1, SameIsCalm, CalmRest

(***************************************************************************)
(* The theorems                                                            *)
(***************************************************************************)
LEMMA QuietAtStart == Init => QuietInv
  <1> SUFFICES ASSUME Init PROVE QuietInv
    OBVIOUS
  <1>1. ASSUME NEW t \in Tasks PROVE JobOK(t)
    <2>1. pc[t] = "idle" /\ switching = None /\ t # None
      BY TasksAssumption DEF Init, Tasks
    <2>2. /\ pc[t] \notin SwitchSteps /\ pc[t] \notin Early /\ pc[t] \notin Late
          /\ pc[t] \notin Shadowing /\ pc[t] # "fail" /\ pc[t] \notin FreshSteps
          /\ pc[t] \notin {"heal", "shift", "install", "replace", "restore"}
      BY <2>1 DEF SwitchSteps, Early, Late, Shadowing, ShadowSteps, FreshSteps
    <2> QED BY <2>1, <2>2 DEF JobOK, LockOK, StatusOK, FileOK
  <1>2. NoRecovery
    BY DEF Init, NoRecovery, Tasks
  <1>3. OneHand
    BY DEF Init, OneHand, Owning, FreshSteps
  <1>4. FiledOK
    BY DEF Init, FiledOK, Present
  <1>5. InProgressIsInHandQuietly
    BY DEF Init, InProgressIsInHandQuietly, InProgressIsInHand, InProgress
  <1> QED BY <1>1, <1>2, <1>3, <1>4, <1>5 DEF QuietInv

LEMMA QuietStep ==
    ASSUME IInv, QuietInv, [Next]_vars
    PROVE  QuietInv'
  <1>1. CASE UNCHANGED vars
    <2>1. /\ UNCHANGED <<row, file, pc, task, switching, stuck, happened>>
      BY <1>1 DEF vars, counters
    <2> QED BY <2>1, SameIsCalm, CalmRest
  <1>2. CASE Next
    <2>1. ASSUME NEW t \in Slots, Request(t) \/ Move(t) PROVE QuietInv'
      BY <2>1, StartKeeps, ReprocessKeeps, MoveKeeps DEF Request, Tasks
    <2>2. ASSUME NEW t \in Tasks, Step(t) \/ Failure(t) PROVE QuietInv'
      BY <2>2, FirstIngestKeeps, SwitchStepKeeps, EveryFailureKeeps DEF Step
    <2>3. CASE FillStep \/ FillFails
      BY <2>3, FillCalm
    <2>4. CASE Crash \/ Recover \/ RecoverFails
      BY <2>4, CrashKeeps, RecoverKeeps, RecoverFailsKeeps
    <2>5. CASE \E d \in Docs : UserDeletes(d) \/ \E f \in Folders : UserMoves(d, f)
      BY <2>5, UsersCalm
    <2> QED BY <1>2, <2>1, <2>2, <2>3, <2>4, <2>5 DEF Next
  <1> QED BY <1>1, <1>2

\* What is known of the rows, the files and the jobs is so in every state.
THEOREM QuietInductive == Spec => []QuietInv
  <1>1. IInv /\ QuietInv /\ [Next]_vars => QuietInv'
    BY QuietStep
  <1> QED BY <1>1, QuietAtStart, Always, PTL DEF Spec

\* Outside the switch the file of every document is the one its row names, and may be
\* missing while its first ingest runs, as long as there was no restart, lost answer,
\* failing file operation or reprocess request: store, save, install_staged_file,
\* replace_chunks and restore_live_file, under FILE_SWITCH_LOCK and beside it.
THEOREM FileAndRowAgree == Spec => []FileFollowsShaQuietly
  <1>1. QuietInv => FileFollowsShaQuietly
    BY DEF QuietInv, FiledOK, FileFollowsShaQuietly, FileFollowsSha, Quiet, Switched
  <1> QED BY <1>1, QuietInductive, PTL

\* A document shown as pending or parsing has a task that will bring it on, as long as no
\* client left, no statement failed and the process did not restart.
THEOREM SomebodyHasIt == Spec => []InProgressIsInHandQuietly
  <1>1. QuietInv => InProgressIsInHandQuietly
    BY DEF QuietInv
  <1> QED BY <1>1, QuietInductive, PTL

\* Only five statements take a status to one that is not online; none of them is for a
\* document that is.
LEMMA OnlineStep ==
    ASSUME IInv, QuietInv, [Next]_vars, Without({"pg", "crash", "reprocess"})',
           NEW d \in Docs, status[d] = "embedded"
    PROVE  status'[d] \in {"embedded", "chunked", "deleted"}
  <1>a. status \in [Docs -> Statuses]
    BY DEF IInv, TypeOK
  <1>b. status[d] \notin InProgress
    BY DEF InProgress
  <1>1. CASE UNCHANGED row
    BY <1>1 DEF row
  <1>2. ASSUME NEW t \in Tasks, pc[t] \in Early \union {"fail"}, task[t].doc = d, happened \subseteq happened'
        PROVE  FALSE
    <2>1. Without({"crash", "reprocess", "pg"}) /\ Without({"crash", "reprocess"})
      BY <1>2 DEF Without
    <2>2. Holds(t) /\ JobOK(t)
      BY <1>2, Known DEF Holds, Present
    <2> QED BY <1>2, <1>b, <2>1, <2>2 DEF JobOK, StatusOK
  <1>3. ASSUME NEW t \in Tasks, Accept(t) \/ Begin(t) \/ StoreFails(t) \/ Fail(t)
        PROVE  status'[d] = "embedded"
    <2>1. pc[t] \in Early \union {"fail"} /\ happened \subseteq happened'
      BY <1>3 DEF Accept, Begin, StoreFails, Fail, Early, Once, counters
    <2>2. task[t].doc # d
      BY <1>2, <2>1
    <2> QED BY <1>3, <1>a, <2>2 DEF Accept, Begin, StoreFails, Fail, SetFailed, SetStatus, row
  <1>4. ASSUME NEW t \in Tasks, InsertDoc(t) \/ Count(t) \/ EmbedUnavailable(t) \/ Promote(t)
        PROVE  status'[d] \in {"embedded", "chunked"}
    BY <1>4, <1>a DEF InsertDoc, Count, EmbedUnavailable, Promote, SetStatus, row
  <1>5. ASSUME NEW t \in Tasks, Replace(t) \/ ReplaceUnanswered(t)
        PROVE  status'[d] \in {"embedded", "chunked"}
    BY <1>5, <1>a DEF Replace, ReplaceUnanswered, ReplaceChunks, ReplacedStatus, row
  <1>6. ASSUME NEW e, NEW f, MoveDoc(e, f)
        PROVE  status'[d] \in {"embedded", "chunked"}
    BY <1>6, <1>a DEF MoveDoc, MovedStatus, row
  <1>7. CASE FillFlip
    BY <1>7 DEF FillFlip
  <1>8. ASSUME NEW e \in Docs, UserDeletes(e)
        PROVE  status'[d] \in {"embedded", "deleted"}
    BY <1>8, <1>a DEF UserDeletes
  <1>9. ~Recover /\ ~Crash
    <2>1. Crash => ~Without({"pg", "crash", "reprocess"})'
      BY DEF Crash, Once, Without
    <2>2. Recover => stuck # {} /\ UNCHANGED happened
      BY DEF Recover, counters
    <2>3. stuck # {} => ~Without({"crash"})
      BY DEF QuietInv, NoRecovery
    <2> QED BY <2>1, <2>2, <2>3 DEF Without
  <1>10. CASE Next
    <2>1. ASSUME NEW t \in Tasks, Step(t) PROVE status'[d] \in {"embedded", "chunked"}
      <3>1. UNCHANGED row \/ Accept(t) \/ Begin(t) \/ Fail(t) \/ InsertDoc(t) \/ Count(t) \/ Promote(t) \/ Replace(t)
        BY <2>1 DEF Step, HandlerStep, FreshStep, ShadowStep, FindBySha, FindByName, Store, Dedup, Replaceable,
           Save, Parse, InsertChunks, ReadTexts, Embed, Publish, ReadRow, BuildShadow, TakeLock, RestoreMissing,
           Shift, Install, Restore
      <3> QED BY <1>1, <1>3, <1>4, <1>5, <3>1 DEF row
    <2>2. ASSUME NEW t \in Tasks, Failure(t) PROVE status'[d] \in {"embedded", "chunked"}
      <3>1. UNCHANGED row \/ StoreFails(t) \/ EmbedUnavailable(t) \/ ReplaceUnanswered(t)
        BY <2>2 DEF Failure, Cancel, RunFails, ShadowFails, InstallFails, RestoreFails, StatementFails, MoveFails
      <3> QED BY <1>1, <1>3, <1>4, <1>5, <3>1 DEF row
    <2>3. ASSUME NEW t \in Slots, Request(t) \/ Move(t) PROVE status'[d] \in {"embedded", "chunked"}
      <3>1. UNCHANGED row \/ MoveDoc(task[t].doc, task[t].place)
        BY <2>3 DEF Request, StartUpload, Reprocess, Move
      <3> QED BY <1>6, <3>1 DEF row
    <2>4. CASE FillStep \/ FillFails
      <3>1. UNCHANGED row \/ FillFlip
        BY <2>4 DEF FillStep, FillRead, FillWrite, FillFails
      <3> QED BY <1>1, <1>7, <3>1
    <2>5. CASE RecoverFails
      BY <2>5, <1>1 DEF RecoverFails
    <2>6. CASE \E e \in Docs : UserDeletes(e) \/ \E f \in Folders : UserMoves(e, f)
      BY <2>6, <1>6, <1>8 DEF UserMoves
    <2> QED BY <1>9, <1>10, <2>1, <2>2, <2>3, <2>4, <2>5, <2>6 DEF Next
  <1>11. CASE UNCHANGED vars
    BY <1>11, <1>1 DEF vars
  <1> QED BY <1>10, <1>11

\* A version that is online stays searchable until it is replaced or deleted, as long as
\* no statement failed, and no restart or reprocess request came in between: the failure
\* paths of run_job and store never write into the row of a document that is served.
THEOREM OnlineIsKept == Spec => OnlineStays
  <1>1. IInv /\ QuietInv /\ [Next]_vars =>
          [Without({"pg", "crash", "reprocess"})' =>
             \A d \in Docs : status[d] = "embedded" => status'[d] \in {"embedded", "chunked", "deleted"}]_vars
    BY OnlineStep
  <1> QED BY <1>1, QuietInductive, Always, PTL DEF Spec, OnlineStays

\* FILE_SWITCH_LOCK does what it is for, in every interleaving and through every failure,
\* lost answer and restart: no two jobs are between install_staged_file and
\* restore_live_file, and the lock is never left with a task that is not.
OneSwitchAtATime ==
    /\ \A t, u \in Tasks : pc[t] \in SwitchSteps /\ pc[u] \in SwitchSteps => t = u
    /\ switching # None => pc[switching] \in SwitchSteps

\* Two switches are never at work, and nobody waits for a lock that no switch has.
THEOREM SwitchesAreSerial == Spec => []OneSwitchAtATime
  <1>1. ASSUME IInv, QuietInv PROVE OneSwitchAtATime
    <2>1. \A t \in Tasks : pc[t] \in SwitchSteps <=> switching = t
      BY <1>1 DEF QuietInv, JobOK, LockOK
    <2>2. switching \in Tasks \union {None}
      BY <1>1 DEF IInv, TypeOK
    <2> QED BY <2>1, <2>2 DEF OneSwitchAtATime
  <1> QED BY <1>1, QuietInductive, Always, PTL

\* The steps of the first ingest of a document, from its job to its end.
FirstIngest(t, d) == task[t].doc = d /\ pc[t] \in FreshSteps

\* No document has two first ingests at once (run writes its file and its chunks without a
\* lock), as long as the process did not restart.
IngestedOnce ==
    Without({"crash"}) =>
      \A d \in Docs : \A t, u \in Tasks : FirstIngest(t, d) /\ FirstIngest(u, d) => t = u

\* What insert_doc and overwrite_action together exclude: a second first ingest of a row.
THEOREM OneFirstIngest == Spec => []IngestedOnce
  <1>1. QuietInv => IngestedOnce
    BY DEF QuietInv, OneHand, IngestedOnce, FirstIngest, Owning
  <1> QED BY <1>1, QuietInductive, PTL

=============================================================================
