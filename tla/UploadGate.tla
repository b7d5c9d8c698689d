----------------------------- MODULE UploadGate -----------------------------
(***************************************************************************)
(* The gate in front of document ingestion (crates/server/src/kb_api.rs).  *)
(*                                                                         *)
(* An upload, a reprocess or a URL import takes a permit of UPLOAD_GATE    *)
(* before it has a file in memory.  upload_permit waits for one in a       *)
(* bounded queue, whose length is the counter UPLOAD_WAITING, for a        *)
(* bounded time.  The permit moves with the file into a background job and *)
(* is dropped when that job ends; the handler keeps a copy of the file     *)
(* until it has answered.  After a restart the recovery task redoes the    *)
(* documents left half way, one by one, under the same gate but without    *)
(* the counter and the time limit, and it reads a document first.          *)
(*                                                                         *)
(* A handler is a future: it may be dropped at an await, not between two.  *)
(* An action is the code between two accesses of the gate or the counter.  *)
(***************************************************************************)
EXTENDS Integers, Sequences, FiniteSets

CONSTANTS
    Uploads,    \* the handlers that take a permit
    Recovery,   \* the recovery task
    Permits,    \* UPLOAD_PERMITS
    QueueMax,   \* UPLOAD_QUEUE_MAX
    MaxStuck,   \* the most documents the recovery task finds
    MaxLost     \* how many handlers are dropped while they wait

ASSUME UploadsAssumption == IsFiniteSet(Uploads) /\ Recovery \notin Uploads
ASSUME PermitsAssumption == Permits \in Nat \ {0} /\ QueueMax \in Nat
ASSUME BoundsAssumption == MaxStuck \in Nat /\ MaxLost \in Nat

Tasks == Uploads \union {Recovery}

VARIABLES
    permits,    \* the permits nobody has
    queue,      \* the tasks waiting in the semaphore, first come first
    granted,    \* the tasks that were handed a permit and do not know yet
    waiting,    \* UPLOAD_WAITING
    pc,         \* what each task does next
    jobs,       \* the background jobs, each with its permit
    stuck,      \* the documents the recovery task has yet to do
    lost        \* the handlers dropped while they waited

gate == <<permits, queue, granted>>
vars == <<gate, waiting, pc, jobs, stuck, lost>>

Steps == {"idle", "count", "full", "enqueue", "wait", "uncount", "timedout", "hold",
          "answer", "read"}

Init ==
    /\ permits = Permits
    /\ queue = <<>>
    /\ granted = {}
    /\ waiting = 0
    /\ pc = [q \in Tasks |-> "idle"]
    /\ jobs = 0
    /\ stuck \in 0 .. MaxStuck
    /\ lost = 0

Goto(q, step) == pc' = [pc EXCEPT ![q] = step]

(***************************************************************************)
(* The semaphore                                                           *)
(***************************************************************************)
\* Mutant: the last task in is the first one out.
PassOn_Last(others) ==
    IF queue = <<>>
    THEN permits' = permits + 1 /\ granted' = others /\ UNCHANGED queue
    ELSE /\ granted' = others \union {queue[Len(queue)]}
         /\ queue' = SubSeq(queue, 1, Len(queue) - 1)
         /\ UNCHANGED permits

\* A permit is dropped: the first waiter has it at once.
PassOn(others) ==
    IF queue = <<>>
    THEN permits' = permits + 1 /\ granted' = others /\ UNCHANGED queue
    ELSE /\ granted' = others \union {Head(queue)}
         /\ queue' = Tail(queue)
         /\ UNCHANGED permits

Release == PassOn(granted)

\* The first poll of acquire: a permit, or a place in the queue.
Acquire(q, step) ==
    /\ IF permits > 0
       THEN permits' = permits - 1 /\ Goto(q, step) /\ UNCHANGED queue
       ELSE queue' = Append(queue, q) /\ Goto(q, "wait") /\ UNCHANGED permits
    /\ UNCHANGED granted

\* The future that waits is dropped; a permit it was handed goes to the next.
Abandon(q) ==
    \/ q \in granted /\ PassOn(granted \ {q})
    \/ \E i \in DOMAIN queue :
          /\ queue[i] = q
          /\ queue' = SubSeq(queue, 1, i - 1) \o SubSeq(queue, i + 1, Len(queue))
          /\ UNCHANGED <<permits, granted>>

(***************************************************************************)
(* upload_permit                                                           *)
(***************************************************************************)
\* What a request does that got its permit without waiting.
Fast == "hold"

\* try_acquire.
Arrive(q) ==
    /\ pc[q] = "idle"
    /\ IF permits > 0
       THEN permits' = permits - 1 /\ Goto(q, Fast)
       ELSE Goto(q, "count") /\ UNCHANGED permits
    /\ UNCHANGED <<queue, granted, waiting, jobs, stuck, lost>>

\* Mutant: one place too many.
QueueFull_OffByOne == waiting > QueueMax

QueueFull == waiting >= QueueMax

\* fetch_add, and the judgement on the value before.
Count(q) ==
    /\ pc[q] = "count"
    /\ waiting' = waiting + 1
    /\ Goto(q, IF QueueFull THEN "full" ELSE "enqueue")
    /\ UNCHANGED <<gate, jobs, stuck, lost>>

\* The queue is full: 429.
Refuse(q) ==
    /\ pc[q] = "full"
    /\ waiting' = waiting - 1
    /\ Goto(q, "idle")
    /\ UNCHANGED <<gate, jobs, stuck, lost>>

Enqueue(q) ==
    /\ pc[q] = "enqueue"
    /\ Acquire(q, "uncount")
    /\ UNCHANGED <<waiting, jobs, stuck, lost>>

\* The task is polled and finds the permit it was handed.
Wake(q) ==
    /\ pc[q] = "wait"
    /\ q \in granted
    /\ granted' = granted \ {q}
    /\ Goto(q, IF q = Recovery THEN "hold" ELSE "uncount")
    /\ UNCHANGED <<permits, queue, waiting, jobs, stuck, lost>>

\* UPLOAD_QUEUE_WAIT is over; a permit may arrive at the same moment.
TimeOut(q) ==
    /\ pc[q] = "wait"
    /\ Abandon(q)
    /\ Goto(q, "timedout")
    /\ UNCHANGED <<waiting, jobs, stuck, lost>>

\* Mutant: the error is returned before the counter is given back.
Uncount_Early(q) ==
    /\ pc[q] \in {"uncount", "timedout"}
    /\ waiting' = IF pc[q] = "uncount" THEN waiting - 1 ELSE waiting
    /\ Goto(q, IF pc[q] = "uncount" THEN "hold" ELSE "idle")
    /\ UNCHANGED <<gate, jobs, stuck, lost>>

\* fetch_sub after the wait, then the permit or 429.
Uncount(q) ==
    /\ pc[q] \in {"uncount", "timedout"}
    /\ waiting' = waiting - 1
    /\ Goto(q, IF pc[q] = "uncount" THEN "hold" ELSE "idle")
    /\ UNCHANGED <<gate, jobs, stuck, lost>>

(***************************************************************************)
(* The handlers                                                            *)
(***************************************************************************)
\* Mutant: the permit stays with the request, which returns.
Spawn_WithoutPermit(q) ==
    /\ pc[q] = "hold"
    /\ jobs' = jobs + 1
    /\ \E step \in {"answer", "idle"} : Goto(q, step)
    /\ Release
    /\ UNCHANGED <<waiting, stuck, lost>>

\* spawn_ingest_job: the permit moves into the job, with the file (reprocess) or a
\* copy of it; then the handler has some more to do before it answers.
Spawn(q) ==
    /\ pc[q] = "hold"
    /\ jobs' = jobs + 1
    /\ \E step \in {"answer", "idle"} : Goto(q, step)
    /\ UNCHANGED <<gate, waiting, stuck, lost>>

\* The handler that has started a job answers, or its client disconnects.
Reply(q) ==
    /\ pc[q] = "answer"
    /\ Goto(q, "idle")
    /\ UNCHANGED <<gate, waiting, jobs, stuck, lost>>

\* The handler ends without a job: an error, a document that is there already,
\* or a client that disconnects.
Finish(q) ==
    /\ pc[q] = "hold"
    /\ Release
    /\ Goto(q, "idle")
    /\ UNCHANGED <<waiting, jobs, stuck, lost>>

\* The client disconnects while upload_permit waits: nothing gives the counter back.
Cancel(q) ==
    /\ pc[q] = "wait"
    /\ lost < MaxLost
    /\ lost' = lost + 1
    /\ Abandon(q)
    /\ Goto(q, "idle")
    /\ UNCHANGED <<waiting, jobs, stuck>>

JobEnds ==
    /\ jobs > 0
    /\ jobs' = jobs - 1
    /\ Release
    /\ UNCHANGED <<waiting, pc, stuck, lost>>

(***************************************************************************)
(* recover_pending                                                         *)
(***************************************************************************)
\* recover_one reads the whole file, before it asks for a permit.
RecoverRead ==
    /\ pc[Recovery] = "idle"
    /\ stuck > 0
    /\ Goto(Recovery, "read")
    /\ UNCHANGED <<gate, waiting, jobs, stuck, lost>>

\* A document whose file is gone or unreadable, or once read no longer accepted.
RecoverSkip ==
    /\ pc[Recovery] \in {"idle", "read"}
    /\ stuck > 0
    /\ stuck' = stuck - 1
    /\ Goto(Recovery, "idle")
    /\ UNCHANGED <<gate, waiting, jobs, lost>>

RecoverAcquire ==
    /\ pc[Recovery] = "read"
    /\ Acquire(Recovery, "hold")
    /\ UNCHANGED <<waiting, jobs, stuck, lost>>

RecoverEnds ==
    /\ pc[Recovery] = "hold"
    /\ stuck' = stuck - 1
    /\ Release
    /\ Goto(Recovery, "idle")
    /\ UNCHANGED <<waiting, jobs, lost>>

RecoverStep ==
    RecoverRead \/ RecoverSkip \/ RecoverAcquire \/ Wake(Recovery) \/ RecoverEnds

\* What a handler does next, once it has a place in the queue or a permit.
Step(q) ==
    \/ Count(q) \/ Refuse(q) \/ Enqueue(q) \/ Wake(q) \/ Uncount(q)
    \/ Spawn(q) \/ Reply(q) \/ Finish(q)

Next ==
    \/ \E q \in Uploads : Arrive(q) \/ Step(q) \/ TimeOut(q) \/ Cancel(q)
    \/ JobEnds
    \/ RecoverStep

Spec == Init /\ [][Next]_vars

(***************************************************************************)
(* Futures that can go on are polled, and a job ends: its calls to the     *)
(* parser, the model and the database all have time limits.  Nothing is    *)
(* assumed of new requests, of the waiting timer or of clients.            *)
(***************************************************************************)
Fairness ==
    /\ \A q \in Uploads : WF_vars(Step(q))
    /\ WF_vars(JobEnds)
    /\ WF_vars(RecoverStep)

FairSpec == Spec /\ Fairness

(***************************************************************************)
(* Properties                                                              *)
(***************************************************************************)
\* The values the variables take; the counter, a usize, never wraps below zero.
TypeOK ==
    /\ permits \in 0 .. Permits
    /\ queue \in Seq(Tasks)
    /\ granted \in SUBSET Tasks
    /\ waiting \in Nat
    /\ pc \in [Tasks -> Steps]
    /\ pc[Recovery] \in {"idle", "read", "wait", "hold"}
    /\ jobs \in Nat
    /\ stuck \in 0 .. MaxStuck
    /\ pc[Recovery] # "idle" => stuck > 0
    /\ lost \in 0 .. MaxLost

\* The handlers between fetch_add and fetch_sub, and those of them that were
\* given a place in the queue.
Counted == {q \in Uploads : pc[q] \in {"full", "enqueue", "wait", "uncount", "timedout"}}
Admitted == {q \in Counted : pc[q] # "full"}

\* The tasks with a permit.
Holding == {q \in Tasks : pc[q] \in {"uncount", "hold"}}

\* The handlers that keep a copy of what they gave to their job, and all the tasks with
\* a file in memory, or about to have one: recovery from its read on.
Answering == {q \in Uploads : pc[q] = "answer"}
InMemory ==
    {q \in Tasks : pc[q] \in {"hold", "answer"} \/ (q = Recovery /\ pc[q] # "idle")}

\* No permit is lost or doubled when it is handed over, when the waiter it is
\* handed to leaves at that moment, or when it moves from a handler to a job.
Conserved == permits + Cardinality(granted) + Cardinality(Holding) + jobs = Permits

\* kb_api.rs:113, what the gate does for memory: the files beyond UPLOAD_PERMITS, those
\* of background jobs included, are the copies of handlers that have only to answer and
\* at most one document of recovery's.
MemoryBounded == Cardinality(InMemory) + jobs <= Permits + 1 + Cardinality(Answering)

\* kb_api.rs:542 and 588, the claim that recovery is under the same memory gate as the
\* uploads: its file and those to be ingested by requests are no more than UPLOAD_PERMITS.
RecoveryUnderGate == Cardinality(InMemory \ Answering) + jobs <= Permits

\* kb_api.rs:114, the queue is never longer than UPLOAD_QUEUE_MAX.
QueueBounded == Cardinality(Admitted) <= QueueMax

\* kb_api.rs:113-114, both limits together: neither a background job nor recovery nor
\* the three steps of counting lets either be exceeded further.
WithinLimits == MemoryBounded /\ QueueBounded

\* UPLOAD_WAITING is the number of handlers in upload_permit's waiting part, plus
\* one for every handler that was dropped there.
CountedExactly == waiting = Cardinality(Counted) + lost

\* A task in the semaphore's queue is waiting and has no permit, it is there once,
\* and while there is one no permit is free.
QueueWellFormed ==
    /\ \A i, j \in DOMAIN queue : queue[i] = queue[j] => i = j
    /\ \A i \in DOMAIN queue : pc[queue[i]] = "wait" /\ queue[i] \notin granted
    /\ \A q \in granted : pc[q] = "wait"
    /\ \A q \in Tasks : pc[q] = "wait" => q \in granted \/ \E i \in DOMAIN queue : queue[i] = q
    /\ queue # <<>> => permits = 0

IInv == TypeOK /\ Conserved /\ QueueBounded /\ CountedExactly /\ QueueWellFormed

\* Whoever waits stops waiting without the help of the timer, however many
\* requests keep arriving; this is also how recovery, which has no timer, goes on.
WaitersServed == \A q \in Tasks : pc[q] = "wait" ~> pc[q] # "wait"

\* kb_api.rs:134, a request that is refused is refused because the queue is
\* really full: as many handlers are inside upload_permit's waiting part.
RefusedMeansOverload ==
    [][\A q \in Uploads :
          pc[q] = "count" /\ pc'[q] = "full" => Cardinality(Counted) >= QueueMax]_vars
=============================================================================
