# dms-ai: what is modelled, checked and proved

dms-ai answers questions about business data and documents. A Rust server
(`src/crates/server`) routes each question to SQL generation over MySQL or Doris
(`agent`, `semantic`, `kernel`, `connector`, `policy`), to a knowledge base of
uploaded documents (`knowledge`), or to a long report made of many sections
(`server/src/deep_api.rs`). Its own state lives in PostgreSQL and in a few
process-wide maps, sets, counters and semaphores.

These TLA+ modules model the parts of it where several handlers, a crash or a
failed statement can meet in an order no test tries.

## The system

All server code is asynchronous: a handler is a future polled by tokio. Between
two awaits it runs without interruption by its own client, at an await anything
may happen, and when the client disconnects the future is dropped there
(`kb_api.rs:453-455`). Work that must survive the request is spawned.

| part | state | operations | what is hard, what makes it correct |
|---|---|---|---|
| deep report run ledger, `deep_api.rs` | `meta.deep_run`, `meta.deep_section` rows; `ACTIVE_RUNS`, `PROGRESS` in memory | compose, resume, progress; claim, reap, flip, open, finish a section, finish a run | two requests for one run, a restart or a disconnect at any await, lost statements; one executor, no result lost, no finished section redone, never stuck |
| upload gate, `kb_api.rs` | `UPLOAD_GATE` (semaphore), `UPLOAD_WAITING` (counter) | upload, reprocess, URL import, background job, recovery | a permit outlives its request, a copy of the file a permit; a timeout races a hand-over; memory and queue bounded, the counter exact |
| document ingest, `knowledge/src/ingest.rs`, `store.rs` | document rows and states, chunks, embeddings, the file on disk | prepare (insert, reuse, overwrite), fresh, rebuild, overwrite, back-fill of embeddings, promotion, recovery | file and index switch together; late results of an older job; a crash between the two |
| answer stream, `kb_api.rs` `KbWorker`, `pump_sse` | two channels, a delta buffer, the abort guard | worker events, pump, disconnect | text overtaken, held back or lost; one end; what is saved when the client leaves |
| analysis database and relation graph, `connector/src/mysql.rs`, `graph.rs`, `admin_api.rs`, `settings_api.rs` | the pool and its name, `meta.kv`, the catalogue in `settings.json`, `GraphAvailability`, the AGE graph and its marker | switch, edit, undo, boot; rebuild of the graph; a question over the graph | switches, failed switches and rebuilds overlap; a graph is used only for the database it copies, a switch that was confirmed survives |
| run of generated SQL, `agent/src/run.rs` | one record per sample, `STEERS` (mailbox of corrections) | gather, generate, check, rewrite, execute, vote, learn, steer | four checks share one budget of attempts and may undo each other; doubts and corrections must not be lost on the way |
| one question over both arms, `agent/src/ask.rs`, `hybrid.rs` | the contract, the arms in progress | decide, open, ask, second try, knowledge arm, join | parts fail one by one, arms end in any order; refusals and cards must not be papered over |
| periodic rounds, `embed_fill.rs`, `daily_digest.rs` | a PostgreSQL advisory lock, vectors that are NULL | one round | one instance at a time, the lock always released |
| the rest of `connector/src` | cool-downs, lookup slots, advisory locks | embed, parse, fetch | slots returned |
| row scope, `policy`, `kernel/src/policy` | a cache keyed by user, role, source and version | resolve, invalidate, inject | a narrowed right takes effect in time |
| sessions and sign-in, `auth.rs`, `wework.rs`, `xcx_api.rs` | signed cookies, small maps under a mutex | sign in, validate | expiry |
| the rest of `agent/src` | none between questions | gather, prompts, deterministic members | mostly computation |
| semantic layer, `semantic/src` | registry tables | sync, compile, correct | mostly computation |
| SQL guard, `kernel/src/sql` | none | parse, accept or refuse | a parser over text |

Handlers meet in three places: process-wide sets and counters under a mutex or an
atomic, rows in PostgreSQL that one statement or transaction changes, and spawned
tasks that own what the request gave them. The models keep these three kinds of
step apart: one action is one of them.

## Modules

| module | what it is |
|---|---|
| `RunLedger` | what a run's ledger promises: one worker at a time, each section recorded once, done is final |
| `DeepRun` | the handlers of `deep_api.rs` that keep this promise, and their faults |
| `MCDeepRun` | TLC's symmetry for `DeepRun` |
| `DeepRun_proofs` | the inductive invariant of `DeepRun` and its refinement of `RunLedger` |
| `UploadGate` | `upload_permit`, its counter, the semaphore, jobs and recovery |
| `UploadGate_proofs` | the inductive invariant of `UploadGate`, and the order in which it serves |
| `KbIngest` | the documents of a knowledge space: uploads, their jobs, the back-fill, recovery, moves and deletes |
| `MCKbIngest` | TLC's symmetry for `KbIngest` |
| `KbIngest_proofs` | the inductive invariant of `KbIngest`: rows and index |
| `KbIngestQuiet_proofs` | its second one: files, progress and who works on what, while certain events stay away |
| `SourceSwitch` | the switch of the analysis database, the rebuilds of the relation graph and the questions that read it |
| `SourceSwitch_proofs` | its types, what a usable graph is, and the last successful switch |
| `SqlRun` | the runs of one conversation that write, check, rewrite and execute SQL, with the mailbox of corrections and the vote |
| `SqlRun_proofs` | the inductive invariant of a run's record and of the mailbox, and the variant of a run |
| `AskTurn` | one question from its contract to its answer: route, subgoals, members, second try, both arms |
| `AskTurn_proofs` | the inductive invariant of a question |
| `AnswerStream` | what the reader of a streamed answer is promised |
| `KbStream` | the worker, the pump, the channel and the client that keep this promise |
| `KbStream_proofs` | the inductive invariant of `KbStream`, its refinement of `AnswerStream`, and what becomes of a worker without a reader |

The modules share no state: a report run touches no document, and of the upload
gate `KbIngest` needs only that some handler or job holds a slot. `SqlRun` is what
happens inside the step `FreeSql` of `AskTurn`, which takes its outcome as given.

### DeepRun

The module follows one run id; nothing in the code relates two of them. `run` and
`section` are the two tables' state columns, `active` is membership of the id in
`ACTIVE_RUNS`, `mark` holds the terminal stages of its `PROGRESS` entry. Each
handler has a program counter, what it remembers (`seen`, `work`, `goal`, `out`)
and whether it owns a `RunGuard`.

`compose` goes `inner`, `claim`, `open`, `work`, `report`, `finish`, `settle`,
`return`; `resume` goes `load`, `judge`, `reap`, `claim`, `flip`, `plan` and joins
it at `inner`. `Reap` and `Open` are transactions and one action each;
`deep_run_finish` is two statements and two actions (`FinishRow`, `Settle`), and
so is every other pair of awaits. `StartSection` is the window of
`ordered_bounded`. `Leave` is the end of a future, returned or dropped: it drops
the guard, and nothing else cleans up.

Faults are counted and come from a set: a PostgreSQL statement that fails before or
after it took effect, a disconnect at any step, a restart (memory gone, ledger
kept), errors of the query, a resumed question that no longer has a plan, a report
that cannot be saved or is empty. `composes` bounds how often a page starts the
same id anew; it draws a fresh id for each report, so that more than one is a retry.

### UploadGate

`permits`, `queue` and `granted` are tokio's semaphore as the code uses it: waiters
are served in order, a dropped permit is assigned to the first of them, and a
waiter dropped after the assignment passes it on. These definitions are marked
external. `waiting` is `UPLOAD_WAITING`; `fetch_add` with its comparison, the
first poll and `fetch_sub` are separate actions. There is no await between
`fetch_add` and the first poll, so a handler can be dropped in `wait` and in
`hold`, not in between. `Spawn` moves the permit into a job, which is counted in
`jobs` because it no longer belongs to a handler. The handler keeps a copy of the file
until it has answered (`Reply`). The recovery task takes its permits with plain `acquire`,
for one document after the other, and has read the document when it asks (`RecoverRead`).

So the files in memory are more than the permits. `InMemory` counts a task with a file
and, as one with a file to come, a handler with a permit; a job has a file besides.
`MemoryBounded` says by how much that exceeds `UPLOAD_PERMITS`: the copies of the handlers
that have only to answer, and one document of recovery's. The sentence of the comments,
that recovery is under the same memory gate, is `RecoveryUnderGate`, which fails.

### KbIngest

The module follows the documents of one file name in one space, because only
documents of one name or one content meet. `status`, `sha` and `folder` are columns
of `kb.doc`; `chunk` and `vec` are the content of its rows in `kb.chunk` and the
`embedding_text` its vectors were computed from; `file` is the file in the upload
directory. A content stands for its sha256, a folder for the part of the embedding
text that can change while a content stays (`EmbeddingText`).

A slot is one upload: its handler (`bySha` to `store`, `dedup` or `replaceable`), and
then the job it spawned, of one of three kinds. A first ingest (`run`) goes `begin`,
`save`, `parse`, `insert`, `count`, `texts`, `embed`, `publish`, `promote`, or `fail`.
A rebuild or an overwrite goes `read`, `shadow`, `lock` and then the switch: `heal` for
a rebuild, `shift` and `install` for an overwrite, `replace`, and `restore` if that
failed. The handler is in `moving` while its last statement, `move_doc`, is to come;
the job runs beside it. The recovery task walks through what `stuck_docs` found and
runs the same jobs. `FillRead`, `FillWrite` and `FillFlip` are a round of `fill_kb`.

Every SQL statement is one action, every file operation another. The long steps
between them (parsing, embedding) are actions of their own, so that everything else
can happen during them. What the environment does is counted: each kind in `Events`
happens at most once in a behaviour, and at most `MaxEvents` of them do. `pg` fails a
statement with no effect, `answer` lets the index switch commit and lose its answer,
`disk`, `parse` and `embed` fail a file operation, the parser and the embedding
service, `cancel` drops a handler at an await, `crash` restarts the server (memory
gone, rows and files kept), and users move, delete and reprocess.

### SourceSwitch

`pool` is the pool together with its name, which `swap_pool_named` replaces under one
lock; `kv`, `catalog`, `avail`, `graph` and `marker` are the other five places that say
which database is meant. `sw` is the handler that holds `settings_write` (`Swap`,
`WriteKv`, `Rollback`, `Patch`, `AfterSwitch`, and what each does when it fails), `job`
the tasks that run `graph_sync_and_record` (the one of start-up and of every night, and
those a switch spawns), `lock` is `sync_lock`, `ask` the questions. A database is a name
and what the name points at, so that an edit of the current target is a switch between
two databases of one name. `Versions` are what a name can point at, a server and its type;
those in `Warehouses` are of a type that has a graph, so that an edit may also change the
type. A question reads the graph in one or more steps (`ReadGraph`), which may see
different graphs. A piece of the graph carries the database it was read from.

`crossed` is a history variable: it turns true when the pool is replaced, or put back,
under a rebuild whose generation is still current and whose checks compare only a
name that fits. The code has no such variable; the properties use it to name exactly
the case they leave out.

### SqlRun

`box` is the mailbox of one conversation, `run` the runs that share it: the children of
a compound question or two tabs. A run walks from `gather` over `generate` to `safe`,
the top of `attempt`'s loop, and from there through `caliber`, `cover`, `gate`, `explain`
and `fetch`; `recaliber`, `repair` and `regen` are the three ways back. What the SQL says
is abstracted to what the checks have said of the present text; a rewrite makes a text of
which nothing is known. `sound` and `learned` record, for the properties, whether
every check was content. `tally` counts a sample, decides early, or votes.

### AskTurn

A question is what the decisions read of it. `Decide` is `decide`'s list of rules;
`Init` is every question these rules can meet. `goal` has one entry for each
subgoal: those of a typed question share one data arm and are opened together, those of
a hybrid question have one each. `sql` records who wrote what was run: the code, the model
at the end of the table (`FreeSql`), or the model inside a fixed member. The last is
`Derive`: where `direct-doc` knows only a card it has the model write SQL for the raw tables,
and asks only whether the arm is closed to new SQL, not what the contract says.

A failure for want of rights is of one of two kinds, as `dual_outcome` knows such failures
by words in their text: `denied` has one of the words, `unscoped` (a role without a data
range, a scope that comes out empty) has none, and an ordinary error may have one by chance
(`Worded`). `kb` is the knowledge arm; when the data arm is through
it becomes `soon`, `late` or `never`, how much longer it needs, which `Budget` then cuts
off or not. `DualFails`, `Dual`, `Join` and `JoinRefused` are the four ends.

### AnswerStream and KbStream

`KbStream` has the task of `spawn_kb_worker`, the task of `pump_sse`, the unbounded
channel between them (`said` and `read`), the bounded one to the response (`chan`) and the
client. Taking an item, sending a frame and each save are actions of their own. An abort
takes effect at an await, and a save it hits may have reached the database. `AnswerStream`
knows only what was said, what is shown and whether the speaker is gone; `KeepsPromise`
is the refinement.

## Runs

| run | bounds | what it shows |
|---|---|---|
| `deep_run` | 2 handlers, 2 composes, up to 2 sections, window 2, 2 faults of any kind | types, one executor, the ledger agrees with the executor, refinement of `RunLedger`; the gate always reopens, an unfinished run is finished |
| `upload_gate` | 4 handlers and recovery, 2 permits, 2 places, 2 documents, 2 dropped waiters | conservation of permits, memory bounded by the permits, the copies of answering handlers and one document of recovery's, the queue's limit, the counter, every waiter served |
| `kb_ingest_safety` | 2 documents, 2 contents, 2 folders, 2 slots and recovery, 2 uploads, any 2 of 10 kinds of event | types, no stale vector, nothing served without its index, file and row agree, nothing in progress without a task, what is online stays |
| `kb_ingest_live` | 1 document, 1 content, 2 folders, 2 slots and recovery, 1 upload, any 3 of 9 kinds of event | a chunked document leaves that state, a document in progress settles |
| `source_switch` | 2 names, the task of the night and one spawned, 1 question, 3 generations | types, a usable graph is whole, an answer was read from a whole graph, a confirmed switch survives a restart |
| `sql_run` | 2 runs, 1 sample, 3 attempts, 2 caliber rounds, 2 corrections | the attempts never run out, only checked SQL reaches the database, no doubt is lost, nothing doubtful is learned, the mailbox counts the runs and keeps corrections |
| `sql_vote` | 1 run, 3 samples, 3 attempts, 2 values | an answer without a note has a majority behind it, every run ends |
| `ask_turn` | every question of up to 3 subgoals | SQL the model wrote only under its contract, refusals that say what they are and cards stand, an asked-for document is waited for, a failed part is named, the first card survives |
| `kb_stream` | 5 pieces, frames of 3, a channel of 2 | refinement of `AnswerStream`, nothing is held back, the end comes after the save, leaving stops the worker |
| `upload_gate_leak` | 3 handlers, 1 permit, 1 place, 1 dropped waiter | a dropped waiter stays counted, later requests are refused for it |
| `kb_stale_index` | 2 documents, 2 contents, 2 slots, 3 uploads, no event | an older rebuild replaces the index of a newer overwrite |
| `ask_derive` | every question of up to 2 subgoals | the model's SQL answers under a contract that names an ambiguity |

The bounds are small and enough: a conflict over the gate needs two handlers, and two
sections in a window of two have one running and one finished or not started
(`DeepRunWide.cfg` has three). Two faults let a resume follow a crash and be interrupted
itself. For the upload gate four handlers fill two permits (which move into jobs) and two
places and leave one to be refused; the recovery task stands in the same queue. In
`KbIngest` two uploads and a reprocess request make three jobs, any two of which can be of
the same document, beside the back-fill and recovery, and two events let a failure follow
a move, a restart or a disconnect. In `SourceSwitch` three generations are a rebuild, a
switch, and a second rebuild or the undoing of the switch; a third could only repeat one
of these. `SqlRun` has the budgets of the code; two runs are an inner and an outer owner of
the mailbox, three samples the smallest number of which two can disagree and a third
decide. In `AskTurn` of three subgoals one can fail, one be answered and one be in its
second try. In `KbStream` five pieces fill one frame and part of a second, and a channel of
two frames is full while the pump holds another. The proofs lift to any bounds what they
state.

Some properties are stated for behaviours in which certain events did not happen, and
each exception is one the code does not handle. `FileFollowsShaQuietly`:
a restart inside the switch, a lost answer and a failing restore leave file and row
apart, and so does a reprocess request made while the first ingest still runs: it makes
the document `embedded`, an upload then replaces its content, and the first ingest's own
`save` writes the old content over the new. `InProgressIsInHandQuietly` and `Settles`: a
dropped handler, a failing statement of `prepare` (or of the failure's own record) and a
restart whose scan comes before ten minutes are over leave a document in progress.
`OnlineStays`: a first ingest that fails after its document was rebuilt by another job marks
it failed although its index is served; that takes a failing statement, a restart or a
reprocess request. `ReadyIsWhole` and `GraphAnswersWhole`: a rebuild that could not notice
that the pool was replaced (`crossed`, above). `DeniedIsRaised`, `CardsStand` and
`OneFailureIsNamed`: hybrid questions, which `hybrid::run` joins by rules of its own.
`DeniedIsRaised` also leaves out the refusals whose text `dual_outcome` does not know, and
`FreeSqlUnderContract` lets a derivation in a hybrid question answer under a contract that
is not sure of itself; `AskTurnDenied.cfg` and the run `ask_derive` are about these.

### Disagreements

Three runs check one property each that the source states, and TLC's counterexample is
the disagreement:

- `upload_gate_leak`: `upload_permit` loses a count for each client that disconnects while
  it waits. After 32 of them every upload that finds no free permit is refused until
  restart, although the comment at `kb_api.rs:134` says that a refusal means overload.
- `kb_stale_index`: `reprocess` builds its shadow from the bytes it was given, waits for
  `FILE_SWITCH_LOCK` and replaces the index without asking whether the document is
  still of that content. Upload a; while it is chunked upload a again (a rebuild); upload
  b, which overwrites: if the overwrite gets the lock first, the rebuild then puts
  a's index under b's sha and file, and b is from now on taken for already uploaded.
  The comment at `ingest.rs:620` says that the lock prevents such halves.
- `ask_derive`: `hybrid.rs:114` starts the data arms of a hybrid question without the flag
  that `ask_prepared` computes for a contract that names an ambiguity, and each part keeps
  the ambiguity. If such an arm meets `direct-doc` and that has only a card,
  `derive_eligible` lets the model write SQL, since it looks at the same flag
  (`fastpath_intent.rs:1299`). The comment above it says that the way must be shut when the
  contract is not ready, and `intent.rs:1707` that a model that says it is unsure never
  opens free queries; `ask_prepared` keeps both, `hybrid::run` does not.

### Further configurations

These configurations are kept beside the runs, to be used by hand. `DeepRunWide.cfg` is
`deep_run` with three sections, safety only. `SourceSwitchEdits.cfg` is `source_switch` with
two warehouses that each name may point at, and `SourceSwitchTypes.cfg` with a warehouse and
a database of another type, both with two generations (with three they take too long to
be runs). TLC finds no error in any of these. In each of the others TLC finds the
counterexample described here, to a sentence of the source or to what one would expect of it:

- `DeepRunReap.cfg`, `InterruptedMeansDead`: `resume` asks `run_is_active` and reaps in two
  steps. Another resume may take the run over in between and is then marked
  `interrupted`, which line 3068 reserves for runs whose process died.
  `deep_run_finish` overwrites the mark; until then the page is offered a resume that
  answers 409.
- `DeepRunReturn.cfg`, `ReturnedMeansClosed`: a resume whose caller has lost the right to
  analyse the source, or whose question now takes an early route, returns a report without
  `deep_run_finish`, though line 5631 says that the row is closed and 3317 names this very
  case.
- `DeepRunPolling.cfg`, `ResumedIsPolled`: `PROGRESS` keeps the failed stage of an earlier
  attempt, so that `progress` says done at once and the page stops polling the run it has
  just resumed.
- `KbIngestOrphan.cfg`, `InProgressIsInHand`: `prepare` runs in the handler; a disconnect
  between its `insert_doc` and the spawn of the job leaves the document in progress for
  ever, and its content and name are refused in the meantime. `kb_api.rs:540` says that
  this no longer happens.
- `KbIngestAnswer.cfg`, `FileFollowsSha`: `overwrite` restores the old file whenever
  `replace_chunks` returns an error. If only the answer was lost the row is new and the file
  old, the state that `ingest.rs:663` calls without remedy.
- `SqlRunLearned.cfg`, `LearnedAgreesWithAnswer`: `run.rs:751-752` describes as a fault of the
  past that one and the same SQL was doubted before the user and stored as
  the right way to ask (「系统一边给用户挂 review 收据说「这个槽位我证不出来」，一边把同一条 SQL /
  当「正确写法」写进 `meta.memory`」), and 930 speaks of two kinds of honesty in one file. Both
  stores come at 916 and 931; the note that a part of the material is missing (308) and
  the one that no majority was found (348) are put on afterwards, so that a doubted
  answer has been stored.
- `SourceSwitchRollback.cfg`, `ReadyIsAlwaysWhole`: a switch whose name cannot be kept puts
  the old pool and the old availability back, generation included
  (`admin_api.rs:1009-1015`). A rebuild of the old target that was reading during the switch
  has then read some parts from the other database, finds the name it expects and the
  generation it began with, and its mixture is declared ready. The same hole is open when
  an edit of the current target is swapped in under a rebuild: the rebuild's checks
  compare names only.
- `SourceSwitchLabel.cfg`, `RowsAreOfTheirSource`: `mysql.rs:176` commits pool and name under
  one lock so that credible rows are never shown under the wrong source
  (「避免可信凭证短暂标错来源」). A question reads the name when it arrives and the pool when it
  runs its SQL, and a switch fits between the two.
- `UploadGateMemory.cfg`, `RecoveryUnderGate`: `recover_one` reads the whole file
  (`kb_api.rs:575`) and asks for its permit at 589. While it waits there, its file is in memory beside those of
  `UPLOAD_PERMITS` requests and jobs, although the comments at 542 and 588 put recovery
  under the same memory gate. It is one document, never more (`MemoryBounded`).
- `AskTurnLast.cfg`, `LastMemberAnswers`: the comment at `ask.rs:1734` says that with a
  ready contract the member at the end of the table answers or fails, and that whoever gets past it has a broken table.
  The arms of a hybrid question with an ambiguity, of which `ask_derive` tells, get past it:
  the last member declines the contract, and the arm fails with the error about that table.
- `AskTurnDenied.cfg`, `EveryDenialIsRaised`: the comment at `hybrid.rs:365` says that
  failures of permission are always raised. They are told by words in the text of the error (369), and the refusal of a role
  without a data range (`policy/src/scope.rs:323`) and that of an empty scope
  (`agent/src/gate.rs:99`) contain none of them: with a hit in the knowledge base the caller
  is shown a document.

Behaviours that the models have and no property forbids, because the code seems to mean
them, but which a reader should know of:

- `hybrid::run` shows the knowledge side when the data side failed for a lack of rights,
  while `dual_outcome` (`hybrid.rs:365`) raises such failures whatever the other side found;
  and it asks the knowledge base also for a question that asks to destroy data.
- A compound answer counts as having substance even if each part is a card, and then
  gives the knowledge arm the short budget.
- With several samples, a sample that fails for a lack of rights is one failed sample among
  others. A correction is taken by one sample of one run, the first at its safe point; the
  other samples and the siblings of a compound question go on with the old question. A
  correction that comes after the last safe point is dropped with the mailbox.
- A SQL text that was corrected is learned under the words of the original question
  (`run.rs:916-945`), and each sample's SQL is learned before the vote. A card and an
  empty result have the same fingerprint in the vote.

## Fairness

`DeepRun` assumes that a handler that has not been interrupted goes on (its awaits
are on PostgreSQL, models and pipelines with time limits), and that the owner of an
unfinished report asks to resume it again. Faults are never fair and are finite in
number. `EventuallyDone` leaves out runs with an empty plan: `resume` answers 422 to
them for ever, which the model shows and the property excludes by `HasPlan`.

`UploadGate` assumes that a handler with a place or a permit is polled, that a job
ends (parser, model and database calls have limits) and that recovery goes on. It
assumes nothing of new requests or of the timer, so `WaitersServed` holds because
the semaphore is first come, first served: with last come, first served, which is
one of the mutants, recovery starves.

`KbIngest` assumes that handlers and jobs run on (the parser, the embedding service and
the database have time limits; the holder of `FILE_SWITCH_LOCK` leaves it on every
path), that the rounds of the back-fill return, and that recovery goes on. Nobody has
to send a request, and events are never fair.

`SqlRun` assumes that every await of a run returns (the calls of the model and of the
database have time limits), and nothing of the user, who may send corrections for
ever. `KbStream` assumes that the two tasks are scheduled, that a save returns, that an abort
takes effect and that a client that stays reads what it is sent. It assumes nothing of
the search and the model: `AllIsShown` and `LeavingStopsTheWorker` hold of an answer that
never says another word. `SourceSwitch` and `AskTurn` are checked for safety only.

## Proofs

`DeepRun_proofs` proves for every set of handlers, plan size, window and fault
budget:

- `TypeCorrect`, `MutualExclusion`, `NoRework`: `TypeOK`, `SingleExecutor` and
  `LedgerAgrees` always hold;
- `Inductive`: `IInv`, the conjunction of `TypeOK`, `SingleExecutor` and `Owned`, is
  inductive;
- `Refinement`: `DeepRun` implements `RunLedger`.

`SingleExecutor` is not inductive alone: that a handler without the guard writes
nothing is a fact about program counters, and that the row is not `done` when the
owner is about to write depends on what each step of the owner left. `Owned` says
for each step who holds the guard (`GuardHeld`), what the row is (`RowOwned`) and
how ledger and memory agree (`SectionsOwned`). With it each action of `DeepRun` is
an action of `RunLedger` or leaves its variables alone; the mapping calls the
handler busy from the flip to the end. The proof assumes the four named
assumptions about the constants.

`UploadGate_proofs` proves for every number of handlers, permits, places and
documents:

- `GateInductive`, `GateInvariant`: the conjunction `IInv` of the gate's invariants
  is inductive and always holds;
- `PermitsConserved`, `LimitsHold`, `MemoryIsBounded`, `QueueIsBounded`, `CounterMeaning`,
  `NoLostWakeup`, `TypeCorrect`: its parts, and the two limits that follow from them. For
  memory: who has a file and no permit is recovery or a handler that has only to answer,
  so that conservation of the permits bounds the rest;
- `RefusalsJustified`: as long as no waiting handler has been dropped, a request is
  refused only when the queue is full. Together with `upload_gate_leak` this says
  that the leak is the one cause of false refusals;
- `ServedInOrder`: the gate is first come, first served (`FirstComeFirst`): a permit is taken
  without waiting only when nobody waits, and handed over only to the first in the line; who
  waits never falls back, whoever leaves; and a permit that a job, a handler or recovery
  drops moves everybody up by a place. With the end of jobs, which is an assumption, this is
  what `WaitersServed` rests on.

The argument counts. Lemmas say how a change of one task's step changes the sizes of
the sets of tasks with a file, of counted and of admitted handlers, and how a
release, an acquisition and an abandonment change the permits. The types depend on
the counts (`waiting` is a natural number because it is a cardinality plus `lost`)
and the counts on the shape of the queue (the head of the queue has no permit yet),
so the three are proved together.

`KbIngest_proofs` proves for any sets of documents, contents, folders and slots, any
number of requests and any events, restarts included:

- `IngestInductive`: `IInv` is inductive;
- `TypeCorrect`, `NoStaleVectors`, `ServedIsComplete`: `TypeOK`, `VectorsCurrent` and
  `ShownIsFound` always hold.

The lemmas go statement by statement: `set_status`, `replace_chunks`, `move_doc` and the
compare-and-set each keep the rows and the index in order (`DataOK`), from any state
that is in order. That the tasks use them rightly needs three facts more: a row that is
there has a folder and one that is gone has no chunks (`RowsOK`), a document in a task's
or the recovery's hands was made and is never made again (`TaskOK`, `StuckOK`), and a
first ingest past `insert_chunks` has chunks or lost its document (`HasChunks`), which
is why `set_status(Chunked)` cannot show an empty one. `Stays` says what a step leaves
true for the tasks that do not take it.

`KbIngestQuiet_proofs` proves for the same constants what holds as long as certain events
have not happened:

- `QuietInductive`: `QuietInv` is inductive together with `IInv`;
- `FileAndRowAgree`, `SomebodyHasIt`: `FileFollowsShaQuietly` and `InProgressIsInHandQuietly`
  always hold;
- `OnlineIsKept`: no step breaks `OnlineStays`;
- `SwitchesAreSerial`: no two tasks are ever in the steps of the switch, and the lock is never
  left with a task that is not, through every failure, lost answer and restart;
- `OneFirstIngest`: before a restart no document has two first ingests at once.

None of the first three is inductive, since each is about what several tasks of one document may
assume of each other. `QuietInv` says it for each job (`JobOK`): the steps of the switch are
those of the lock's holder (`LockOK`); a document is in progress while its first ingest has
not reached `set_status(Chunked)`, and not while a job works on its shadow (`StatusOK`), which
is what `Reusable` and `Busy` are for; and the file is the one the row names, for a first
ingest that has written it and for a job that has just got the lock, while an overwrite that
may have to restore that file has kept it (`FileOK`). Beside that, a document has at most one first ingest (`OneHand`),
recovery has nothing to do before a restart (`NoRecovery`), and every document outside the
switch is filed as its row says (`FiledOK`). The proof sorts the steps by what they do to
other tasks: a calm step (`Calm`) changes neither a file nor whether a document is in
progress; a step of a first ingest (`Works`) can meet a shadow job of its document only when
the document is not in progress; a step of the switch (`Switches`) has the lock, and meets
a first ingest only when that is past its own writes. `CalmKeeps`, `WorkKeeps` and
`SwitchKeeps` each settle all other tasks, so that an action's proof is about its own. Every
conjunct names only the events under which it fails, so that `OnlineStays` stands after a
lost answer or a failing file.
`QuietInv` was checked by TLC with the constants of `KbIngestSafety.cfg` before it was proved.

`SourceSwitch_proofs` proves for any catalogue, any number of tasks and questions and any
bound on the generations:

- `SwitchTypeOK`: `TypeOK` always holds;
- `GraphAlways`: `GraphOK` is inductive together with the types;
- `GraphIsWhole`, `AnswersAreWhole`: `ReadyIsWhole` always holds and no step breaks
  `GraphAnswersWhole`;
- `SuccessIsKept`: `SuccessSurvivesRestart` always holds.

That a usable graph is whole follows from what a rebuild has done so far (`Steady`), as
long as it is still believed and its reads were of the pool that has its name. The
difficulty is that a failed switch brings an old availability back, so everything that is
said of the present one (`AvailOK`) has to be kept true of the one that may return
(`BeforeOK`), although rebuilds and questions go on meanwhile: no generation given out
before is ever given out again, a rebuild that begins during the switch makes the return
impossible, and a lease cannot be taken while it is possible. `SuccessSurvivesRestart` needs
only where the name is on its way (`Kept`).

`SqlRun_proofs` proves for any number of runs, samples and corrections, and for every pair
of budgets that the source's own test admits:

- `RunInductive`: the invariant of one run's record and of the mailbox is inductive;
- `RunTypes`, `OnlyCheckedReaches`, `NoNoteIsLost`, `OnlySoundIsLearned`,
  `RegistrationIsExact`, `BudgetSuffices`, `MajorityIsReal`: `TypeOK`, `OnlyCheckedSqlRuns`,
  `UnnotedIsSound`, `LearnedIsSound`, `DepthIsRunning`, `NeverOutOfAttempts` and
  `MajorityAgrees` always hold;
- `CorrectionsReachARun`: no step breaks `CorrectionsAreKept`;
- `RunsAreFinite`: every step of a run that is not over ends it, takes it to a later sample,
  or lowers `Left`, a natural number, within the sample (`EveryStepShortens`).

`RunsAreFinite` is the half of `EveryRunEnds` that is a fact about single steps: rewrites,
failed checks and corrections never go in a circle, whatever the budgets. `Left` counts the
attempts left, a second set of them while no correction has been taken (the flag `steered`
is what makes one correction per sample of `steer_regen`), and the stages of an attempt.
That a run which can step does step is the fairness of `FairSpec`, and stays with TLC.

The invariant says at each stage what is known of the text, that a doubt about it is in the
note, and that a stage which may go back to the top has an attempt left. The last is why
the error after the last attempt is not an action of the module: `BudgetSuffices` is the
proof that it is not needed. It rests on `BudgetAssumption`, which the source holds itself
to in `caliber_budget_never_bails_on_last_attempt`.

`AskTurn_proofs` proves for any finite set of subgoals:

- `TurnAlways`: `TurnOK`, the conjunction of the types and five facts with the four
  invariants, is inductive;
- `TurnTypes`, `FreeSqlIsUnderContract`, `DenialIsRaised`, `CardIsShown`, `FailureIsNamed`:
  `TypeOK`, `FreeSqlUnderContract`, `DeniedIsRaised`, `CardsStand` and `OneFailureIsNamed`
  always hold;
- `FirstCardSurvives`, `DocumentIsShown`: no step breaks `CardSurvivesSecondTry` or
  `DocumentQuestionGetsIt`.

`FreeSqlIsUnderContract` is about every text the model writes, wherever in the table, and
`DenialIsRaised` about the refusals that `dual_outcome` knows; what the code does not keep of
the two is said under *Disagreements*.

The facts are that `decide` gives a document's question a document to show (`DecidedOK`),
that an arm is opened or settled as a whole, so that settling one subgoal cannot reach a
sibling in its second try (`ArmOK`), that no part of a contract is surer than the whole
(`PartOK`), that what asks to destroy data has one answer and no knowledge arm
(`RefusedOK`), and that the race is over only when the arms are (`RaceOK`).

`KbStream_proofs` proves for any number of pieces, any size of frames and any capacity:

- `StreamInductive`: `IInv` is inductive;
- `StreamTypes`, `NothingAnnouncedEarly`: `TypeOK` and `DoneIsSettled` always hold;
- `PromiseKept`: `KbStream` implements `AnswerStream`;
- `NobodyIsServedInVain`, `NobodyReadsNothingSaved`: when the pump has returned, its worker has
  ended or is aborted, and a worker that comes to its check after that does not begin to save.
  They are the safety of `LeavingStopsTheWorker`: what is left to fairness is that an aborted
  task is dropped.

The refinement needs to know that what is shown is a beginning of what there is to read: all
the worker said, and the error frame after it if the worker vanished. The invariant says so
and says where the rest is: the frames in the channel, those about to be sent and the
collected text are consecutive parts of it (`InOrder`, a sequence of cuts at which one frame
ends and the next begins), so that taking, collecting, sending and receiving only move the
cuts. A frame with the error of a vanished worker is alone and last (`Alone`). `Receive` is
then the abstract `Show` or `ShowBroken`, and every other step says something, loses the
speaker or stutters. `DoneIsSettled` follows from what the worker has saved when it says
that it is done.

Every invariant and every action property that a run checks is now stated by a theorem.

Only model-checked: liveness (`GateReopens`, `EventuallyDone`, `WaitersServed`, `Graduates`,
`Settles`, `EveryRunEnds`, `AllIsShown`, `LeavingStopsTheWorker`), which is temporal reasoning
under fairness that the prover does not do here (for `EveryRunEnds` the decrease of the
variant is proved, `RunsAreFinite`, for `WaitersServed` that everybody moves up,
`ServedInOrder`, and for `LeavingStopsTheWorker` that the worker is aborted,
`NobodyIsServedInVain`); and the disagreements, which are
counterexamples.

## What the models leave out

- `DeepRun`: planning, compiling and rendering of a report; the section panel and the
  limits of `PROGRESS` (entries idle for ten minutes are evicted once there are more
  than 200); a stored section result that no longer parses (the code runs the
  section again); other server processes on the same database (3075 states that
  there is one). A statement whose future was dropped lands before or after the
  drop, never later.
- When PostgreSQL fails as a compose opens its ledger, the guard is dropped and the
  report goes on without a ledger, so that a second executor of the same id may run
  beside it. The comment at 3073 does not expect two executors; only one of them
  writes the ledger, and that is what `SingleExecutor` and the refinement are about.
- Between the note of a resumed run's success and its guard's drop the code saves a
  chat message, which touches neither gate nor ledger.
- `UploadGate`: the download gate next to it, which is a plain `try_acquire`; a
  semaphore that is closed (nothing closes it); a restart, after which the counter
  and the semaphore start anew and recovery begins, as in `Init`.
- `KbIngest`: the second channel of tables (physical tables and data sources),
  `enabled` and the effective dates, which the compare-and-sets also ask, rights that
  are withdrawn while a job runs (its statements then fail, as under `pg`), metadata,
  notices, full-text terms, the choice of a preset. The chunks of a document are one
  unit: `insert_chunks`, `replace_chunks` and `move_doc` change all of them in one
  statement; a round of the back-fill writes them one by one, and a document of which
  some are missing counts here as one without vectors. Statements of one document are
  taken to be serial; PostgreSQL, at its default isolation, re-evaluates the condition
  of a waiting update on the new row but not its sub-selects.
- Staged and rollback files live under names of their own and are not in the model; a
  restart in the middle of the switch leaves the rollback copy behind, which nothing
  reads.
- Two uploads of one name and two contents that both find no document make two
  documents; the model has both, and no comment forbids it.
- `SourceSwitch`: other processes. `sync_lock` (`graph.rs:98`) and the availability are of one
  process, while the graph and its marker are shared; the command line's rebuild
  (`main.rs:1043`) runs under no lock of the server's. Also `del_mysql_target`, the other
  settings, the status line of the graph, and a handler dropped while `settings.json` is
  written, which is a synchronous call.
- `SqlRun`: SQL texts, prompts and columns, the wording of notes, and the storage of what is
  learned. Gathering is one action.
- `AskTurn`: recognition of the intent (its result is `Init`'s contract), the order of the
  fixed members, which SQL `direct-doc` runs before it derives, and what a rewording says.
- `KbStream`: the comment frames that keep the connection alive (`kb_api.rs:2791`), which
  say nothing of the answer; a save that never returns (the pool gives up waiting for a
  connection after a default 30 seconds).
- Two tabs in one conversation (`chat.rs:203`): the statement that finds the last turn takes the
  first answer after a question, which can be the answer to the other tab's. The comment
  above it speaks of one handler that writes in order. `SqlRun` has the two tabs, and only
  their shared mailbox.
- Row scopes (`policy/src/cache.rs:22`) are served from the cache for up to fifteen minutes after
  the caller's rights changed unless somebody calls `invalidate`; that is a promise about time
  that the code makes by its constant.
- The components with status `not_modelled` in `PROJECT.json`, with their reasons.

## Plan

What would come next, the most useful first:

1. More about `KbIngest`: an abstract specification of the index as a sequence of published
   versions, with the switch as its one step; and the invariants on which `Settles` and
   `Graduates` rest (some step of every task in progress is always possible), without
   the fairness that turns them into liveness. The same for `GateReopens` in `DeepRun`.
2. `Rounds`: rounds of several instances under the advisory lock (`embed_fill.rs:57`), and the
   form of `OwnedAdvisoryLock`.
3. `SourceSwitch` with two processes over one graph, where the marker is all they share.
4. `ScopeCache`: what a cached row scope promises after rights change.

Not modelled, for want of a protocol: retrieval and ranking, document parsing, prompt
assembly, the deterministic members, the semantic layer and the SQL guard. These are most
of the repository's lines; they are computations over text and tables between two awaits,
whose correctness is a matter of what the text means, and their results enter the models as
choices.
