------------------------------ MODULE DeepRun ------------------------------
(***************************************************************************)
(* The run ledger of a deep report (crates/server/src/deep_api.rs).        *)
(*                                                                         *)
(* `POST /api/deep/compose` plans a report, opens a ledger in PostgreSQL   *)
(* (one row in meta.deep_run, one row per section in meta.deep_section),   *)
(* runs the sections and closes the ledger.  `POST /api/deep/resume`       *)
(* continues an unfinished run from that ledger.  The process-wide set     *)
(* ACTIVE_RUNS, entered by claim_active and left when a RunGuard drops,    *)
(* keeps two executors of one run apart.                                   *)
(*                                                                         *)
(* Everything below is keyed by the run id, so the module models one run   *)
(* id and any number of handlers working on it.  A handler is a future:    *)
(* between two awaits anything may happen, the client may disconnect       *)
(* (the future is dropped) and the process may die.  One action is the     *)
(* code between two such points: one SQL statement or transaction, one     *)
(* critical section of a mutex, one section query, one call of a model.    *)
(***************************************************************************)
EXTENDS Integers

CONSTANTS
    Requests,       \* the handlers that may work on the run at the same time
    MaxSections,    \* the largest plan
    Width,          \* MAX_SECTION_CONCURRENCY
    MaxComposes,    \* how many compose requests carry this run id
    Faults,         \* the kinds of fault that are injected
    MaxFaults       \* how many faults are injected in all

FaultKinds == {"pg",        \* a ledger statement returns an error
               "cancel",    \* the client disconnects, the future is dropped
               "crash",     \* the process restarts
               "query",     \* the pipeline before the plan returns an error
               "route",     \* a resumed question is answered without a plan
               "scope",     \* the resumed caller may no longer analyse the source
               "artifact",  \* the report cannot be saved
               "empty"}     \* the report has nothing to show

ASSUME SectionsAssumption == MaxSections \in Nat
ASSUME WidthAssumption == Width \in Nat \ {0}
ASSUME FaultsAssumption == Faults \subseteq FaultKinds /\ MaxFaults \in Nat
ASSUME ComposesAssumption == MaxComposes \in Nat

VARIABLES
    run,        \* the state column of the run's row in meta.deep_run
    section,    \* the rows of meta.deep_section, "none" where there is no row
    active,     \* whether the run id is in ACTIVE_RUNS
    mark,       \* the terminal stages in the run's PROGRESS entry
    pc,         \* what each handler does next
    kind,       \* which endpoint the handler serves
    guard,      \* whether the handler owns the RunGuard
    seen,       \* the row's state as the resume handler loaded it
    work,       \* the handler's view of each section of its plan
    goal,       \* the state the handler is about to write into the row
    out,        \* what compose_inner returned
    composes,   \* compose requests so far
    faults      \* faults so far

ledger == <<run, section>>
locals == <<kind, seen, work, goal, out>>
counters == <<composes, faults>>
vars == <<run, section, active, mark, pc, kind, guard, seen, work, goal, out,
          composes, faults>>

Sections == 1 .. MaxSections

RunStates == {"absent", "running", "done", "failed", "interrupted"}
SectionStates == {"none", "queued", "running", "done", "failed"}
WorkStates == {"none", "todo", "restored", "running", "good", "bad", "over"}
Steps == {"idle", "inner", "claim", "open", "load", "judge", "reap", "flip",
          "plan", "work", "report", "untracked", "finish", "settle", "return",
          "abort", "abortSettle"}

NoWork == [i \in Sections |-> "none"]

Init ==
    /\ run = "absent"
    /\ section = [i \in Sections |-> "none"]
    /\ active = FALSE
    /\ mark = {}
    /\ pc = [q \in Requests |-> "idle"]
    /\ kind = [q \in Requests |-> "compose"]
    /\ guard = [q \in Requests |-> FALSE]
    /\ seen = [q \in Requests |-> "absent"]
    /\ work = [q \in Requests |-> NoWork]
    /\ goal = [q \in Requests |-> "absent"]
    /\ out = [q \in Requests |-> "none"]
    /\ composes = 0
    /\ faults = 0

(***************************************************************************)
(* Control shared by the handlers                                          *)
(***************************************************************************)
Goto(q, step) == pc' = [pc EXCEPT ![q] = step]

\* set.insert(rid) of claim_active fails.
AlreadyClaimed == active

\* Mutants: the run id is removed by handlers that never claimed it; or by none.
DropGuard_OfAnyone(q) ==
    /\ guard' = [guard EXCEPT ![q] = FALSE]
    /\ active' = FALSE

DropGuard_KeepsId(q) ==
    /\ guard' = [guard EXCEPT ![q] = FALSE]
    /\ active' = active

\* RunGuard::drop, for a handler that may or may not own one.
DropGuard(q) ==
    /\ guard' = [guard EXCEPT ![q] = FALSE]
    /\ active' = (active /\ ~guard[q])

\* The handler's future ends, by returning or by being dropped.
Leave(q) ==
    /\ Goto(q, "idle")
    /\ DropGuard(q)
    /\ kind' = [kind EXCEPT ![q] = "compose"]
    /\ seen' = [seen EXCEPT ![q] = "absent"]
    /\ work' = [work EXCEPT ![q] = NoWork]
    /\ goal' = [goal EXCEPT ![q] = "absent"]
    /\ out' = [out EXCEPT ![q] = "none"]

Fault(f) ==
    /\ f \in Faults
    /\ faults < MaxFaults
    /\ faults' = faults + 1

\* What is a fault for a resumed run is an ordinary answer to a fresh question.
FaultIfResumed(q, f) == IF kind[q] = "resume" THEN Fault(f) ELSE UNCHANGED faults

(***************************************************************************)
(* Requests arrive                                                         *)
(***************************************************************************)
StartCompose(q) ==
    /\ pc[q] = "idle"
    /\ composes < MaxComposes
    /\ composes' = composes + 1
    /\ Goto(q, "inner")
    /\ UNCHANGED <<run, section, active, mark, guard, locals, faults>>

StartResume(q) ==
    /\ pc[q] = "idle"
    /\ Goto(q, "load")
    /\ kind' = [kind EXCEPT ![q] = "resume"]
    /\ UNCHANGED <<run, section, active, mark, guard, seen, work, goal, out,
                   counters>>

(***************************************************************************)
(* resume, up to the pipeline                                              *)
(***************************************************************************)
\* deep_run_load; the row missing is 404, a finished report is 409.
Load(q) ==
    /\ pc[q] = "load"
    /\ IF run \in {"absent", "done"}
       THEN Leave(q)
       ELSE /\ seen' = [seen EXCEPT ![q] = run]
            /\ Goto(q, "judge")
            /\ UNCHANGED <<active, guard, kind, work, goal, out>>
    /\ UNCHANGED <<run, section, mark, counters>>

\* Mutant: a running row is refused without asking whether its executor lives.
Refused_Always(q) == seen[q] = "running"

\* A row seen running is 409 if this process has a live executor, else it is
\* reaped; the two facts were read at different moments.
Refused(q) == seen[q] = "running" /\ active

Judge(q) ==
    /\ pc[q] = "judge"
    /\ IF Refused(q)
       THEN Leave(q)
       ELSE /\ Goto(q, IF seen[q] = "running" THEN "reap" ELSE "claim")
            /\ UNCHANGED <<active, guard, locals>>
    /\ UNCHANGED <<run, section, mark, counters>>

\* deep_run_reap, one transaction.
Reap(q) ==
    /\ pc[q] = "reap"
    /\ run' = IF run = "running" THEN "interrupted" ELSE run
    /\ section' = [i \in Sections |->
                     IF section[i] = "running" THEN "queued" ELSE section[i]]
    /\ Goto(q, "claim")
    /\ UNCHANGED <<active, mark, guard, locals, counters>>

\* claim_active, for resume and for deep_run_start; losing it is 409.
Claim(q) ==
    /\ pc[q] = "claim"
    /\ IF AlreadyClaimed
       THEN Leave(q)
       ELSE /\ active' = TRUE
            /\ guard' = [guard EXCEPT ![q] = TRUE]
            /\ Goto(q, IF kind[q] = "resume" THEN "flip" ELSE "open")
            /\ UNCHANGED locals
    /\ UNCHANGED <<run, section, mark, counters>>

\* Mutant: the WHERE clause is gone.
Flippable_Any(state) == state # "absent"

\* UPDATE ... SET state='running' WHERE state IN ('interrupted','failed').
Flippable(state) == state \in {"interrupted", "failed"}

Flip(q) ==
    /\ pc[q] = "flip"
    /\ IF Flippable(run)
       THEN /\ run' = "running"
            /\ Goto(q, "plan")
            /\ UNCHANGED <<active, guard, locals>>
       ELSE Leave(q) /\ UNCHANGED run
    /\ UNCHANGED <<section, mark, counters>>

\* Mutant: a failed section counts as finished.
Taken_WithFailed(state) ==
    CASE state = "none" -> "none"
      [] state \in {"done", "failed"} -> "restored"
      [] OTHER -> "todo"

\* A section's row as the resumed handler takes it over.
Taken(state) ==
    CASE state = "none" -> "none"
      [] state = "done" -> "restored"
      [] OTHER -> "todo"

\* deep_sections_load; an empty plan is fatal.
ReadPlan(q) ==
    /\ pc[q] = "plan"
    /\ IF \A i \in Sections : section[i] = "none"
       THEN /\ Goto(q, "abort")
            /\ goal' = [goal EXCEPT ![q] = "failed"]
            /\ UNCHANGED work
       ELSE /\ Goto(q, "inner")
            /\ work' = [work EXCEPT ![q] = [i \in Sections |-> Taken(section[i])]]
            /\ UNCHANGED goal
    /\ UNCHANGED <<run, section, active, mark, kind, guard, seen, out, counters>>

(***************************************************************************)
(* compose_inner, up to the plan                                           *)
(***************************************************************************)
\* A forced clarification, or the Unknown, Knowledge or Hybrid route: answered
\* with Ok and no ledger step.  The weekly report whose week has not started
\* ("silent") is not even noted in PROGRESS.
AnswerEarly(q) ==
    /\ pc[q] = "inner"
    /\ FaultIfResumed(q, "route")
    /\ \E answer \in {"ok", "silent"} : out' = [out EXCEPT ![q] = answer]
    /\ Goto(q, "return")
    /\ UNCHANGED <<run, section, active, mark, kind, guard, seen, work, goal,
                   composes>>

\* An error before the plan; only those of the query itself are noted.
QueryFails(q) ==
    /\ pc[q] = "inner"
    /\ Fault("query")
    /\ out' = [out EXCEPT ![q] = "err"]
    /\ mark' \in {mark, mark \union {"failed"}}
    /\ Goto(q, "return")
    /\ UNCHANGED <<run, section, active, kind, guard, seen, work, goal, composes>>

\* The plan is final: a fresh run opens a ledger, a resumed one already has it.
PlanReady(q) ==
    /\ pc[q] = "inner"
    /\ Goto(q, IF kind[q] = "resume" THEN "work" ELSE "claim")
    /\ UNCHANGED <<run, section, active, mark, guard, locals, counters>>

\* No plan: the report is the primary result alone and has no ledger.
NoPlan(q) ==
    /\ pc[q] = "inner"
    /\ FaultIfResumed(q, "scope")
    /\ Goto(q, "untracked")
    /\ UNCHANGED <<run, section, active, mark, guard, locals, composes>>

\* Mutant: one section row too many, off the plan's end.
Fresh_OffByOne(n) ==
    [i \in Sections \union {n + 1} |-> IF i <= n + 1 THEN "queued" ELSE "none"]

Fresh(n) == [i \in Sections |-> IF i <= n THEN "queued" ELSE "none"]
FreshWork(n) == [i \in Sections |-> IF i <= n THEN "todo" ELSE "none"]

\* The transaction of deep_run_start for a plan of n sections.
Rebuild(n) ==
    /\ run' = "running"
    /\ section' = Fresh(n)

Open(q) ==
    /\ pc[q] = "open"
    /\ \E n \in 0 .. MaxSections :
          /\ Rebuild(n)
          /\ work' = [work EXCEPT ![q] = FreshWork(n)]
    /\ Goto(q, "work")
    /\ UNCHANGED <<active, mark, kind, guard, seen, goal, out, counters>>

\* PostgreSQL fails while the ledger is opened: the guard drops with the error,
\* the commit may have landed, and the report goes on without a ledger.
OpenFails(q) ==
    /\ pc[q] = "open"
    /\ Fault("pg")
    /\ \/ UNCHANGED <<run, section>>
       \/ \E n \in 0 .. MaxSections : Rebuild(n)
    /\ DropGuard(q)
    /\ Goto(q, "untracked")
    /\ UNCHANGED <<mark, locals, composes>>

(***************************************************************************)
(* execute_plan_sections                                                   *)
(***************************************************************************)
Closed(q, i) == work[q][i] \in {"none", "restored", "over"}

SetWork(q, i, state) == work' = [work EXCEPT ![q][i] = state]

\* ordered_bounded: section i starts once fewer than Width earlier ones are open.
StartSection(q, i) ==
    /\ pc[q] = "work"
    /\ work[q][i] = "todo"
    /\ \A j \in 1 .. (i - Width) : Closed(q, j)
    /\ SetWork(q, i, "running")
    /\ UNCHANGED <<run, section, active, mark, pc, kind, guard, seen, goal, out,
                   counters>>

RunSection(q, i) ==
    /\ pc[q] = "work"
    /\ work[q][i] = "running"
    /\ \E result \in {"good", "bad"} : SetWork(q, i, result)
    /\ UNCHANGED <<run, section, active, mark, pc, kind, guard, seen, goal, out,
                   counters>>

\* deep_section_finish.
SaveSection(q, i) ==
    /\ pc[q] = "work"
    /\ work[q][i] \in {"good", "bad"}
    /\ section' = [section EXCEPT ![i] =
                     IF work[q][i] = "good" THEN "done" ELSE "failed"]
    /\ SetWork(q, i, "over")
    /\ UNCHANGED <<run, active, mark, pc, kind, guard, seen, goal, out, counters>>

\* The statement fails before it takes effect: only a warning.
SaveSectionFails(q, i) ==
    /\ pc[q] = "work"
    /\ work[q][i] \in {"good", "bad"}
    /\ Fault("pg")
    /\ SetWork(q, i, "over")
    /\ UNCHANGED <<run, section, active, mark, pc, kind, guard, seen, goal, out,
                   composes>>

SectionsOver(q) ==
    /\ pc[q] = "work"
    /\ \A i \in Sections : Closed(q, i)
    /\ Goto(q, "report")
    /\ UNCHANGED <<run, section, active, mark, guard, locals, counters>>

(***************************************************************************)
(* The report and the end of the run                                       *)
(***************************************************************************)
\* What compose_inner does with the report: with a ledger it writes the run's
\* end state, without one it just returns.
Conclude(q, state, answer) ==
    /\ pc[q] \in {"report", "untracked"}
    /\ goal' = [goal EXCEPT ![q] = state]
    /\ out' = [out EXCEPT ![q] = answer]
    /\ Goto(q, IF pc[q] = "report" THEN "finish" ELSE "return")
    /\ UNCHANGED <<run, section, active, mark, kind, guard, seen, work, composes>>

SaveReport(q) == Conclude(q, "done", "ok") /\ UNCHANGED faults
SaveReportFails(q) == Conclude(q, "failed", "err") /\ Fault("artifact")
EmptyReport(q) == Conclude(q, "failed", "ok") /\ Fault("empty")

\* deep_run_finish, first statement: the run's end state, whatever it was.
FinishRow(q) ==
    /\ pc[q] \in {"finish", "abort"}
    /\ run' = goal[q]
    /\ Goto(q, IF pc[q] = "finish" THEN "settle" ELSE "abortSettle")
    /\ UNCHANGED <<section, active, mark, guard, locals, counters>>

\* It fails, having taken effect or not, and the second one is not tried.
FinishRowFails(q) ==
    /\ pc[q] \in {"finish", "abort"}
    /\ Fault("pg")
    /\ run' \in {run, goal[q]}
    /\ IF pc[q] = "finish"
       THEN Goto(q, "return") /\ UNCHANGED <<active, guard, locals>>
       ELSE Leave(q)
    /\ UNCHANGED <<section, mark, composes>>

\* deep_run_finish, second statement: no section stays queued.
Settle(q) ==
    /\ pc[q] \in {"settle", "abortSettle"}
    /\ section' = [i \in Sections |->
                     IF section[i] \in {"queued", "running"} THEN "failed"
                                                             ELSE section[i]]
    /\ IF pc[q] = "settle"
       THEN Goto(q, "return") /\ UNCHANGED <<active, guard, locals>>
       ELSE Leave(q)
    /\ UNCHANGED <<run, mark, counters>>

SettleFails(q) ==
    /\ pc[q] \in {"settle", "abortSettle"}
    /\ Fault("pg")
    /\ IF pc[q] = "settle"
       THEN Goto(q, "return") /\ UNCHANGED <<active, guard, locals>>
       ELSE Leave(q)
    /\ UNCHANGED <<run, section, mark, composes>>

\* compose_inner returns; resume turns an error into one more deep_run_finish.
Return(q) ==
    /\ pc[q] = "return"
    /\ mark' = IF out[q] = "ok" THEN mark \union {"done"} ELSE mark
    /\ IF kind[q] = "resume" /\ out[q] = "err"
       THEN /\ Goto(q, "abort")
            /\ goal' = [goal EXCEPT ![q] = "failed"]
            /\ UNCHANGED <<active, guard, kind, seen, work, out>>
       ELSE Leave(q)
    /\ UNCHANGED <<run, section, counters>>

(***************************************************************************)
(* Disconnects and restarts.  A failed statement whose handler just returns *)
(* is a disconnect before or after the statement took effect.               *)
(***************************************************************************)
Cancel(q) ==
    /\ pc[q] # "idle"
    /\ Fault("cancel")
    /\ Leave(q)
    /\ UNCHANGED <<run, section, mark, composes>>

\* Memory is lost, the ledger is not.
Crash ==
    /\ Fault("crash")
    /\ active' = FALSE
    /\ mark' = {}
    /\ pc' = [q \in Requests |-> "idle"]
    /\ kind' = [q \in Requests |-> "compose"]
    /\ guard' = [q \in Requests |-> FALSE]
    /\ seen' = [q \in Requests |-> "absent"]
    /\ work' = [q \in Requests |-> NoWork]
    /\ goal' = [q \in Requests |-> "absent"]
    /\ out' = [q \in Requests |-> "none"]
    /\ UNCHANGED <<run, section, composes>>

Step(q) ==
    \/ Load(q) \/ Judge(q) \/ Reap(q) \/ Claim(q) \/ Flip(q) \/ ReadPlan(q)
    \/ AnswerEarly(q) \/ PlanReady(q) \/ NoPlan(q) \/ Open(q)
    \/ \E i \in Sections : StartSection(q, i) \/ RunSection(q, i) \/ SaveSection(q, i)
    \/ SectionsOver(q) \/ SaveReport(q) \/ FinishRow(q) \/ Settle(q) \/ Return(q)

Failure(q) ==
    \/ QueryFails(q) \/ OpenFails(q) \/ \E i \in Sections : SaveSectionFails(q, i)
    \/ SaveReportFails(q) \/ EmptyReport(q) \/ FinishRowFails(q) \/ SettleFails(q)
    \/ Cancel(q)

Next ==
    \/ \E q \in Requests : StartCompose(q) \/ StartResume(q) \/ Step(q) \/ Failure(q)
    \/ Crash

Spec == Init /\ [][Next]_vars

(***************************************************************************)
(* A handler that is not interrupted goes on, and the owner of an          *)
(* unfinished report asks again.                                           *)
(***************************************************************************)
Fairness == \A q \in Requests : WF_vars(Step(q)) /\ WF_vars(StartResume(q))
FairSpec == Spec /\ Fairness

(***************************************************************************)
(* The progress endpoint                                                   *)
(***************************************************************************)
ProgressDone == mark # {} \/ run \in {"done", "failed"}

(***************************************************************************)
(* Properties                                                              *)
(***************************************************************************)
\* Executors past the point where the ledger became theirs.
Executing == {"plan", "inner", "work", "report", "untracked", "finish", "settle",
              "return", "abort", "abortSettle"}

Executor(q) == guard[q] /\ pc[q] \in Executing

Busy == \E q \in Requests : Executor(q)

\* The values the variables take.
TypeOK ==
    /\ run \in RunStates
    /\ section \in [Sections -> SectionStates]
    /\ active \in BOOLEAN
    /\ mark \in SUBSET {"done", "failed"}
    /\ pc \in [Requests -> Steps]
    /\ kind \in [Requests -> {"compose", "resume"}]
    /\ guard \in [Requests -> BOOLEAN]
    /\ seen \in [Requests -> RunStates]
    /\ work \in [Requests -> [Sections -> WorkStates]]
    /\ goal \in [Requests -> {"absent", "done", "failed"}]
    /\ out \in [Requests -> {"none", "ok", "silent", "err"}]
    /\ composes \in Nat
    /\ faults \in Nat

\* At most one handler of the run owns a RunGuard, and the run id is in
\* ACTIVE_RUNS exactly while one does: the gate neither admits two executors
\* (the doc of ACTIVE_RUNS) nor stays shut after one is cancelled or fails.
SingleExecutor ==
    /\ \A q, r \in Requests : guard[q] /\ guard[r] => q = r
    /\ active <=> \E q \in Requests : guard[q]

\* While an executor runs sections, a section is finished in the ledger exactly
\* because this executor restored it or finished it: nobody else writes section
\* results under it, and no finished section is waiting to run once more.
Agrees(q) ==
    \A i \in Sections :
        /\ work[q][i] = "restored" => section[i] = "done"
        /\ section[i] = "done" => work[q][i] \in {"restored", "over"}
        /\ work[q][i] = "none" <=> section[i] = "none"

LedgerAgrees ==
    \A q \in Requests :
        guard[q] /\ pc[q] \in {"work", "report"} =>
            run \in {"running", "interrupted"} /\ Agrees(q)

\* The handlers together behave as the one worker of RunLedger: results are
\* kept across crashes, disconnects and resumes, and done is final.
LedgerState == CASE run = "absent" -> "none"
                 [] run = "done" -> "done"
                 [] OTHER -> "open"

LedgerResults == {i \in Sections : section[i] = "done"}

Ledger == INSTANCE RunLedger WITH
    Sections <- Sections,
    state <- LedgerState,
    results <- LedgerResults,
    busy <- Busy

OneWorker == Ledger!Spec

(***************************************************************************)
(* The inductive invariant: which handlers own the gate, and what the row  *)
(* and the sections look like at each step of the one that does.           *)
(***************************************************************************)
GuardHeld(q) ==
    /\ pc[q] \in {"idle", "load", "judge", "reap", "claim"} => ~guard[q]
    /\ pc[q] \in {"open", "flip", "plan", "work", "report", "finish", "settle",
                  "abort", "abortSettle"} => guard[q]
    /\ pc[q] \in {"inner", "untracked", "return"} /\ kind[q] = "resume" => guard[q]
    /\ pc[q] \in {"inner", "untracked"} /\ guard[q] => kind[q] = "resume"
    /\ pc[q] \in {"idle", "open"} => kind[q] = "compose"
    /\ pc[q] \in {"flip", "plan"} => kind[q] = "resume"

Unfinished == run \notin {"absent", "done"}

RowOwned(q) ==
    /\ guard[q] /\ pc[q] \in {"plan", "inner", "work", "report", "untracked", "finish"}
          => run \in {"running", "interrupted"}
    /\ pc[q] \in {"abort", "abortSettle"} => Unfinished /\ goal[q] = "failed"
    /\ pc[q] \in {"finish", "settle"} => goal[q] \in {"done", "failed"}
    /\ pc[q] \in {"finish", "settle"} /\ out[q] = "err" => goal[q] = "failed"
    /\ guard[q] /\ pc[q] \in {"settle", "return"} /\ out[q] = "err" => Unfinished

SectionsOwned(q) ==
    guard[q] /\ pc[q] \in {"inner", "work", "report"} => Agrees(q)

OwnedBy(q) == GuardHeld(q) /\ RowOwned(q) /\ SectionsOwned(q)

\* Together with SingleExecutor: the gate's owner alone moves the run, and at
\* each of its steps the ledger is what that step expects.
Owned == \A q \in Requests : OwnedBy(q)

IInv == TypeOK /\ SingleExecutor /\ Owned

\* An executor never holds the gate for ever.
GateReopens == active ~> ~active

\* Once faults stop, an unfinished run whose owner keeps resuming it is finished:
\* no order of crashes, cancellations and lost statements leaves the ledger where
\* resume refuses it for ever.  A run opened with an empty plan is the exception.
HasPlan == \E i \in Sections : section[i] # "none"
EventuallyDone == HasPlan ~> (run = "done" \/ ~HasPlan)

\* deep_api.rs:3065, "interrupted" is a run whose process died while it ran: no
\* executor is working on it.
InterruptedMeansDead == run = "interrupted" => ~Busy

\* deep_api.rs:5631, a resume that returns a result has already closed the run.
ReturnedMeansClosed ==
    \A q \in Requests :
        kind[q] = "resume" /\ pc[q] = "return" /\ out[q] \in {"ok", "silent"} =>
            run \in {"done", "failed"}

\* web/src/App.vue:2185, the panel of a resumed report comes alive again: the
\* page, which polls until progress says done, is not told so while the report's
\* sections run.
ResumedIsPolled ==
    \A q \in Requests :
        kind[q] = "resume" /\ pc[q] = "work" => ~ProgressDone
============================================================================
