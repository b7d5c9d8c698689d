---------------------------- MODULE SourceSwitch ----------------------------
(***************************************************************************)
(* Switching the analysis database while questions and rebuilds of the     *)
(* relation graph are running (crates/connector/src/mysql.rs and graph.rs, *)
(* crates/server/src/admin_api.rs, settings_api.rs and main.rs,            *)
(* crates/agent/src/answerers/graph.rs).                                   *)
(*                                                                         *)
(* The server has one pool of connections, replaced as a whole together    *)
(* with the name of its target.  The graph is a copy of one warehouse kept *)
(* in PostgreSQL and shared by every process.  GraphAvailability says in   *)
(* memory whose copy it is; its generation moves when a switch begins and  *)
(* when a rebuild begins, and a question that used the graph compares the  *)
(* generation before and after.  A marker in the graph says the same to    *)
(* other processes.                                                        *)
(*                                                                         *)
(* An action is the code between two accesses of the shared state.  A      *)
(* handler is a future that is dropped at an await when its client leaves. *)
(***************************************************************************)
EXTENDS Integers, FiniteSets

CONSTANTS
    Names,       \* the analysis targets of the catalogue
    Versions,    \* what a name may be made to point at, a server of a type
    Warehouses,  \* those of type warehouse
    Fallback,    \* BOOT_FALLBACK_TARGET
    None,        \* no name
    Loop,        \* the task that rebuilds at start-up and every night
    Refreshes,   \* slots for the tasks a switch spawns
    Askers,      \* questions in progress
    MaxGen       \* how many generations the model follows

ASSUME NamesAssumption ==
    Fallback \in Names /\ Warehouses \subseteq Versions /\ None \notin Names /\ Versions # {}
ASSUME JobsAssumption == Loop \notin Refreshes /\ None \notin Refreshes \union {Loop}
ASSUME BoundsAssumption == MaxGen \in Nat

Jobs == Refreshes \union {Loop}

\* A database: the name the catalogue gives it and what is behind the name.
Sources == [name : Names, url : Versions]
NoSource == [name |-> None, url |-> None]
Parts == {"edges", "dims", "catalog"}

VARIABLES
    pool,     \* PoolState: the database behind ReadOnlyMySql
    kv,       \* meta.kv['mysql_target']
    catalog,  \* settings.json, mysql_targets
    avail,    \* GraphAvailability
    graph,    \* what is in the AGE graph: pairs of a part and the database it came from
    marker,   \* GraphMeta.target
    sw,       \* the handler that holds settings_write
    job,      \* graph_sync_and_record in the tasks that run it
    lock,     \* sync_lock: the job that has it, or None
    ask,      \* questions
    crossed   \* history: a rebuild could not notice that the pool was replaced

vars == <<pool, kv, catalog, avail, graph, marker, sw, job, lock, ask, crossed>>
source == <<pool, kv, catalog>>
copy == <<graph, marker>>

NoAvail == [desired |-> None, graph |-> None, gen |-> 0]
Avail == [desired : Names \union {None}, graph : Names \union {None}, gen : Nat]

\* GraphAvailability::lease: whether a question about database t may use the graph.
Ready(t) == t # None /\ avail.desired = t /\ avail.graph = t

\* Mutant: the generation runs backwards.
NextGeneration_Back(t) == [desired |-> t, graph |-> None, gen |-> avail.gen - 1]

\* What begin_sync and invalidate do: a new generation, and no graph.
NextGeneration(t) == [desired |-> t, graph |-> None, gen |-> avail.gen + 1]

\* A finished copy of one database that goes by the name t.
WholeCopy(content, t) ==
    \E s \in Sources :
        /\ s.name = t
        /\ {<<"edges", s>>, <<"catalog", s>>} \subseteq content
        /\ \A piece \in content : piece[2] = s

IdleSw == [pc |-> "idle", kind |-> "none", to |-> NoSource, old |-> NoSource,
           before |-> NoAvail, gen |-> 0, reply |-> "none"]
IdleJob == [pc |-> "off", target |-> None, gen |-> 0, edges |-> NoSource, dims |-> NoSource]
IdleAsk == [pc |-> "idle", name |-> None, gen |-> 0, whole |-> FALSE]

SwSteps == {"idle", "swap", "kv", "rollback", "patch", "mark"}
JobSteps == {"off", "due", "begin", "edges", "check", "dims", "drop",
             "build", "catalog", "recheck", "marker", "ready"}
AskSteps == {"idle", "choose", "read", "recheck"}

Init ==
    /\ \E v \in Versions : catalog = [n \in Names |-> v]
    /\ kv \in Names
    /\ pool = [name |-> kv, url |-> catalog[kv]]
    /\ avail = NoAvail
    /\ graph = {}
    /\ marker = None
    /\ sw = IdleSw
    /\ job = [j \in Jobs |-> [IdleJob EXCEPT !.pc = IF j = Loop THEN "due" ELSE "off"]]
    /\ lock = None
    /\ ask = [q \in Askers |-> IdleAsk]
    /\ crossed = FALSE

\* The job that is rebuilding the graph, and whether its outcome would still be believed.
Rebuilding(j) == job[j].pc \notin {"off", "due", "begin"}
Believed(j, a) == Rebuilding(j) /\ job[j].gen = a.gen

(***************************************************************************)
(* persist_db_target, under settings_write                                 *)
(***************************************************************************)

\* Up to the first await: the old source from the catalogue, the graph closed.
Invalidate(to, kind) ==
    /\ avail.gen < MaxGen
    /\ sw' = [pc |-> "swap", kind |-> kind, to |-> to,
              old |-> [name |-> pool.name, url |-> catalog[pool.name]],
              before |-> avail, gen |-> avail.gen + 1, reply |-> "none"]
    /\ avail' = NextGeneration(to.name)
    /\ UNCHANGED <<source, copy, job, lock, ask, crossed>>

\* A handler gets settings_write.  (A slot is free for the task it may spawn.)
Locked == sw.pc = "idle" /\ \E r \in Refreshes : job[r].pc = "off"

\* set_db_target: any registered name, the current one included.
SetDbTarget ==
    /\ Locked
    /\ \E n \in Names : Invalidate([name |-> n, url |-> catalog[n]], "set")

\* put_mysql_target for the current target: the same name, another server behind it, or
\* another type.
PutCurrentTarget ==
    /\ Locked
    /\ \E v \in Versions : Invalidate([name |-> pool.name, url |-> v], "edit")

\* put_mysql_target for another target writes the catalogue only.
PutOtherTarget ==
    /\ sw.pc = "idle"
    /\ \E n \in Names \ {pool.name}, v \in Versions : catalog' = [catalog EXCEPT ![n] = v]
    /\ UNCHANGED <<pool, kv, avail, copy, sw, job, lock, ask, crossed>>

\* swap_pool_named replaces pool, capability and name under one lock.  A rebuild that
\* is still believed may not notice it: the name it compares is the one it expects.
Install(p, a, noticed) ==
    /\ pool' = p
    /\ avail' = a
    /\ crossed' = (crossed \/ \E j \in Jobs : Believed(j, a) /\ ~noticed[j])

\* Mutant: restored although a rebuild has begun in the meantime.
Restored_Always == sw.before

\* restore_after_failed_switch: only if nothing moved the generation since Invalidate.
Restored == IF avail.gen = sw.gen THEN sw.before ELSE avail

EndSwitch(reply) == sw' = [IdleSw EXCEPT !.reply = reply]

Swap ==
    /\ sw.pc = "swap"
    /\ Install(sw.to, avail, [j \in Jobs |-> job[j].target # sw.to.name])
    /\ sw' = [sw EXCEPT !.pc = "kv"]
    /\ UNCHANGED <<kv, catalog, copy, job, lock, ask>>

SwapFails ==
    /\ sw.pc = "swap"
    /\ avail' = Restored
    /\ EndSwitch("error")
    /\ UNCHANGED <<source, copy, job, lock, ask, crossed>>

\* The target is kept.  An edit goes on to settings.json; an undone one ends here.
WriteKv ==
    /\ sw.pc = "kv"
    /\ kv' = sw.to.name
    /\ \/ sw.kind = "set" /\ sw' = [sw EXCEPT !.pc = "mark"]
       \/ sw.kind = "edit" /\ sw' = [sw EXCEPT !.pc = "patch"]
       \/ sw.kind = "undo" /\ EndSwitch("error")
    /\ UNCHANGED <<pool, catalog, avail, copy, job, lock, ask, crossed>>

\* Mutant: the error of the write is only logged.
WriteKvFails_Logged ==
    /\ sw.pc = "kv"
    /\ kv' \in {kv, sw.to.name}
    /\ sw' = [sw EXCEPT !.pc = "mark"]
    /\ UNCHANGED <<pool, catalog, avail, copy, job, lock, ask, crossed>>

\* The write is answered with an error; it may have been committed all the same.
WriteKvFails ==
    /\ sw.pc = "kv"
    /\ kv' \in {kv, sw.to.name}
    /\ sw' = [sw EXCEPT !.pc = "rollback"]
    /\ UNCHANGED <<pool, catalog, avail, copy, job, lock, ask, crossed>>

Rollback ==
    /\ sw.pc = "rollback"
    /\ Install(sw.old, Restored, [j \in Jobs |-> FALSE])
    /\ EndSwitch("error")
    /\ UNCHANGED <<kv, catalog, copy, job, lock, ask>>

RollbackFails ==
    /\ sw.pc = "rollback"
    /\ EndSwitch("error")
    /\ UNCHANGED <<source, avail, copy, job, lock, ask, crossed>>

\* put_mysql_target writes settings.json after the switch ...
Patch ==
    /\ sw.pc = "patch"
    /\ catalog' = [catalog EXCEPT ![sw.to.name] = sw.to.url]
    /\ sw' = [sw EXCEPT !.pc = "mark"]
    /\ UNCHANGED <<pool, kv, avail, copy, job, lock, ask, crossed>>

\* ... and when it cannot, goes through the whole switch again, back to the old server.
PatchFails ==
    /\ sw.pc = "patch"
    /\ Invalidate([sw.to EXCEPT !.url = catalog[sw.to.name]], "undo")

\* after_db_target_switch: for a warehouse, a task that refreshes schema and graph.
AfterSwitch ==
    /\ sw.pc = "mark"
    /\ IF pool.url \in Warehouses
       THEN \E r \in Refreshes :
                /\ job[r].pc = "off"
                /\ job' = [job EXCEPT ![r].pc = "due"]
       ELSE UNCHANGED job
    /\ EndSwitch("ok")
    /\ UNCHANGED <<source, avail, copy, lock, ask, crossed>>

\* The client leaves: the future ends at the await it is in.  A write in flight may be done.
DropHandler ==
    /\ sw.pc \in {"swap", "kv", "rollback", "mark"}
    /\ kv' \in IF sw.pc = "kv" THEN {kv, sw.to.name} ELSE {kv}
    /\ EndSwitch("dropped")
    /\ UNCHANGED <<pool, catalog, avail, copy, job, lock, ask, crossed>>

SwitchStep ==
    \/ SetDbTarget \/ PutCurrentTarget \/ PutOtherTarget
    \/ Swap \/ SwapFails \/ WriteKv \/ WriteKvFails \/ Rollback \/ RollbackFails
    \/ Patch \/ PatchFails \/ AfterSwitch \/ DropHandler

(***************************************************************************)
(* graph_sync_and_record and graph::sync                                   *)
(***************************************************************************)

Goto(j, step) == job' = [job EXCEPT ![j].pc = step]
At(j, step) == job[j].pc = step

\* `anyhow::ensure!`, `?`, or a timeout: the round fails and the guard of sync_lock is dropped.
Fail(j) ==
    /\ job' = [job EXCEPT ![j] = IdleJob]
    /\ lock' = None

\* The loop sleeps until three in the morning; any time will do.
Night ==
    /\ At(Loop, "off")
    /\ Goto(Loop, "due")
    /\ UNCHANGED <<source, avail, copy, sw, lock, ask, crossed>>

\* graph_sync_and_record and the first lines of sync: nothing to do unless the target is
\* a warehouse; with sync_lock, the name of the target, before the generation is moved.
ReadTarget(j) ==
    /\ At(j, "due")
    /\ lock = None
    /\ IF pool.url \in Warehouses
       THEN /\ lock' = j
            /\ job' = [job EXCEPT ![j].pc = "begin", ![j].target = pool.name]
       ELSE Goto(j, "off") /\ UNCHANGED lock
    /\ UNCHANGED <<source, avail, copy, sw, ask, crossed>>

BeginSync(j) ==
    /\ At(j, "begin")
    /\ avail.gen < MaxGen
    /\ avail' = NextGeneration(job[j].target)
    /\ job' = [job EXCEPT ![j].pc = "edges", ![j].gen = avail.gen + 1]
    /\ UNCHANGED <<source, copy, sw, lock, ask, crossed>>

\* raw_all: a snapshot of the pool, refused when it is not a warehouse.
ReadPart(j, at, next, part) ==
    /\ At(j, at)
    /\ IF pool.url \in Warehouses
       THEN /\ job' = [job EXCEPT ![j].pc = next, ![j][part] = pool]
            /\ UNCHANGED lock
       ELSE Fail(j)
    /\ UNCHANGED <<source, avail, copy, sw, ask, crossed>>

ReadEdges(j) == ReadPart(j, "edges", "check", "edges")
ReadDims(j) == ReadPart(j, "dims", "drop", "dims")

\* "graph source target changed ...": the name is compared, and nothing else.
EnsureTarget(j, at, next) ==
    /\ At(j, at)
    /\ IF pool.url \in Warehouses /\ pool.name = job[j].target
       THEN Goto(j, next) /\ UNCHANGED lock
       ELSE Fail(j)
    /\ UNCHANGED <<source, avail, copy, sw, ask, crossed>>

CheckEdges(j) == EnsureTarget(j, "check", "dims")
CheckBuilt(j) == EnsureTarget(j, "recheck", "marker")

\* drop_graph and create_graph; the marker goes with the graph.
DropGraph(j) ==
    /\ At(j, "drop")
    /\ graph' = {} /\ marker' = None
    /\ Goto(j, "build")
    /\ UNCHANGED <<source, avail, sw, lock, ask, crossed>>

Insert(j, at, next, pieces) ==
    /\ At(j, at)
    /\ graph' = graph \union pieces
    /\ Goto(j, next)
    /\ UNCHANGED <<source, avail, marker, sw, lock, ask, crossed>>

BuildEdges(j) == Insert(j, "build", "catalog", {<<"edges", job[j].edges>>})

\* The province edges, left out with a warning when they fail, and the catalogue, which
\* is the same for every target.
BuildCatalog(j) ==
    \E dims \in SUBSET {<<"dims", job[j].dims>>} :
        Insert(j, "catalog", "recheck", dims \union {<<"catalog", job[j].edges>>})

WriteMarker(j) ==
    /\ At(j, "marker")
    /\ marker' = job[j].target
    /\ Goto(j, "ready")
    /\ UNCHANGED <<source, avail, graph, sw, lock, ask, crossed>>

\* mark_ready: refused when a switch or another rebuild has moved the generation.
MarkReady(j) ==
    /\ At(j, "ready")
    /\ avail' = IF avail.gen = job[j].gen /\ avail.desired = job[j].target
                THEN [avail EXCEPT !.graph = job[j].target]
                ELSE avail
    /\ Fail(j)
    /\ UNCHANGED <<source, copy, sw, ask, crossed>>

\* A statement of the round fails or takes too long.
RoundFails(j) ==
    /\ job[j].pc \in {"edges", "dims", "drop", "build", "catalog", "marker"}
    /\ Fail(j)
    /\ UNCHANGED <<source, avail, copy, sw, ask, crossed>>

JobStep(j) ==
    \/ ReadTarget(j) \/ BeginSync(j)
    \/ ReadEdges(j) \/ CheckEdges(j) \/ ReadDims(j)
    \/ DropGraph(j) \/ BuildEdges(j) \/ BuildCatalog(j)
    \/ CheckBuilt(j) \/ WriteMarker(j) \/ MarkReady(j) \/ RoundFails(j)

(***************************************************************************)
(* A question                                                              *)
(***************************************************************************)

SetAsk(q, fields) == ask' = [ask EXCEPT ![q] = fields]
AskOnly == UNCHANGED <<source, avail, copy, sw, job, lock, crossed>>

\* main_source_name is read once, when the question arrives.
Arrive(q) ==
    /\ ask[q].pc = "idle"
    /\ SetAsk(q, [IdleAsk EXCEPT !.pc = "choose", !.name = pool.name])
    /\ AskOnly

\* GraphAnswerer: accept tests the pool and the graph, answer takes the lease.
TakeLease(q) ==
    /\ ask[q].pc = "choose"
    /\ pool.url \in Warehouses
    /\ Ready(ask[q].name)
    /\ SetAsk(q, [ask[q] EXCEPT !.pc = "read", !.gen = avail.gen, !.whole = TRUE])
    /\ AskOnly

\* A query of try_graph, which may ask the graph again what the words of the question
\* are: all that matters of the result is what the graph was at each of the reads.
ReadGraph(q) ==
    /\ ask[q].pc = "read"
    /\ \E pc \in {"read", "recheck"} :
        SetAsk(q, [ask[q] EXCEPT !.pc = pc,
                                 !.whole = @ /\ WholeCopy(graph, ask[q].name)])
    /\ AskOnly

\* Mutant: only the target is compared, as if the lease had no generation.
AnswerGraph_TargetOnly(q) ==
    /\ ask[q].pc = "recheck"
    /\ SetAsk(q, IF Ready(ask[q].name)
                 THEN IdleAsk
                 ELSE [IdleAsk EXCEPT !.pc = "choose", !.name = ask[q].name])
    /\ AskOnly

\* lease_is_current, else the result is thrown away and another route is tried.
AnswerGraph(q) ==
    /\ ask[q].pc = "recheck"
    /\ SetAsk(q, IF Ready(ask[q].name) /\ avail.gen = ask[q].gen
                 THEN IdleAsk
                 ELSE [IdleAsk EXCEPT !.pc = "choose", !.name = ask[q].name])
    /\ AskOnly

\* Every SQL route: execution_target takes its own snapshot of the pool.
AnswerSql(q) ==
    /\ ask[q].pc = "choose"
    /\ SetAsk(q, IdleAsk)
    /\ AskOnly

AskStep(q) == Arrive(q) \/ TakeLease(q) \/ ReadGraph(q) \/ AnswerGraph(q) \/ AnswerSql(q)

(***************************************************************************)
(* Restarts                                                                *)
(***************************************************************************)

\* db_boot_target: the kept name, or the fallback when it cannot be read.
Restart ==
    /\ \E n \in {kv, Fallback} :
           pool' = [name |-> n, url |-> catalog[n]]
    /\ avail' = NoAvail
    /\ sw' = IdleSw
    /\ job' = [j \in Jobs |-> [IdleJob EXCEPT !.pc = IF j = Loop THEN "due" ELSE "off"]]
    /\ lock' = None
    /\ ask' = [q \in Askers |-> IdleAsk]
    /\ crossed' = FALSE
    /\ UNCHANGED <<kv, catalog, copy>>

Next ==
    \/ SwitchStep
    \/ Night
    \/ \E j \in Jobs : JobStep(j)
    \/ \E q \in Askers : AskStep(q)
    \/ Restart

Spec == Init /\ [][Next]_vars

(***************************************************************************)
(* Properties                                                              *)
(***************************************************************************)

SwType == [pc : SwSteps, kind : {"none", "set", "edit", "undo"},
           to : Sources \union {NoSource}, old : Sources \union {NoSource},
           before : Avail, gen : Nat, reply : {"none", "ok", "error", "dropped"}]
JobType == [pc : JobSteps, target : Names \union {None}, gen : Nat,
            edges : Sources \union {NoSource}, dims : Sources \union {NoSource}]
AskType == [pc : AskSteps, name : Names \union {None}, gen : Nat, whole : BOOLEAN]

TypeOK ==
    /\ pool \in Sources /\ kv \in Names /\ catalog \in [Names -> Versions]
    /\ avail \in Avail
    /\ graph \subseteq Parts \X Sources
    /\ marker \in Names \union {None}
    /\ sw \in SwType
    /\ job \in [Jobs -> JobType]
    /\ lock \in Jobs \union {None}
    /\ ask \in [Askers -> AskType]
    /\ crossed \in BOOLEAN

\* The exception of the first two: a rebuild that could not notice that the pool was
\* replaced under it (crossed).

\* While questions may use the graph it is the finished copy of one database,
\* the one they name, whatever switches, failed switches and rebuilds overlap.
ReadyIsWhole == ~crossed => \A t \in Names : Ready(t) => WholeCopy(graph, t)

\* An answer the graph gives was read from such a copy, although a rebuild may drop
\* the graph between the lease and the query, and between the query and the answer.
GraphAnswersWhole ==
    [][\A q \in Askers :
          AnswerGraph(q) /\ ask'[q].pc = "idle" /\ ~crossed
              => ask[q].whole]_vars

\* The same without the exceptions.
ReadyIsAlwaysWhole == \A t \in Names : Ready(t) => WholeCopy(graph, t)

\* When the last switch was answered with success, a restart comes back to its target.
SuccessSurvivesRestart == sw.pc = "idle" /\ sw.reply = "ok" => kv = pool.name

\* swap_pool_named: pool and name are committed together, so that an answer never
\* shows its rows under the name of another database.
RowsAreOfTheirSource ==
    [][\A q \in Askers : AnswerSql(q) => pool.name = ask[q].name]_vars
=============================================================================
