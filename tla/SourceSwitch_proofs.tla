------------------------ MODULE SourceSwitch_proofs ------------------------
(***************************************************************************)
(* What holds of SourceSwitch for any catalogue, any number of tasks and   *)
(* questions, and any bound on the generations.                            *)
(***************************************************************************)
EXTENDS SourceSwitch, TLAPS

USE NamesAssumption, JobsAssumption, BoundsAssumption

(***************************************************************************)
(* Types                                                                   *)
(***************************************************************************)

\* TypeOK, and what a step in the middle of a switch or of a rebuild has at hand.
Typed ==
    /\ TypeOK
    /\ sw.pc # "idle" => sw.to \in Sources /\ sw.old \in Sources
    /\ \A j \in Jobs :
           /\ job[j].pc \notin {"off", "due"} => job[j].target \in Names
           /\ job[j].pc \in {"check", "dims", "drop", "build", "catalog", "recheck",
                             "marker", "ready"} => job[j].edges \in Sources
           /\ job[j].pc \in {"drop", "build", "catalog", "recheck", "marker", "ready"}
                  => job[j].dims \in Sources

LEMMA IdleTypes == IdleSw \in SwType /\ IdleJob \in JobType /\ IdleAsk \in AskType
BY DEF IdleSw, IdleJob, IdleAsk, SwType, JobType, AskType, SwSteps, JobSteps, AskSteps,
       NoAvail, Avail

LEMMA TypedInit == Init => Typed
<1> SUFFICES ASSUME Init PROVE Typed
  OBVIOUS
<1>1. PICK v \in Versions : catalog = [n \in Names |-> v]
  BY DEF Init
<1>2. catalog \in [Names -> Versions]
  BY <1>1
<1>3. pool \in Sources
  BY <1>2 DEF Init, Sources
<1>4. [IdleJob EXCEPT !.pc = "due"] \in JobType /\ [IdleJob EXCEPT !.pc = "off"] \in JobType
  BY IdleTypes DEF JobType, JobSteps
<1>5. job \in [Jobs -> JobType]
  BY <1>4 DEF Init, JobType
<1>6. ask \in [Askers -> AskType]
  BY IdleTypes DEF Init
<1>7. TypeOK
  BY <1>2, <1>3, <1>5, <1>6, IdleTypes DEF Init, TypeOK, SwType, JobType, AskType, NoAvail, Avail
<1>8. \A j \in Jobs : job[j].pc \in {"off", "due"}
  BY DEF Init, IdleJob
<1>9. sw.pc = "idle"
  BY DEF Init, IdleSw
<1> QED
  BY <1>7, <1>8, <1>9 DEF Typed

LEMMA AvailNext ==
    ASSUME avail \in Avail, NEW t \in Names
    PROVE  /\ NextGeneration(t) \in Avail
           /\ NextGeneration(t).gen = avail.gen + 1
           /\ NextGeneration(t).graph = None
           /\ NextGeneration(t).desired = t
BY DEF Avail, NextGeneration

\* The steps of the handler that holds settings_write keep the types.
LEMMA TypedSwitch == Typed /\ SwitchStep => Typed'
<1> SUFFICES ASSUME Typed, SwitchStep PROVE Typed'
  OBVIOUS
<1> USE DEF Typed, TypeOK
<1>r. Restored \in Avail
  BY DEF Restored, SwType
<1>i. \A to \in Sources, kind \in {"set", "edit", "undo"} :
          Invalidate(to, kind) /\ UNCHANGED catalog => Typed'
  <2> SUFFICES ASSUME NEW to \in Sources, NEW kind \in {"set", "edit", "undo"},
                      Invalidate(to, kind)
               PROVE Typed'
    OBVIOUS
  <2>1. avail' \in Avail
    BY AvailNext DEF Invalidate, Sources
  <2>2. [name |-> pool.name, url |-> catalog[pool.name]] \in Sources
    BY DEF Sources
  <2>3. sw' \in SwType /\ sw'.to \in Sources /\ sw'.old \in Sources
    BY <2>2 DEF Invalidate, SwType, SwSteps, Avail
  <2> QED
    BY <2>1, <2>3 DEF Invalidate, source, copy, SwType
<1>e. \A reply \in {"ok", "error", "dropped"} :
          EndSwitch(reply) => sw' \in SwType /\ sw'.pc = "idle" /\ sw'.reply = reply
  BY IdleTypes DEF EndSwitch, SwType, IdleSw
<1>1. CASE SetDbTarget
  BY <1>1, <1>i DEF SetDbTarget, Sources, Invalidate, source
<1>2. CASE PutCurrentTarget
  BY <1>2, <1>i DEF PutCurrentTarget, Sources, Invalidate, source
<1>3. CASE PutOtherTarget
  BY <1>3 DEF PutOtherTarget, copy
<1>4. CASE Swap
  <2>1. sw' \in SwType /\ sw'.to \in Sources /\ sw'.old \in Sources
    BY <1>4 DEF Swap, SwType, SwSteps
  <2> QED
    BY <1>4, <2>1 DEF Swap, Install, SwType, copy
<1>5. CASE SwapFails
  BY <1>5, <1>r, <1>e DEF SwapFails, source, copy, SwType
<1>6. CASE WriteKv
  <2>1. sw' \in SwType /\ (sw'.pc # "idle" => sw'.to \in Sources /\ sw'.old \in Sources)
    BY <1>6, <1>e DEF WriteKv, SwType, SwSteps
  <2> QED
    BY <1>6, <2>1 DEF WriteKv, SwType, copy, Sources
<1>7. CASE WriteKvFails
  <2>1. sw' \in SwType /\ sw'.to \in Sources /\ sw'.old \in Sources
    BY <1>7 DEF WriteKvFails, SwType, SwSteps
  <2> QED
    BY <1>7, <2>1 DEF WriteKvFails, SwType, copy, Sources
<1>8. CASE Rollback
  BY <1>8, <1>r, <1>e DEF Rollback, Install, SwType, copy
<1>9. CASE RollbackFails
  BY <1>9, <1>e DEF RollbackFails, SwType, source, copy
<1>10. CASE Patch
  <2>1. sw' \in SwType /\ sw'.to \in Sources /\ sw'.old \in Sources
    BY <1>10 DEF Patch, SwType, SwSteps
  <2> QED
    BY <1>10, <2>1 DEF Patch, SwType, copy, Sources
<1>11. CASE PatchFails
  <2>1. [sw.to EXCEPT !.url = catalog[sw.to.name]] \in Sources
    BY <1>11 DEF PatchFails, Sources
  <2> QED
    BY <1>11, <2>1, <1>i DEF PatchFails, Invalidate, source
<1>12. CASE AfterSwitch
  <2>1. job' \in [Jobs -> JobType]
    BY <1>12 DEF AfterSwitch, JobType, JobSteps, Jobs
  <2>2. \A j \in Jobs : job'[j].pc = "due" \/ job'[j] = job[j]
    <3>1. CASE job' = job
      BY <3>1
    <3>2. CASE job' # job
      <4>1. PICK r \in Refreshes : job' = [job EXCEPT ![r].pc = "due"]
        BY <1>12, <3>2 DEF AfterSwitch
      <4> QED
        BY <4>1 DEF Jobs, JobType
    <3> QED
      BY <3>1, <3>2
  <2> QED
    BY <1>12, <2>1, <2>2, <1>e DEF AfterSwitch, SwType, JobType, source, copy
<1>13. CASE DropHandler
  BY <1>13, <1>e DEF DropHandler, SwType, copy, Sources
<1> QED
  BY <1>1, <1>2, <1>3, <1>4, <1>5, <1>6, <1>7, <1>8, <1>9, <1>10, <1>11, <1>12, <1>13
  DEF SwitchStep

\* The steps of a rebuild keep the types.
LEMMA TypedJob == ASSUME Typed, NEW j \in Jobs, JobStep(j) PROVE Typed'
<1> USE DEF Typed, TypeOK
<1>0. job[j] \in JobType /\ IdleJob \in JobType /\ IdleJob.pc = "off"
  BY IdleTypes DEF IdleJob
<1>f. Fail(j) /\ UNCHANGED <<source, avail, copy, sw, ask, crossed>> => Typed'
  BY <1>0 DEF Fail, source, copy
<1>1. CASE ReadTarget(j)
  <2>1. job' \in [Jobs -> JobType] /\ lock' \in Jobs \union {None}
    BY <1>1, <1>0 DEF ReadTarget, Goto, JobType, JobSteps, Sources
  <2>2. \A k \in Jobs : k # j => job'[k] = job[k]
    BY <1>1 DEF ReadTarget, Goto
  <2>3. job'[j].pc = "off" \/ (job'[j].pc = "begin" /\ job'[j].target \in Names)
    BY <1>1, <1>0 DEF ReadTarget, Goto, JobType, Sources
  <2> QED
    BY <1>1, <2>1, <2>2, <2>3 DEF ReadTarget, source, copy
<1>2. CASE BeginSync(j)
  <2>1. avail' \in Avail /\ job[j].pc = "begin"
    BY <1>2, AvailNext DEF BeginSync, At
  <2> DEFINE moved == [job[j] EXCEPT !.pc = "edges", !.gen = avail.gen + 1]
  <2>2. job' = [job EXCEPT ![j] = moved]
    BY <1>2, <1>0 DEF BeginSync, JobType
  <2>n. avail.gen + 1 \in Nat
    BY DEF Avail
  <2>3. moved \in JobType /\ moved.pc = "edges" /\ moved.target = job[j].target
    <3>1. moved \in JobType
      BY <1>0, <2>n DEF JobType, JobSteps
    <3>2. moved.pc = "edges" /\ moved.target = job[j].target
      BY <1>0, Zenon DEF JobType
    <3> QED
      BY <3>1, <3>2
  <2>4. job' \in [Jobs -> JobType] /\ \A k \in Jobs : k # j => job'[k] = job[k]
    BY <2>2, <2>3
  <2>5. job'[j].pc = "edges" /\ job'[j].target \in Names
    BY <2>1, <2>2, <2>3
  <2> HIDE DEF moved
  <2>6. UNCHANGED <<pool, kv, catalog, graph, marker, sw, lock, ask, crossed>>
    BY <1>2 DEF BeginSync, source, copy
  <2> QED
    BY <2>1, <2>4, <2>5, <2>6
<1>p. ASSUME NEW step \in JobSteps, Goto(j, step)
      PROVE  /\ job' \in [Jobs -> JobType]
             /\ \A k \in Jobs : k # j => job'[k] = job[k]
             /\ job'[j].pc = step /\ job'[j].target = job[j].target
             /\ job'[j].edges = job[j].edges /\ job'[j].dims = job[j].dims
  <2>1. job' = [job EXCEPT ![j] = [job[j] EXCEPT !.pc = step]]
    BY <1>p, <1>0 DEF Goto, JobType
  <2>2. [job[j] EXCEPT !.pc = step] \in JobType
    BY <1>0 DEF JobType
  <2> QED
    BY <2>1, <2>2, <1>0 DEF JobType
<1>s. {"dims", "marker", "build", "catalog", "recheck", "ready"} \subseteq JobSteps
  BY DEF JobSteps
<1>3. CASE ReadEdges(j)
  <2>1. CASE pool.url \in Warehouses
    <3>1. job' = [job EXCEPT ![j] = [job[j] EXCEPT !.pc = "check", !.edges = pool]]
      BY <1>3, <2>1, <1>0 DEF ReadEdges, ReadPart, JobType
    <3>2. [job[j] EXCEPT !.pc = "check", !.edges = pool] \in JobType
      BY <1>0 DEF JobType, JobSteps
    <3> QED
      BY <1>3, <2>1, <3>1, <3>2, <1>0 DEF ReadEdges, ReadPart, At, source, copy, JobType
  <2>2. CASE pool.url \notin Warehouses
    BY <1>3, <2>2, <1>f DEF ReadEdges, ReadPart
  <2> QED
    BY <2>1, <2>2
<1>4. CASE ReadDims(j)
  <2>1. CASE pool.url \in Warehouses
    <3>1. job' = [job EXCEPT ![j] = [job[j] EXCEPT !.pc = "drop", !.dims = pool]]
      BY <1>4, <2>1, <1>0 DEF ReadDims, ReadPart, JobType
    <3>2. [job[j] EXCEPT !.pc = "drop", !.dims = pool] \in JobType
      BY <1>0 DEF JobType, JobSteps
    <3> QED
      BY <1>4, <2>1, <3>1, <3>2, <1>0 DEF ReadDims, ReadPart, At, source, copy, JobType
  <2>2. CASE pool.url \notin Warehouses
    BY <1>4, <2>2, <1>f DEF ReadDims, ReadPart
  <2> QED
    BY <2>1, <2>2
<1>5. CASE CheckEdges(j)
  <2>1. CASE pool.url \in Warehouses /\ pool.name = job[j].target
    BY <1>5, <2>1, <1>0, <1>p, <1>s DEF CheckEdges, EnsureTarget, At, source, copy
  <2>2. CASE ~(pool.url \in Warehouses /\ pool.name = job[j].target)
    BY <1>5, <2>2, <1>f DEF CheckEdges, EnsureTarget
  <2> QED
    BY <2>1, <2>2
<1>6. CASE CheckBuilt(j)
  <2>1. CASE pool.url \in Warehouses /\ pool.name = job[j].target
    BY <1>6, <2>1, <1>0, <1>p, <1>s DEF CheckBuilt, EnsureTarget, At, source, copy
  <2>2. CASE ~(pool.url \in Warehouses /\ pool.name = job[j].target)
    BY <1>6, <2>2, <1>f DEF CheckBuilt, EnsureTarget
  <2> QED
    BY <2>1, <2>2
<1>7. CASE DropGraph(j)
  BY <1>7, <1>0, <1>p, <1>s DEF DropGraph, At, source
<1>8. CASE BuildEdges(j)
  <2>1. {<<"edges", job[j].edges>>} \subseteq Parts \X Sources
    BY <1>8 DEF BuildEdges, Insert, At, Parts
  <2> QED
    BY <1>8, <2>1, <1>0, <1>p, <1>s DEF BuildEdges, Insert, At, source
<1>9. CASE BuildCatalog(j)
  <2>1. PICK dims \in SUBSET {<<"dims", job[j].dims>>} :
            Insert(j, "catalog", "recheck", dims \union {<<"catalog", job[j].edges>>})
    BY <1>9 DEF BuildCatalog
  <2>2. dims \union {<<"catalog", job[j].edges>>} \subseteq Parts \X Sources
    BY <2>1 DEF Insert, At, Parts
  <2> QED
    BY <2>1, <2>2, <1>0, <1>p, <1>s DEF Insert, At, source
<1>10. CASE WriteMarker(j)
  BY <1>10, <1>0, <1>p, <1>s DEF WriteMarker, At, source
<1>11. CASE MarkReady(j)
  <2>1. avail' \in Avail
    BY <1>11, <1>0 DEF MarkReady, Avail, JobType
  <2> QED
    BY <1>11, <2>1, <1>0 DEF MarkReady, Fail, source, copy
<1>12. CASE RoundFails(j)
  BY <1>12, <1>f DEF RoundFails
<1> QED
  BY <1>1, <1>2, <1>3, <1>4, <1>5, <1>6, <1>7, <1>8, <1>9, <1>10, <1>11, <1>12 DEF JobStep

\* The other steps.
LEMMA TypedRest ==
    Typed /\ (Night \/ (\E q \in Askers : AskStep(q)) \/ Restart \/ UNCHANGED vars) => Typed'
<1> SUFFICES ASSUME Typed, Night \/ (\E q \in Askers : AskStep(q)) \/ Restart \/ UNCHANGED vars
             PROVE  Typed'
  OBVIOUS
<1> USE DEF Typed, TypeOK
<1>1. CASE Night
  <2>1. job' = [job EXCEPT ![Loop] = [job[Loop] EXCEPT !.pc = "due"]] /\ Loop \in Jobs
    BY <1>1 DEF Night, Goto, Jobs, JobType
  <2>2. [job[Loop] EXCEPT !.pc = "due"] \in JobType
    BY <2>1 DEF JobType, JobSteps
  <2> QED
    BY <1>1, <2>1, <2>2 DEF Night, source, copy, JobType
<1>2. CASE \E q \in Askers : AskStep(q)
  <2>1. PICK q \in Askers : AskStep(q)
    BY <1>2
  <2>2. ask[q] \in AskType /\ IdleAsk \in AskType
    BY IdleTypes
  <2>3. ask' \in [Askers -> AskType]
    <3>1. CASE Arrive(q)
      BY <3>1, <2>2 DEF Arrive, SetAsk, AskType, AskSteps, Sources
    <3>2. CASE TakeLease(q)
      BY <3>2, <2>2 DEF TakeLease, SetAsk, AskType, AskSteps, Avail
    <3>3. CASE ReadGraph(q)
      <4>1. WholeCopy(graph, ask[q].name) \in BOOLEAN
        BY ZenonT(30) DEF WholeCopy
      <4>2. PICK pc \in {"read", "recheck"} :
                ask' = [ask EXCEPT ![q] = [ask[q] EXCEPT !.pc = pc,
                                               !.whole = @ /\ WholeCopy(graph, ask[q].name)]]
        BY <3>3 DEF ReadGraph, SetAsk
      <4>3. (ask[q].whole /\ WholeCopy(graph, ask[q].name)) \in BOOLEAN
        BY <2>2, <4>1 DEF AskType
      <4>4. [ask[q] EXCEPT !.pc = pc, !.whole = @ /\ WholeCopy(graph, ask[q].name)] \in AskType
        BY <2>2, <4>3 DEF AskType, AskSteps
      <4> QED
        BY <4>2, <4>4
    <3>4. CASE AnswerGraph(q)
      BY <3>4, <2>2 DEF AnswerGraph, SetAsk, AskType, AskSteps
    <3>5. CASE AnswerSql(q)
      BY <3>5, <2>2 DEF AnswerSql, SetAsk
    <3> QED
      BY <2>1, <3>1, <3>2, <3>3, <3>4, <3>5 DEF AskStep
  <2>4. AskOnly
    BY <2>1 DEF AskStep, Arrive, TakeLease, ReadGraph, AnswerGraph, AnswerSql
  <2> QED
    BY <2>3, <2>4 DEF AskOnly, source, copy
<1>3. CASE Restart
  <2>1. pool' \in Sources
    BY <1>3 DEF Restart, Sources
  <2>2. [IdleJob EXCEPT !.pc = "due"] \in JobType /\ [IdleJob EXCEPT !.pc = "off"] \in JobType
    BY IdleTypes DEF JobType, JobSteps
  <2>3. job' \in [Jobs -> JobType] /\ \A j \in Jobs : job'[j].pc \in {"off", "due"}
    BY <1>3, <2>2 DEF Restart, IdleJob
  <2> QED
    BY <1>3, <2>1, <2>3, IdleTypes DEF Restart, copy, NoAvail, Avail, IdleSw
<1>4. CASE UNCHANGED vars
  BY <1>4 DEF vars
<1> QED
  BY <1>1, <1>2, <1>3, <1>4

THEOREM TypedAlways == Spec => []Typed
<1>1. Typed /\ [Next]_vars => Typed'
  BY TypedSwitch, TypedJob, TypedRest DEF Next
<1> QED
  BY <1>1, TypedInit, PTL DEF Spec

\* TypeOK: every variable keeps its type.
THEOREM SwitchTypeOK == Spec => []TypeOK
<1>1. Typed => TypeOK
  BY DEF Typed
<1> QED
  BY <1>1, TypedAlways, PTL
(***************************************************************************)
(* The graph that questions may use is whole                               *)
(***************************************************************************)

\* One rebuild at a time: who is past `due` has sync_lock.
LockOK == \A j \in Jobs : job[j].pc \notin {"off", "due"} => lock = j

\* What a rebuild that is still believed has done.  As long as the pool goes by the name
\* it set out with, all it has read is of that pool.
Steady(j) ==
    LET s == job[j]
    IN  /\ s.pc \in {"check", "dims", "drop", "build", "catalog", "recheck"}
               => (pool.name = s.target => s.edges = pool)
        /\ s.pc \in {"drop", "build", "catalog", "recheck"}
               => (pool.name = s.target => s.dims = pool)
        /\ s.pc = "build" => graph = {}
        /\ s.pc = "catalog" => graph = {<<"edges", s.edges>>}
        /\ s.pc = "recheck" =>
               /\ {<<"edges", s.edges>>, <<"catalog", s.edges>>} \subseteq graph
               /\ \A piece \in graph : piece[2] \in {s.edges, s.dims}
        /\ s.pc \in {"marker", "ready"} => WholeCopy(graph, s.target)

AllSteady(a) == ~crossed => \A j \in Jobs : Believed(j, a) => Steady(j)

Leased(q) == ask[q].pc \in {"read", "recheck"}

\* What the availability a, the present one or one that may come back, says of the
\* graph, of the rebuilds and of the questions that took a lease under it.
AvailOK(a) ==
    /\ \A j \in Jobs : Rebuilding(j) => job[j].gen <= a.gen
    /\ a.graph # None => a.graph = a.desired /\ \A j \in Jobs : ~Rebuilding(j)
    /\ \A j \in Jobs : Believed(j, a) => a.desired = job[j].target
    /\ ~crossed /\ a.graph # None => WholeCopy(graph, a.graph)
    /\ \A q \in Askers : Leased(q) =>
           /\ ask[q].gen <= a.gen
           /\ ask[q].gen = a.gen => a.graph = ask[q].name /\ a.graph # None
    /\ \A q \in Askers :
           Leased(q) /\ ask[q].gen = a.gen /\ ~crossed => ask[q].whole

\* The failure of the switch in progress would bring back what was before it.
Restorable == sw.pc \in {"swap", "kv", "rollback"} /\ avail.gen = sw.gen

BeforeOK ==
    /\ sw.pc \in {"swap", "kv", "rollback"} => sw.gen <= avail.gen /\ sw.before.gen < sw.gen
    /\ Restorable => avail.graph = None /\ AvailOK(sw.before)
    /\ Restorable /\ sw.pc = "swap" => AllSteady(sw.before)

GraphOK == LockOK /\ AvailOK(avail) /\ AllSteady(avail) /\ BeforeOK

LEMMA GraphInit == Init => GraphOK
<1> SUFFICES ASSUME Init PROVE GraphOK
  OBVIOUS
<1>1. \A j \in Jobs : job[j].pc \in {"off", "due"} /\ ~Rebuilding(j)
  BY DEF Init, IdleJob, Rebuilding
<1>2. \A q \in Askers : ask[q].pc = "idle"
  BY DEF Init, IdleAsk
<1>3. sw.pc = "idle" /\ avail.graph = None
  BY DEF Init, IdleSw, NoAvail
<1> QED
  BY <1>1, <1>2, <1>3
  DEF GraphOK, LockOK, AvailOK, AllSteady, BeforeOK, Believed, Leased, Restorable

\* A step of a rebuild that has begun, or its end, whatever it does to the graph.
LEMMA JobMoves ==
    ASSUME Typed, LockOK, NEW j \in Jobs, Rebuilding(j),
           job' \in [Jobs -> JobType], \A k \in Jobs : k # j => job'[k] = job[k],
           job'[j].pc = "off" \/ (job'[j].gen = job[j].gen /\ job'[j].target = job[j].target),
           UNCHANGED <<ask, crossed>>
    PROVE  /\ \A a \in Avail : AvailOK(a) => a.graph = None /\ AvailOK(a)'
           /\ \A k \in Jobs : k # j => ~Rebuilding(k) /\ ~Rebuilding(k)'
<1>1. \A k \in Jobs : k # j => ~Rebuilding(k) /\ ~Rebuilding(k)'
  BY DEF LockOK, Rebuilding
<1>2. ASSUME NEW a \in Avail, AvailOK(a) PROVE a.graph = None
  BY <1>2 DEF AvailOK
<1>3. ASSUME NEW a \in Avail, AvailOK(a) PROVE AvailOK(a)'
  BY <1>1, <1>2, <1>3 DEF AvailOK, Rebuilding, Believed, Leased
<1> QED
  BY <1>1, <1>2, <1>3

\* Nothing a switch does while rebuilds and questions rest disturbs what is said of them.
LEMMA StillOK ==
    ASSUME UNCHANGED <<graph, job, ask>>, crossed => crossed'
    PROVE  /\ \A a \in Avail : AvailOK(a) => AvailOK(a)'
           /\ pool' = pool => \A a \in Avail : AllSteady(a) => AllSteady(a)'
<1>1. \A a \in Avail : AvailOK(a) => AvailOK(a)'
  BY DEF AvailOK, Rebuilding, Believed, Leased, WholeCopy
<1>2. ASSUME pool' = pool, NEW a \in Avail, AllSteady(a) PROVE AllSteady(a)'
  BY <1>2 DEF AllSteady, Steady, Believed, Rebuilding, WholeCopy
<1> QED
  BY <1>1, <1>2

\* A new generation: no rebuild is believed and no lease is current.
LEMMA FreshOK ==
    ASSUME Typed, AvailOK(avail), NEW a \in Avail, a.graph = None, a.gen > avail.gen
    PROVE  AvailOK(a) /\ \A j \in Jobs : ~Believed(j, a)
<1>1. avail.gen \in Nat /\ a.gen \in Nat
  BY DEF Typed, TypeOK, Avail
<1>2. ASSUME NEW j \in Jobs, Rebuilding(j) PROVE job[j].gen <= a.gen /\ job[j].gen # a.gen
  <2>1. job[j].gen \in Nat /\ job[j].gen <= avail.gen
    BY <1>2 DEF Typed, TypeOK, JobType, AvailOK
  <2> QED
    BY <2>1, <1>1
<1>3. ASSUME NEW q \in Askers, Leased(q) PROVE ask[q].gen <= a.gen /\ ask[q].gen # a.gen
  <2>1. ask[q].gen \in Nat /\ ask[q].gen <= avail.gen
    BY <1>3 DEF Typed, TypeOK, AskType, AvailOK
  <2> QED
    BY <2>1, <1>1
<1>4. \A j \in Jobs : ~Believed(j, a)
  BY <1>2 DEF Believed
<1> QED
  BY <1>2, <1>3, <1>4 DEF AvailOK, Leased

\* The steps of a switch keep it.
LEMMA GraphSwitch == Typed /\ GraphOK /\ SwitchStep => GraphOK'
<1> SUFFICES ASSUME Typed, GraphOK, SwitchStep PROVE GraphOK'
  OBVIOUS
<1>t. /\ avail \in Avail /\ sw.before \in Avail /\ sw.gen \in Nat
      /\ avail.gen \in Nat /\ sw.before.gen \in Nat
  BY DEF Typed, TypeOK, SwType, Avail
<1>g. LockOK /\ AvailOK(avail) /\ AllSteady(avail) /\ BeforeOK
  BY DEF GraphOK
<1>l. job' = job /\ lock' = lock => LockOK'
  BY <1>g DEF LockOK
\* The ways a switch ends or goes on, with the pool in place.
<1>k. ASSUME UNCHANGED <<pool, avail, graph, job, lock, ask, crossed>>,
             \/ UNCHANGED sw
             \/ sw.pc = "kv" /\ sw' = [sw EXCEPT !.pc = "rollback"]
             \/ sw'.pc \in {"idle", "patch", "mark"}
      PROVE  GraphOK'
  <2>1. AvailOK(avail)' /\ AllSteady(avail)'
    BY <1>k, <1>g, <1>t, StillOK
  <2>2. CASE UNCHANGED sw
    <3>1. Restorable' = Restorable
      BY <1>k, <2>2 DEF Restorable
    <3>2. Restorable => AvailOK(sw.before)'
      BY <1>k, <1>g, <1>t, <2>2, StillOK DEF BeforeOK
    <3>3. Restorable /\ sw.pc = "swap" => AllSteady(sw.before)'
      BY <1>k, <1>g, <1>t, <2>2, StillOK DEF BeforeOK
    <3> QED
      BY <1>k, <1>l, <1>g, <2>1, <2>2, <3>1, <3>2, <3>3 DEF GraphOK, BeforeOK
  <2>3. CASE sw.pc = "kv" /\ sw' = [sw EXCEPT !.pc = "rollback"]
    <3>1. sw'.pc = "rollback" /\ sw'.gen = sw.gen /\ sw'.before = sw.before
      BY <2>3 DEF Typed, TypeOK, SwType
    <3>2. Restorable' = Restorable
      BY <1>k, <2>3, <3>1 DEF Restorable
    <3>3. Restorable => AvailOK(sw.before)'
      BY <1>k, <1>g, <1>t, <3>1, StillOK DEF BeforeOK
    <3> QED
      BY <1>k, <1>l, <1>g, <2>1, <2>3, <3>1, <3>2, <3>3 DEF GraphOK, BeforeOK
  <2>4. CASE sw'.pc \in {"idle", "patch", "mark"}
    BY <1>k, <1>l, <2>1, <2>4 DEF GraphOK, BeforeOK, Restorable
  <2> QED
    BY <1>k, <2>2, <2>3, <2>4
<1>e. \A reply \in {"ok", "error", "dropped"} : EndSwitch(reply) => sw'.pc = "idle"
  BY DEF EndSwitch, IdleSw
<1>i. \A to \in Sources, kind \in {"set", "edit", "undo"} : Invalidate(to, kind) => GraphOK'
  <2> SUFFICES ASSUME NEW to \in Sources, NEW kind \in {"set", "edit", "undo"},
                      Invalidate(to, kind)
               PROVE  GraphOK'
    OBVIOUS
  <2>1. /\ avail' \in Avail /\ avail'.graph = None
        /\ avail'.gen = avail.gen + 1 /\ avail'.gen > avail.gen
    BY <1>t, AvailNext DEF Invalidate, Sources
  <2>2. /\ sw'.pc = "swap" /\ sw'.before = avail /\ sw'.gen = avail.gen + 1
        /\ UNCHANGED <<pool, graph, job, lock, ask, crossed>>
    BY DEF Invalidate, source, copy
  <2>3. \A a \in Avail : a.graph = None /\ a.gen > avail.gen
            => AvailOK(a) /\ \A j \in Jobs : ~Believed(j, a)
    BY <1>g, FreshOK
  <2>4. PICK a \in Avail : a = avail'
    BY <2>1
  <2>5. AvailOK(avail)' /\ AllSteady(avail)'
    <3>1. AvailOK(a) /\ AllSteady(a)
      BY <2>1, <2>3, <2>4 DEF AllSteady
    <3> QED
      BY <2>2, <2>4, <3>1, StillOK
  <2>6. AvailOK(sw.before)' /\ AllSteady(sw.before)'
    BY <1>g, <1>t, <2>2, StillOK
  <2> QED
    BY <1>l, <1>t, <2>1, <2>2, <2>5, <2>6 DEF GraphOK, BeforeOK, Restorable
<1>1. CASE SetDbTarget
  BY <1>1, <1>i DEF SetDbTarget, Sources, Typed, TypeOK
<1>2. CASE PutCurrentTarget
  BY <1>2, <1>i DEF PutCurrentTarget, Sources, Typed, TypeOK
<1>3. CASE PutOtherTarget
  BY <1>3, <1>k DEF PutOtherTarget, copy
<1>4. CASE Swap
  <2>1. /\ sw.pc = "swap" /\ pool' = sw.to
        /\ crossed' = (crossed \/ \E j \in Jobs :
                          Believed(j, avail) /\ ~(job[j].target # sw.to.name))
        /\ UNCHANGED <<avail, graph, job, lock, ask>>
    BY <1>4 DEF Swap, Install, copy
  <2>2. sw'.pc = "kv" /\ sw'.gen = sw.gen /\ sw'.before = sw.before
    BY <1>4 DEF Swap, Typed, TypeOK, SwType
  <2>3. AvailOK(avail)'
    BY <1>g, <1>t, <2>1, StillOK
  <2>4. AllSteady(avail)'
    <3> SUFFICES ASSUME ~crossed', NEW j \in Jobs, Believed(j, avail)' PROVE Steady(j)'
      BY DEF AllSteady
    <3>1. Believed(j, avail) /\ ~crossed /\ pool'.name # job[j].target
      BY <2>1 DEF Believed, Rebuilding
    <3> QED
      BY <1>g, <2>1, <3>1 DEF AllSteady, Steady, WholeCopy
  <2>5. Restorable' = Restorable
    BY <2>1, <2>2 DEF Restorable
  <2>6. Restorable => AvailOK(sw.before)'
    BY <1>g, <1>t, <2>1, <2>2, StillOK DEF BeforeOK
  <2> QED
    BY <1>l, <1>g, <2>1, <2>2, <2>3, <2>4, <2>5, <2>6 DEF GraphOK, BeforeOK
<1>r. Restored \in Avail
  BY <1>t DEF Restored
<1>5. CASE SwapFails
  <2>1. /\ sw.pc = "swap" /\ avail' = Restored /\ sw'.pc = "idle"
        /\ UNCHANGED <<pool, graph, job, lock, ask, crossed>>
    BY <1>5, <1>e DEF SwapFails, source, copy
  <2>2. AvailOK(Restored) /\ AllSteady(Restored)
    BY <1>g, <2>1 DEF Restored, BeforeOK, Restorable
  <2>3. AvailOK(avail)' /\ AllSteady(avail)'
    BY <1>r, <2>1, <2>2, StillOK
  <2> QED
    BY <1>l, <2>1, <2>3 DEF GraphOK, BeforeOK, Restorable
<1>6. CASE WriteKv
  <2>1. sw'.pc \in {"idle", "patch", "mark"}
    BY <1>6, <1>e DEF WriteKv, Typed, TypeOK, SwType
  <2> QED
    BY <1>6, <2>1, <1>k DEF WriteKv, copy
<1>7. CASE WriteKvFails
  BY <1>7, <1>k DEF WriteKvFails, copy
<1>8. CASE Rollback
  <2>1. /\ sw.pc = "rollback" /\ avail' = Restored /\ sw'.pc = "idle"
        /\ crossed' = (crossed \/ \E j \in Jobs : Believed(j, Restored) /\ ~[k \in Jobs |-> FALSE][j])
        /\ UNCHANGED <<graph, job, lock, ask>>
    BY <1>8, <1>e DEF Rollback, Install, copy
  <2>2. AvailOK(Restored)
    BY <1>g, <2>1 DEF Restored, BeforeOK, Restorable
  <2>3. AvailOK(avail)'
    BY <1>r, <2>1, <2>2, StillOK
  <2>4. AllSteady(avail)'
    BY <2>1 DEF AllSteady, Believed, Rebuilding
  <2> QED
    BY <1>l, <2>1, <2>3, <2>4, <1>g DEF GraphOK, BeforeOK, Restorable
<1>9. CASE RollbackFails
  BY <1>9, <1>e, <1>k DEF RollbackFails, source, copy
<1>10. CASE Patch
  <2>1. sw'.pc = "mark"
    BY <1>10 DEF Patch, Typed, TypeOK, SwType
  <2> QED
    BY <1>10, <2>1, <1>k DEF Patch, copy
<1>11. CASE PatchFails
  <2>1. [sw.to EXCEPT !.url = catalog[sw.to.name]] \in Sources
    BY <1>11 DEF PatchFails, Sources, Typed, TypeOK
  <2> QED
    BY <1>11, <2>1, <1>i DEF PatchFails
<1>12. CASE AfterSwitch
  <2>1. sw'.pc = "idle" /\ UNCHANGED <<pool, avail, graph, lock, ask, crossed>>
    BY <1>12, <1>e DEF AfterSwitch, source, copy
  <2>2. \A j \in Jobs : job'[j] = job[j] \/ (job[j].pc = "off" /\ job'[j].pc = "due")
    BY <1>12 DEF AfterSwitch, Typed, TypeOK, JobType, Jobs
  <2>3. LockOK'
    BY <1>g, <2>1, <2>2 DEF LockOK
  <2>4. \A j \in Jobs : Rebuilding(j)' = Rebuilding(j) /\ (Rebuilding(j) => job'[j] = job[j])
    BY <2>2 DEF Rebuilding
  <2>5. \A a \in Avail : AvailOK(a) => AvailOK(a)'
    BY <2>1, <2>4 DEF AvailOK, Believed, Leased, WholeCopy
  <2>6. AllSteady(avail)'
    <3> SUFFICES ASSUME ~crossed', NEW j \in Jobs, Believed(j, avail)' PROVE Steady(j)'
      BY DEF AllSteady
    <3>1. Believed(j, avail) /\ job'[j] = job[j]
      BY <2>1, <2>4 DEF Believed
    <3> QED
      BY <1>g, <2>1, <3>1 DEF AllSteady, Steady, WholeCopy
  <2> QED
    BY <1>g, <1>t, <2>1, <2>3, <2>5, <2>6 DEF GraphOK, BeforeOK, Restorable
<1>13. CASE DropHandler
  BY <1>13, <1>e, <1>k DEF DropHandler, copy
<1> QED
  BY <1>1, <1>2, <1>3, <1>4, <1>5, <1>6, <1>7, <1>8, <1>9, <1>10, <1>11, <1>12, <1>13
  DEF SwitchStep

\* The steps of a rebuild keep it.
LEMMA GraphJob == ASSUME Typed, GraphOK, NEW j \in Jobs, JobStep(j) PROVE GraphOK'
<1>t. /\ avail \in Avail /\ sw.before \in Avail /\ sw.gen \in Nat
      /\ avail.gen \in Nat /\ sw.before.gen \in Nat /\ job[j] \in JobType
  BY DEF Typed, TypeOK, SwType, Avail
<1>u. job' \in [Jobs -> JobType]
  BY TypedJob DEF Typed, TypeOK
<1>g. LockOK /\ AvailOK(avail) /\ AllSteady(avail) /\ BeforeOK
  BY DEF GraphOK
<1>o. \A k \in Jobs : k # j => job'[k] = job[k]
  BY <1>t DEF JobStep, ReadTarget, BeginSync, ReadEdges, CheckEdges, ReadDims, ReadPart,
              EnsureTarget, DropGraph, BuildEdges, BuildCatalog, Insert, CheckBuilt,
              WriteMarker, MarkReady, RoundFails, Goto, Fail, Typed, TypeOK
\* Before a rebuild has begun: nothing is said of it but the lock.
<1>q. ASSUME ~Rebuilding(j), ~Rebuilding(j)', LockOK',
             UNCHANGED <<pool, avail, graph, sw, ask, crossed>>
      PROVE  GraphOK'
  <2>1. \A k \in Jobs : Rebuilding(k)' = Rebuilding(k) /\ (Rebuilding(k) => job'[k] = job[k])
    BY <1>q, <1>o DEF Rebuilding
  <2>2. \A a \in Avail : AvailOK(a) => AvailOK(a)'
    BY <1>q, <2>1 DEF AvailOK, Believed, Leased, WholeCopy
  <2>3. ASSUME NEW a \in Avail, AllSteady(a) PROVE AllSteady(a)'
    <3> SUFFICES ASSUME ~crossed', NEW k \in Jobs, Believed(k, a)' PROVE Steady(k)'
      BY DEF AllSteady
    <3>1. Believed(k, a) /\ job'[k] = job[k] /\ pool' = pool /\ graph' = graph /\ ~crossed
      BY <1>q, <2>1 DEF Believed
    <3>2. Steady(k)
      BY <2>3, <3>1 DEF AllSteady
    <3> QED
      BY <3>1, <3>2 DEF Steady, WholeCopy
  <2> QED
    BY <1>q, <1>g, <1>t, <2>2, <2>3 DEF GraphOK, BeforeOK, Restorable
\* A step of a rebuild, the availability left alone.
<1>m. ASSUME Rebuilding(j), LockOK',
             job'[j].pc = "off" \/ (job'[j].gen = job[j].gen /\ job'[j].target = job[j].target),
             Steady(j) => job'[j].pc = "off" \/ Steady(j)',
             UNCHANGED <<pool, avail, sw, ask, crossed>>
      PROVE  GraphOK'
  <2>1. /\ \A a \in Avail : AvailOK(a) => a.graph = None /\ AvailOK(a)'
        /\ \A k \in Jobs : k # j => ~Rebuilding(k) /\ ~Rebuilding(k)'
    BY <1>m, <1>g, <1>u, <1>o, JobMoves
  <2>2. ASSUME NEW a \in Avail, AllSteady(a) PROVE AllSteady(a)'
    <3> SUFFICES ASSUME ~crossed', NEW k \in Jobs, Believed(k, a)' PROVE Steady(k)'
      BY DEF AllSteady
    <3>1. k = j /\ job'[j].pc # "off" /\ Believed(j, a) /\ ~crossed
      BY <1>m, <2>1 DEF Believed, Rebuilding
    <3> QED
      BY <1>m, <2>2, <3>1 DEF AllSteady
  <2> QED
    BY <1>m, <1>g, <1>t, <2>1, <2>2 DEF GraphOK, BeforeOK, Restorable
\* A rebuild that fails lets go of the lock.
<1>f. ASSUME Rebuilding(j), Fail(j) PROVE LockOK' /\ job'[j].pc = "off"
  BY <1>f, <1>g DEF Fail, IdleJob, LockOK, Rebuilding, Typed, TypeOK
<1>n. ASSUME Rebuilding(j), NEW step \in JobSteps \ {"off", "due", "begin"}, Goto(j, step),
             lock' = lock
      PROVE  /\ LockOK' /\ job'[j].pc = step
             /\ job'[j].gen = job[j].gen /\ job'[j].target = job[j].target
             /\ job'[j].edges = job[j].edges /\ job'[j].dims = job[j].dims
  BY <1>n, <1>t, <1>g DEF Goto, JobType, LockOK, Rebuilding, Typed, TypeOK
<1>s. {"edges", "check", "dims", "drop", "marker", "build", "catalog", "recheck", "ready"}
          \subseteq JobSteps \ {"off", "due", "begin"}
  BY DEF JobSteps
<1>1. CASE ReadTarget(j)
  <2>1. ~Rebuilding(j) /\ ~Rebuilding(j)'
    BY <1>1, <1>t DEF ReadTarget, At, Goto, Rebuilding, JobType, Typed, TypeOK
  <2>2. \A k \in Jobs : job[k].pc \in {"off", "due"}
    BY <1>1, <1>g DEF ReadTarget, LockOK, Jobs
  <2>3. LockOK'
    <3>1. \/ lock' = j
          \/ job'[j].pc = "off"
      BY <1>1, <1>t DEF ReadTarget, Goto, JobType, Typed, TypeOK
    <3>2. \A k \in Jobs : k # j => job'[k].pc \in {"off", "due"}
      BY <1>o, <2>2
    <3> QED
      BY <3>1, <3>2 DEF LockOK
  <2> QED
    BY <1>1, <1>q, <2>1, <2>3 DEF ReadTarget, source, copy
<1>2. CASE BeginSync(j)
  <2>1. /\ job[j].pc = "begin" /\ lock = j /\ lock' = lock
        /\ UNCHANGED <<pool, graph, sw, ask, crossed>>
    BY <1>2, <1>g DEF BeginSync, At, LockOK, source, copy
  <2>2. job'[j].pc = "edges" /\ job'[j].gen = avail.gen + 1 /\ job'[j].target = job[j].target
    BY <1>2, <1>t DEF BeginSync, JobType, Typed, TypeOK
  <2>3. \A k \in Jobs : k # j => ~Rebuilding(k) /\ ~Rebuilding(k)'
    BY <1>g, <1>o, <2>1 DEF LockOK, Rebuilding
  <2>4. job[j].target \in Names
    BY <2>1 DEF Typed
  <2>5. /\ avail' \in Avail /\ avail'.graph = None /\ avail'.desired = job[j].target
        /\ avail'.gen = avail.gen + 1 /\ avail'.gen > avail.gen
    BY <1>2, <1>t, <2>4, AvailNext DEF BeginSync
  <2>6. LockOK'
    BY <1>g, <1>o, <2>1 DEF LockOK
  <2>7. AvailOK(avail)'
    <3>1. \A q \in Askers : Leased(q) => ask[q].gen <= avail.gen /\ ask[q].gen \in Nat
      BY <1>g DEF AvailOK, Leased, Typed, TypeOK, AskType
    <3>2. \A q \in Askers : Leased(q) => ask[q].gen <= avail'.gen /\ ask[q].gen # avail'.gen
      BY <3>1, <1>t, <2>5
    <3>3. \A k \in Jobs : Rebuilding(k)' => job'[k].gen <= avail'.gen
      BY <2>2, <2>3, <2>5, <1>t DEF Avail
    <3>4. \A k \in Jobs : Believed(k, avail)' => avail'.desired = job'[k].target
      BY <2>2, <2>3, <2>5 DEF Believed
    <3> QED
      BY <2>1, <2>5, <3>2, <3>3, <3>4 DEF AvailOK, Leased
  <2>8. AllSteady(avail)'
    BY <2>2, <2>3 DEF AllSteady, Believed, Steady
  <2>9. ~Restorable'
    BY <1>g, <1>t, <2>1, <2>5 DEF BeforeOK, Restorable
  <2>10. BeforeOK'
    <3>1. sw.pc \in {"swap", "kv", "rollback"} => sw.gen <= avail'.gen
      BY <1>g, <1>t, <2>5 DEF BeforeOK
    <3> QED
      BY <1>g, <2>1, <2>9, <3>1 DEF BeforeOK
  <2> QED
    BY <2>6, <2>7, <2>8, <2>10 DEF GraphOK
<1>p. ASSUME NEW at \in {"edges", "dims"}, NEW next \in {"check", "drop"},
             NEW part \in {"edges", "dims"},
             ReadPart(j, at, next, part), at = "edges" <=> next = "check",
             part = at
      PROVE  GraphOK'
  <2>1. Rebuilding(j) /\ job[j].pc = at /\ UNCHANGED <<pool, avail, graph, sw, ask, crossed>>
    BY <1>p DEF ReadPart, At, Rebuilding, source, copy
  <2>2. CASE pool.url \in Warehouses
    <3>1. /\ job'[j].pc = next /\ job'[j].gen = job[j].gen /\ job'[j].target = job[j].target
          /\ at = "edges" => job'[j].edges = pool
          /\ at = "dims" => job'[j].dims = pool /\ job'[j].edges = job[j].edges
          /\ lock' = lock
      BY <1>p, <1>t, <2>2 DEF ReadPart, JobType, Typed, TypeOK
    <3>2. LockOK'
      BY <1>g, <1>o, <2>1, <3>1 DEF LockOK, Rebuilding
    <3>3. Steady(j) => Steady(j)'
      BY <1>p, <2>1, <3>1 DEF Steady
    <3> QED
      BY <1>m, <2>1, <3>1, <3>2, <3>3
  <2>3. CASE pool.url \notin Warehouses
    BY <1>p, <1>f, <1>m, <2>1, <2>3 DEF ReadPart
  <2> QED
    BY <2>2, <2>3
<1>3. CASE ReadEdges(j)
  BY <1>3, <1>p DEF ReadEdges
<1>4. CASE ReadDims(j)
  BY <1>4, <1>p DEF ReadDims
<1>5. CASE CheckEdges(j)
  <2>1. /\ Rebuilding(j) /\ job[j].pc = "check"
        /\ UNCHANGED <<pool, avail, graph, sw, ask, crossed>>
    BY <1>5 DEF CheckEdges, EnsureTarget, At, Rebuilding, source, copy
  <2>2. CASE Fail(j)
    BY <1>f, <1>m, <2>1, <2>2
  <2>3. CASE Goto(j, "dims") /\ lock' = lock
    <3>1. Steady(j) => Steady(j)'
      BY <2>1, <2>3, <1>n, <1>s DEF Steady
    <3> QED
      BY <1>m, <1>n, <1>s, <2>1, <2>3, <3>1
  <2> QED
    BY <1>5, <2>2, <2>3 DEF CheckEdges, EnsureTarget
<1>6. CASE CheckBuilt(j)
  <2>1. /\ Rebuilding(j) /\ job[j].pc = "recheck"
        /\ UNCHANGED <<pool, avail, graph, sw, ask, crossed>>
    BY <1>6 DEF CheckBuilt, EnsureTarget, At, Rebuilding, source, copy
  <2>2. CASE Fail(j)
    BY <1>f, <1>m, <2>1, <2>2
  <2>3. CASE Goto(j, "marker") /\ lock' = lock /\ pool.name = job[j].target
    <3>1. Steady(j) => WholeCopy(graph, job[j].target)
      <4> SUFFICES ASSUME Steady(j) PROVE WholeCopy(graph, job[j].target)
        OBVIOUS
      <4>1. /\ {<<"edges", pool>>, <<"catalog", pool>>} \subseteq graph
            /\ \A piece \in graph : piece[2] = pool
        BY <2>1, <2>3 DEF Steady
      <4> QED
        BY <4>1, <2>3 DEF WholeCopy, Typed, TypeOK
    <3>2. Steady(j) => Steady(j)'
      BY <2>1, <2>3, <3>1, <1>n, <1>s DEF Steady, WholeCopy
    <3> QED
      BY <1>m, <1>n, <1>s, <2>1, <2>3, <3>2
  <2> QED
    BY <1>6, <2>2, <2>3 DEF CheckBuilt, EnsureTarget
<1>7. CASE DropGraph(j)
  <2>1. /\ Rebuilding(j) /\ job[j].pc = "drop" /\ graph' = {} /\ Goto(j, "build")
        /\ UNCHANGED <<pool, avail, sw, lock, ask, crossed>>
    BY <1>7 DEF DropGraph, At, Rebuilding, source
  <2>2. Steady(j) => Steady(j)'
    BY <2>1, <1>n, <1>s DEF Steady
  <2> QED
    BY <1>m, <1>n, <1>s, <2>1, <2>2
<1>8. CASE BuildEdges(j)
  <2>1. /\ Rebuilding(j) /\ job[j].pc = "build" /\ Goto(j, "catalog")
        /\ graph' = graph \union {<<"edges", job[j].edges>>}
        /\ UNCHANGED <<pool, avail, sw, lock, ask, crossed>>
    BY <1>8 DEF BuildEdges, Insert, At, Rebuilding, source
  <2>2. Steady(j) => Steady(j)'
    BY <2>1, <1>n, <1>s DEF Steady
  <2> QED
    BY <1>m, <1>n, <1>s, <2>1, <2>2
<1>9. CASE BuildCatalog(j)
  <2>1. PICK dims \in SUBSET {<<"dims", job[j].dims>>} :
            Insert(j, "catalog", "recheck", dims \union {<<"catalog", job[j].edges>>})
    BY <1>9 DEF BuildCatalog
  <2>2. /\ Rebuilding(j) /\ job[j].pc = "catalog" /\ Goto(j, "recheck")
        /\ graph' = graph \union (dims \union {<<"catalog", job[j].edges>>})
        /\ UNCHANGED <<pool, avail, sw, lock, ask, crossed>>
    BY <2>1 DEF Insert, At, Rebuilding, source
  <2>3. Steady(j) => Steady(j)'
    <3> SUFFICES ASSUME Steady(j) PROVE Steady(j)'
      OBVIOUS
    <3>1. graph = {<<"edges", job[j].edges>>}
      BY <2>2 DEF Steady
    <3>2. /\ {<<"edges", job[j].edges>>, <<"catalog", job[j].edges>>} \subseteq graph'
          /\ \A piece \in graph' : piece[2] \in {job[j].edges, job[j].dims}
      BY <2>1, <2>2, <3>1
    <3> QED
      BY <2>2, <3>2, <1>n, <1>s DEF Steady
  <2> QED
    BY <1>m, <1>n, <1>s, <2>2, <2>3
<1>10. CASE WriteMarker(j)
  <2>1. /\ Rebuilding(j) /\ job[j].pc = "marker" /\ Goto(j, "ready")
        /\ UNCHANGED <<pool, avail, graph, sw, lock, ask, crossed>>
    BY <1>10 DEF WriteMarker, At, Rebuilding, source
  <2>2. Steady(j) => Steady(j)'
    BY <2>1, <1>n, <1>s DEF Steady, WholeCopy
  <2> QED
    BY <1>m, <1>n, <1>s, <2>1, <2>2
<1>11. CASE MarkReady(j)
  <2>1. /\ Rebuilding(j) /\ job[j].pc = "ready" /\ Fail(j)
        /\ UNCHANGED <<pool, graph, sw, ask, crossed>>
    BY <1>11 DEF MarkReady, At, Rebuilding, source, copy
  <2>2. CASE avail.gen = job[j].gen /\ avail.desired = job[j].target
    <3>1. avail' = [avail EXCEPT !.graph = job[j].target]
      BY <1>11, <2>2 DEF MarkReady
    <3>2. /\ avail'.graph = job[j].target /\ avail'.desired = job[j].target
          /\ avail'.gen = avail.gen
      BY <3>1, <1>t, <2>2 DEF Avail
    <3>3. \A k \in Jobs : ~Rebuilding(k)'
      BY <1>f, <1>g, <1>o, <2>1 DEF LockOK, Rebuilding
    <3>4. avail.graph = None
      BY <1>g, <2>1 DEF AvailOK
    <3>5. \A q \in Askers : Leased(q) => ask[q].gen <= avail.gen /\ ask[q].gen # avail.gen
      BY <1>g, <3>4 DEF AvailOK
    <3>6. ~crossed => WholeCopy(graph, job[j].target)
      BY <1>g, <2>1, <2>2 DEF AllSteady, Believed, Steady
    <3>7. ~crossed' => WholeCopy(graph, avail.graph)'
      BY <2>1, <3>2, <3>6 DEF WholeCopy
    <3>8. AvailOK(avail)'
      BY <2>1, <3>2, <3>3, <3>5, <3>7 DEF AvailOK, Believed, Leased
    <3>9. AllSteady(avail)'
      BY <3>3 DEF AllSteady, Believed
    <3>10. ~Restorable
      BY <1>g, <1>t, <2>1, <2>2 DEF BeforeOK, Restorable, AvailOK, JobType
    <3>11. ~Restorable'
      BY <2>1, <3>2, <3>10 DEF Restorable
    <3> QED
      BY <1>f, <1>g, <2>1, <3>2, <3>8, <3>9, <3>11 DEF GraphOK, BeforeOK
  <2>3. CASE ~(avail.gen = job[j].gen /\ avail.desired = job[j].target)
    BY <1>11, <1>f, <1>m, <2>1, <2>3 DEF MarkReady
  <2> QED
    BY <2>2, <2>3
<1>12. CASE RoundFails(j)
  BY <1>12, <1>f, <1>m DEF RoundFails, Rebuilding, source, copy
<1> QED
  BY <1>1, <1>2, <1>3, <1>4, <1>5, <1>6, <1>7, <1>8, <1>9, <1>10, <1>11, <1>12 DEF JobStep

\* The steps of a question keep it.
LEMMA GraphAsk == ASSUME Typed, GraphOK, NEW q \in Askers, AskStep(q) PROVE GraphOK'
<1>t. avail \in Avail /\ sw.before \in Avail /\ ask[q] \in AskType /\ IdleAsk \in AskType
  BY IdleTypes DEF Typed, TypeOK, SwType
<1>g. LockOK /\ AvailOK(avail) /\ AllSteady(avail) /\ BeforeOK
  BY DEF GraphOK
<1>u. UNCHANGED <<pool, avail, graph, sw, job, lock, crossed>>
  BY DEF AskStep, Arrive, TakeLease, ReadGraph, AnswerGraph, AnswerSql, AskOnly, source, copy
<1>o. \A p \in Askers : p # q => ask'[p] = ask[p]
  BY DEF AskStep, Arrive, TakeLease, ReadGraph, AnswerGraph, AnswerSql, SetAsk, Typed, TypeOK
\* It is enough that what is said of leases stays true of this question.
<1>m. ASSUME NEW a \in Avail, AvailOK(a),
             Leased(q)' => /\ ask'[q].gen <= a.gen
                           /\ ask'[q].gen = a.gen => a.graph = ask'[q].name /\ a.graph # None,
             Leased(q)' /\ ask'[q].gen = a.gen /\ ~crossed => ask'[q].whole
      PROVE  AvailOK(a)'
  BY <1>m, <1>u, <1>o DEF AvailOK, Leased, Rebuilding, Believed, WholeCopy
<1>s. ASSUME AvailOK(avail)', Restorable => AvailOK(sw.before)' PROVE GraphOK'
  <2>1. LockOK' /\ Restorable' = Restorable
    BY <1>u, <1>g DEF LockOK, Restorable
  <2>2. \A a \in Avail : AllSteady(a) => AllSteady(a)'
    BY <1>u DEF AllSteady, Believed, Rebuilding, Steady, WholeCopy
  <2> QED
    BY <1>s, <1>u, <1>t, <1>g, <2>1, <2>2 DEF GraphOK, BeforeOK
<1>i. ASSUME ~Leased(q)' PROVE GraphOK'
  <2>1. \A a \in Avail : AvailOK(a) => AvailOK(a)'
    BY <1>i, <1>m DEF Leased
  <2> QED
    BY <1>t, <1>u, <1>g, <1>s, <2>1 DEF BeforeOK
<1>1. CASE Arrive(q)
  <2>1. ask'[q].pc = "choose"
    BY <1>1, <1>t DEF Arrive, SetAsk, AskType, Typed, TypeOK
  <2> QED
    BY <1>i, <2>1 DEF Leased
<1>2. CASE TakeLease(q)
  <2>1. /\ ask'[q].pc = "read" /\ ask'[q].gen = avail.gen /\ ask'[q].name = ask[q].name
        /\ ask'[q].whole
        /\ ask[q].name # None /\ avail.graph = ask[q].name
    BY <1>2, <1>t DEF TakeLease, SetAsk, Ready, AskType, Typed, TypeOK
  <2>2. AvailOK(avail)'
    BY <1>g, <1>t, <1>u, <1>m, <2>1 DEF Avail
  <2>3. ~Restorable
    BY <1>g, <2>1 DEF BeforeOK
  <2> QED
    BY <1>s, <2>2, <2>3
<1>3. CASE ReadGraph(q)
  <2>1. /\ ask[q].pc = "read" /\ ask'[q].pc \in {"read", "recheck"}
        /\ ask'[q].gen = ask[q].gen /\ ask'[q].name = ask[q].name
        /\ ask'[q].whole = (ask[q].whole /\ WholeCopy(graph, ask[q].name))
    BY <1>3, <1>t DEF ReadGraph, SetAsk, AskType, Typed, TypeOK
  <2>2. ASSUME NEW a \in Avail, AvailOK(a) PROVE AvailOK(a)'
    <3>1. /\ ask[q].gen <= a.gen
          /\ ask[q].gen = a.gen => a.graph = ask[q].name /\ a.graph # None
          /\ ~crossed /\ a.graph # None => WholeCopy(graph, a.graph)
          /\ ask[q].gen = a.gen /\ ~crossed => ask[q].whole
      BY <2>1, <2>2 DEF AvailOK, Leased
    <3>2. ask[q].gen = a.gen /\ ~crossed => ask'[q].whole
      BY <2>1, <3>1, Zenon
    <3> QED
      BY <1>m, <2>1, <2>2, <3>1, <3>2
  <2> QED
    BY <1>t, <1>u, <1>g, <1>s, <2>2 DEF BeforeOK
<1>4. CASE AnswerGraph(q)
  <2>1. ask'[q].pc \in {"idle", "choose"}
    <3>1. IdleAsk.pc = "idle" /\ [IdleAsk EXCEPT !.pc = "choose", !.name = ask[q].name].pc = "choose"
      BY <1>t DEF IdleAsk
    <3> QED
      BY <1>4, <3>1 DEF AnswerGraph, SetAsk, Typed, TypeOK
  <2> QED
    BY <1>i, <2>1 DEF Leased
<1>5. CASE AnswerSql(q)
  BY <1>5, <1>i DEF AnswerSql, SetAsk, IdleAsk, Leased, Typed, TypeOK
<1> QED
  BY <1>1, <1>2, <1>3, <1>4, <1>5 DEF AskStep

LEMMA GraphRest == Typed /\ GraphOK /\ (Night \/ Restart \/ UNCHANGED vars) => GraphOK'
<1> SUFFICES ASSUME Typed, GraphOK, Night \/ Restart \/ UNCHANGED vars PROVE GraphOK'
  OBVIOUS
<1>t. avail \in Avail /\ sw.before \in Avail
  BY DEF Typed, TypeOK, SwType
<1>g. LockOK /\ AvailOK(avail) /\ AllSteady(avail) /\ BeforeOK
  BY DEF GraphOK
<1>m. ASSUME UNCHANGED <<pool, avail, graph, sw, lock, ask, crossed>>,
             \A j \in Jobs : job'[j] = job[j] \/ (job[j].pc = "off" /\ job'[j].pc = "due")
      PROVE  GraphOK'
  <2>1. \A j \in Jobs : Rebuilding(j)' = Rebuilding(j) /\ (Rebuilding(j) => job'[j] = job[j])
    BY <1>m DEF Rebuilding
  <2>2. LockOK'
    BY <1>m, <1>g DEF LockOK
  <2>3. \A a \in Avail : AvailOK(a) => AvailOK(a)'
    BY <1>m, <2>1 DEF AvailOK, Believed, Leased, WholeCopy
  <2>4. ASSUME NEW a \in Avail, AllSteady(a) PROVE AllSteady(a)'
    <3> SUFFICES ASSUME ~crossed', NEW j \in Jobs, Believed(j, a)' PROVE Steady(j)'
      BY DEF AllSteady
    <3>1. Believed(j, a) /\ job'[j] = job[j] /\ pool' = pool /\ graph' = graph /\ ~crossed
      BY <1>m, <2>1 DEF Believed
    <3>2. Steady(j)
      BY <2>4, <3>1 DEF AllSteady
    <3> QED
      BY <3>1, <3>2 DEF Steady, WholeCopy
  <2> QED
    BY <1>m, <1>g, <1>t, <2>2, <2>3, <2>4 DEF GraphOK, BeforeOK, Restorable
<1>1. CASE Night
  <2>1. \A j \in Jobs : job'[j] = job[j] \/ (job[j].pc = "off" /\ job'[j].pc = "due")
    BY <1>1 DEF Night, At, Goto, Jobs, JobType, Typed, TypeOK
  <2> QED
    BY <1>1, <1>m, <2>1 DEF Night, source, copy
<1>2. CASE Restart
  <2>1. \A j \in Jobs : job'[j].pc \in {"off", "due"} /\ ~Rebuilding(j)'
    BY <1>2 DEF Restart, IdleJob, Rebuilding
  <2>2. \A q \in Askers : ask'[q].pc = "idle"
    BY <1>2 DEF Restart, IdleAsk
  <2>3. sw'.pc = "idle" /\ avail'.graph = None
    BY <1>2 DEF Restart, IdleSw, NoAvail
  <2> QED
    BY <2>1, <2>2, <2>3
    DEF GraphOK, LockOK, AvailOK, AllSteady, BeforeOK, Believed, Leased, Restorable
<1>3. CASE UNCHANGED vars
  BY <1>3, <1>m DEF vars
<1> QED
  BY <1>1, <1>2, <1>3

THEOREM GraphAlways == Spec => []GraphOK
<1>1. Typed /\ GraphOK /\ [Next]_vars => GraphOK'
  BY GraphSwitch, GraphJob, GraphAsk, GraphRest DEF Next
<1> QED
  BY <1>1, GraphInit, TypedAlways, PTL DEF Spec

\* ReadyIsWhole: as long as no rebuild went blind, the graph that questions may use is the
\* finished copy of one database, the one they name, however switches and rebuilds overlap.
THEOREM GraphIsWhole == Spec => []ReadyIsWhole
<1>1. GraphOK => ReadyIsWhole
  BY DEF GraphOK, AvailOK, ReadyIsWhole, Ready
<1> QED
  BY <1>1, GraphAlways, PTL

\* GraphAnswersWhole: what an answer of the graph was read from was such a copy.
THEOREM AnswersAreWhole == Spec => GraphAnswersWhole
<1> DEFINE Whole == \A q \in Askers :
                        AnswerGraph(q) /\ ask'[q].pc = "idle" /\ ~crossed => ask[q].whole
<1>1. Typed /\ GraphOK => Whole
  <2> SUFFICES ASSUME Typed, GraphOK, NEW q \in Askers, AnswerGraph(q),
                      ask'[q].pc = "idle", ~crossed
               PROVE  ask[q].whole
    OBVIOUS
  <2>1. ask[q].pc = "recheck" /\ avail.gen = ask[q].gen
    <3>1. [IdleAsk EXCEPT !.pc = "choose", !.name = ask[q].name].pc # "idle"
      BY DEF IdleAsk
    <3> QED
      BY <3>1 DEF AnswerGraph, SetAsk, Typed, TypeOK
  <2> QED
    BY <2>1 DEF GraphOK, AvailOK, Leased
<1>2. Typed /\ GraphOK => [Whole]_vars
  BY <1>1
<1> QED
  BY <1>2, TypedAlways, GraphAlways, PTL DEF GraphAnswersWhole

(***************************************************************************)
(* The last successful switch                                              *)
(***************************************************************************)

\* On its way to success the name is on the pool first and kept second.
Kept ==
    /\ sw.pc = "kv" => pool = sw.to
    /\ sw.pc \in {"patch", "mark"} => kv = pool.name
    /\ SuccessSurvivesRestart

LEMMA KeptNext == Typed /\ Kept /\ [Next]_vars => Kept'
<1> SUFFICES ASSUME Typed, Kept, [Next]_vars PROVE Kept'
  OBVIOUS
<1> USE DEF Kept, SuccessSurvivesRestart
<1>t. sw \in SwType
  BY DEF Typed, TypeOK
<1>e. \A reply \in {"ok", "error", "dropped"} :
          EndSwitch(reply) => sw'.pc = "idle" /\ sw'.reply = reply
  BY DEF EndSwitch, IdleSw
<1>i. \A to, kind : Invalidate(to, kind) => sw'.pc = "swap"
  BY DEF Invalidate
<1>1. CASE SwitchStep
  <2>1. CASE SetDbTarget \/ PutCurrentTarget \/ PatchFails
    BY <2>1, <1>i DEF SetDbTarget, PutCurrentTarget, PatchFails
  <2>2. CASE PutOtherTarget
    BY <2>2 DEF PutOtherTarget
  <2>3. CASE Swap
    BY <2>3, <1>t DEF Swap, Install, SwType
  <2>4. CASE SwapFails
    BY <2>4, <1>e DEF SwapFails
  <2>5. CASE WriteKv
    BY <2>5, <1>t, <1>e DEF WriteKv, SwType
  <2>6. CASE WriteKvFails
    BY <2>6, <1>t DEF WriteKvFails, SwType
  <2>7. CASE Rollback \/ RollbackFails
    BY <2>7, <1>e DEF Rollback, RollbackFails
  <2>8. CASE Patch
    BY <2>8, <1>t DEF Patch, SwType
  <2>9. CASE AfterSwitch
    BY <2>9, <1>e DEF AfterSwitch, source
  <2>10. CASE DropHandler
    BY <2>10, <1>e DEF DropHandler
  <2> QED
    BY <1>1, <2>1, <2>2, <2>3, <2>4, <2>5, <2>6, <2>7, <2>8, <2>9, <2>10 DEF SwitchStep
<1>2. CASE Restart
  BY <1>2 DEF Restart, IdleSw
<1>3. CASE Night \/ (\E j \in Jobs : JobStep(j)) \/ (\E q \in Askers : AskStep(q)) \/ UNCHANGED vars
  <2>1. UNCHANGED <<pool, kv, sw>>
    BY <1>3 DEF vars, source, Night, JobStep, ReadTarget, BeginSync, ReadEdges, ReadDims, ReadPart,
       CheckEdges, CheckBuilt, EnsureTarget, DropGraph, BuildEdges, BuildCatalog, Insert,
       WriteMarker, MarkReady, RoundFails,
       AskStep, Arrive, TakeLease, ReadGraph, AnswerGraph, AnswerSql, AskOnly
  <2> QED
    BY <2>1
<1> QED
  BY <1>1, <1>2, <1>3 DEF Next

\* SuccessSurvivesRestart: what the last switch was told it did is what a restart finds.
THEOREM SuccessIsKept == Spec => []SuccessSurvivesRestart
<1>1. Init => Kept
  BY DEF Init, IdleSw, Kept, SuccessSurvivesRestart
<1>2. Kept => SuccessSurvivesRestart
  BY DEF Kept
<1> QED
  BY <1>1, <1>2, KeptNext, TypedAlways, PTL DEF Spec
=============================================================================
