-------------------------- MODULE DeepRun_proofs --------------------------
(***************************************************************************)
(* Proofs about the run ledger of a deep report, for any number of          *)
(* handlers, any plan size and any faults.                                  *)
(***************************************************************************)
EXTENDS DeepRun, TLAPS

\* What an action may do to the handlers' local state, named so that the steps
\* below expand as little as they can.
USE DEF Sections, RunStates, SectionStates, WorkStates, Steps

\* The initial state satisfies the inductive invariant.
LEMMA InitIInv == Init => IInv
<1> SUFFICES ASSUME Init PROVE IInv
  OBVIOUS
<1>1. TypeOK
  BY DEF Init, TypeOK, NoWork
<1>2. SingleExecutor
  BY DEF Init, SingleExecutor
<1>3. Owned
  BY DEF Init, Owned, OwnedBy, GuardHeld, RowOwned, SectionsOwned
<1>4. QED
  BY <1>1, <1>2, <1>3 DEF IInv

\* A handler that leaves keeps every variable it touches well typed.
LEMMA LeaveType ==
    ASSUME TypeOK, NEW q \in Requests, Leave(q)
    PROVE  /\ active' \in BOOLEAN
           /\ pc' \in [Requests -> Steps]
           /\ kind' \in [Requests -> {"compose", "resume"}]
           /\ guard' \in [Requests -> BOOLEAN]
           /\ seen' \in [Requests -> RunStates]
           /\ work' \in [Requests -> [Sections -> WorkStates]]
           /\ goal' \in [Requests -> {"absent", "done", "failed"}]
           /\ out' \in [Requests -> {"none", "ok", "silent", "err"}]
BY DEF TypeOK, Leave, Goto, DropGuard, NoWork

\* Every step of the run keeps the variables in their types.
LEMMA NextType == ASSUME TypeOK, [Next]_vars PROVE TypeOK'
<1>1. CASE UNCHANGED vars
  BY <1>1 DEF TypeOK, vars
<1>2. ASSUME NEW q \in Requests, StartCompose(q) PROVE TypeOK'
  BY <1>2 DEF TypeOK, StartCompose, Goto, locals
<1>3. ASSUME NEW q \in Requests, StartResume(q) PROVE TypeOK'
  BY <1>3 DEF TypeOK, StartResume, Goto, counters
<1>4. ASSUME NEW q \in Requests, Load(q) PROVE TypeOK'
  <2>1. CASE run \in {"absent", "done"}
    BY <1>4, <2>1, LeaveType DEF TypeOK, Load, counters
  <2>2. CASE run \notin {"absent", "done"}
    <3>1. seen' \in [Requests -> RunStates] /\ pc' \in [Requests -> Steps]
      BY SMTT(30), <1>4, <2>2 DEF TypeOK, Load, Goto
    <3>2. QED
      BY <1>4, <2>2, <3>1 DEF TypeOK, Load, counters
  <2>3. QED
    BY <2>1, <2>2
<1>5. ASSUME NEW q \in Requests, Judge(q) PROVE TypeOK'
  BY ZenonT(60), <1>5, LeaveType DEF TypeOK, Judge, Goto, counters, locals
<1>6. ASSUME NEW q \in Requests, Reap(q) PROVE TypeOK'
  BY <1>6 DEF TypeOK, Reap, Goto, counters, locals
<1>7. ASSUME NEW q \in Requests, Claim(q) PROVE TypeOK'
  BY ZenonT(60), <1>7, LeaveType DEF TypeOK, Claim, Goto, counters, locals
<1>8. ASSUME NEW q \in Requests, Flip(q) PROVE TypeOK'
  BY <1>8, LeaveType DEF TypeOK, Flip, Goto, counters, locals
<1>9. ASSUME NEW q \in Requests, ReadPlan(q) PROVE TypeOK'
  <2>1. work' \in [Requests -> [Sections -> WorkStates]]
    BY <1>9 DEF TypeOK, ReadPlan, Taken
  <2>2. goal' \in [Requests -> {"absent", "done", "failed"}] /\ pc' \in [Requests -> Steps]
    BY ZenonT(60), <1>9 DEF TypeOK, ReadPlan, Goto
  <2>3. QED
    BY <1>9, <2>1, <2>2 DEF TypeOK, ReadPlan, counters
<1>10. ASSUME NEW q \in Requests, AnswerEarly(q) PROVE TypeOK'
  BY <1>10 DEF TypeOK, AnswerEarly, FaultIfResumed, Fault, Goto
<1>11. ASSUME NEW q \in Requests, QueryFails(q) PROVE TypeOK'
  BY <1>11 DEF TypeOK, QueryFails, Fault, Goto
<1>12. ASSUME NEW q \in Requests, PlanReady(q) PROVE TypeOK'
  BY <1>12 DEF TypeOK, PlanReady, Goto, counters, locals
<1>13. ASSUME NEW q \in Requests, NoPlan(q) PROVE TypeOK'
  BY <1>13 DEF TypeOK, NoPlan, FaultIfResumed, Fault, Goto, locals
<1>14. ASSUME NEW q \in Requests, Open(q) PROVE TypeOK'
  BY <1>14 DEF TypeOK, Open, Rebuild, Fresh, FreshWork, Goto, counters
<1>15. ASSUME NEW q \in Requests, OpenFails(q) PROVE TypeOK'
  BY <1>15 DEF TypeOK, OpenFails, Rebuild, Fresh, DropGuard, Fault, Goto, locals
<1>16. ASSUME NEW q \in Requests, NEW i \in Sections, StartSection(q, i) PROVE TypeOK'
  BY <1>16 DEF TypeOK, StartSection, SetWork, counters
<1>17. ASSUME NEW q \in Requests, NEW i \in Sections, RunSection(q, i) PROVE TypeOK'
  BY <1>17 DEF TypeOK, RunSection, SetWork, counters
<1>18. ASSUME NEW q \in Requests, NEW i \in Sections, SaveSection(q, i) PROVE TypeOK'
  BY <1>18 DEF TypeOK, SaveSection, SetWork, counters
<1>19. ASSUME NEW q \in Requests, NEW i \in Sections, SaveSectionFails(q, i) PROVE TypeOK'
  BY <1>19 DEF TypeOK, SaveSectionFails, SetWork, Fault
<1>20. ASSUME NEW q \in Requests, SectionsOver(q) PROVE TypeOK'
  BY <1>20 DEF TypeOK, SectionsOver, Goto, counters, locals
<1>21. ASSUME NEW q \in Requests, SaveReport(q) \/ SaveReportFails(q) \/ EmptyReport(q)
       PROVE  TypeOK'
  <2>1. faults' \in Nat
    BY <1>21 DEF TypeOK, SaveReport, SaveReportFails, EmptyReport, Fault
  <2>2. PICK state \in {"done", "failed"}, answer \in {"ok", "err"} : Conclude(q, state, answer)
    BY <1>21 DEF SaveReport, SaveReportFails, EmptyReport
  <2>3. pc' \in [Requests -> Steps]
    BY <2>2 DEF TypeOK, Conclude, Goto
  <2>4. QED
    BY <2>1, <2>2, <2>3 DEF TypeOK, Conclude
<1>22. ASSUME NEW q \in Requests, FinishRow(q) PROVE TypeOK'
  BY <1>22 DEF TypeOK, FinishRow, Goto, counters, locals
<1>23. ASSUME NEW q \in Requests, FinishRowFails(q) PROVE TypeOK'
  <2>1. run' \in RunStates /\ faults' \in Nat
    BY <1>23 DEF TypeOK, FinishRowFails, Fault
  <2>2. CASE pc[q] = "finish"
    BY <1>23, <2>1, <2>2 DEF TypeOK, FinishRowFails, Goto, locals
  <2>3. CASE pc[q] # "finish"
    BY <1>23, <2>1, <2>3, LeaveType DEF TypeOK, FinishRowFails
  <2>4. QED
    BY <2>2, <2>3
<1>24. ASSUME NEW q \in Requests, Settle(q) PROVE TypeOK'
  BY ZenonT(60), <1>24, LeaveType DEF TypeOK, Settle, Goto, counters, locals
<1>25. ASSUME NEW q \in Requests, SettleFails(q) PROVE TypeOK'
  BY <1>25, LeaveType DEF TypeOK, SettleFails, Fault, Goto, locals
<1>26. ASSUME NEW q \in Requests, Return(q) PROVE TypeOK'
  BY SMTT(30), <1>26, LeaveType DEF TypeOK, Return, Goto, counters
<1>27. ASSUME NEW q \in Requests, Cancel(q) PROVE TypeOK'
  BY <1>27, LeaveType DEF TypeOK, Cancel, Fault
<1>28. CASE Crash
  <2>1. work' \in [Requests -> [Sections -> WorkStates]] /\ faults' \in Nat
    BY <1>28 DEF TypeOK, Crash, Fault, NoWork
  <2>2. QED
    BY <1>28, <2>1 DEF TypeOK, Crash
<1>29. QED
  BY <1>1, <1>2, <1>3, <1>4, <1>5, <1>6, <1>7, <1>8, <1>9, <1>10, <1>11, <1>12, <1>13,
     <1>14, <1>15, <1>16, <1>17, <1>18, <1>19, <1>20, <1>21, <1>22, <1>23, <1>24, <1>25,
     <1>26, <1>27, <1>28 DEF Next, Step, Failure

\* Whoever leaves takes the gate's mark away only if the guard was his.
LEMMA DropGuardExclusive ==
    ASSUME TypeOK, SingleExecutor, NEW q \in Requests, DropGuard(q)
    PROVE  SingleExecutor'
<1>1. \A r, s \in Requests : guard'[r] /\ guard'[s] => r = s
  BY DEF TypeOK, SingleExecutor, DropGuard
<1>2. CASE guard[q]
  <2>1. ~active' /\ \A r \in Requests : ~guard'[r]
    BY ZenonT(60), <1>2 DEF TypeOK, SingleExecutor, DropGuard
  <2>2. QED
    BY <1>1, <2>1 DEF SingleExecutor
<1>3. CASE ~guard[q]
  <2>1. active' = active /\ guard' = guard
    BY <1>3 DEF TypeOK, DropGuard
  <2>2. QED
    BY <2>1 DEF SingleExecutor
<1>4. QED
  BY <1>2, <1>3

\* No step lets a second handler in, and none shuts the gate behind nobody.
LEMMA NextExclusive ==
    ASSUME TypeOK, SingleExecutor, [Next]_vars
    PROVE  SingleExecutor'
<1>1. CASE UNCHANGED <<guard, active>>
  BY <1>1 DEF SingleExecutor
<1>2. ASSUME NEW q \in Requests, DropGuard(q)
      PROVE  SingleExecutor'
  BY <1>2, DropGuardExclusive
<1>3. ASSUME NEW q \in Requests, Claim(q), ~Leave(q)
      PROVE  SingleExecutor'
  <2>1. ~active /\ active' = TRUE /\ guard' = [guard EXCEPT ![q] = TRUE]
    BY <1>3 DEF Claim, AlreadyClaimed, TypeOK
  <2>2. \A r \in Requests : guard'[r] <=> r = q
    BY <2>1 DEF TypeOK, SingleExecutor
  <2>3. QED
    BY <2>1, <2>2 DEF SingleExecutor
<1>4. CASE Crash
  BY <1>4 DEF Crash, SingleExecutor
<1>5. QED
  <2>1. ASSUME NEW q \in Requests, Step(q)
        PROVE  UNCHANGED <<guard, active>> \/ DropGuard(q) \/ (Claim(q) /\ ~Leave(q))
    BY <2>1 DEF Step, Load, Judge, Reap, Claim, Flip, ReadPlan, AnswerEarly, PlanReady,
          NoPlan, Open, StartSection, RunSection, SaveSection, SectionsOver, SaveReport,
          Conclude, FinishRow, Settle, Return, Leave
  <2>2. ASSUME NEW q \in Requests, Failure(q)
        PROVE  UNCHANGED <<guard, active>> \/ DropGuard(q)
    BY <2>2 DEF Failure, QueryFails, OpenFails, SaveSectionFails, SaveReportFails,
          EmptyReport, Conclude, FinishRowFails, SettleFails, Cancel, Leave
  <2>3. ASSUME NEW q \in Requests, StartCompose(q) \/ StartResume(q)
        PROVE  UNCHANGED <<guard, active>>
    BY <2>3 DEF StartCompose, StartResume
  <2>4. QED
    BY <1>1, <1>2, <1>3, <1>4, <2>1, <2>2, <2>3 DEF Next, vars

\* The types of the variables, for any handlers, plans and faults.
THEOREM TypeCorrect == Spec => []TypeOK
<1>1. Init => TypeOK
  BY InitIInv DEF IInv
<1>2. TypeOK /\ [Next]_vars => TypeOK'
  BY NextType
<1>3. QED
  BY <1>1, <1>2, PTL DEF Spec

\* One executor of a run at a time, and the gate open exactly when there is none.
THEOREM MutualExclusion == Spec => []SingleExecutor
<1>1. Init => SingleExecutor
  BY InitIInv DEF IInv
<1>2. TypeOK /\ SingleExecutor /\ [Next]_vars => SingleExecutor'
  BY NextExclusive
<1>3. QED
  BY <1>1, <1>2, TypeCorrect, PTL DEF Spec

(***************************************************************************)
(* The ledger belongs to the gate's owner                                  *)
(***************************************************************************)
\* Handler r takes no part in the step.
Kept(r) ==
    /\ pc'[r] = pc[r]
    /\ guard'[r] = guard[r]
    /\ kind'[r] = kind[r]
    /\ goal'[r] = goal[r]
    /\ out'[r] = out[r]
    /\ work'[r] = work[r]

\* A step of q leaves what the others rely on alone if it leaves the ledger alone
\* or if q owns the gate, for then nobody else relies on anything.
LEMMA OthersKept ==
    ASSUME IInv, NEW q \in Requests, NEW r \in Requests, r # q, Kept(r),
           UNCHANGED ledger \/ guard[q]
    PROVE  OwnedBy(r)'
<1>1. OwnedBy(r)
  BY DEF IInv, Owned
<1>2. CASE UNCHANGED ledger
  <2>1. UNCHANGED run /\ UNCHANGED section
    BY <1>2 DEF ledger
  <2>2. QED
    BY <1>1, <2>1 DEF Kept, OwnedBy, GuardHeld, RowOwned, SectionsOwned, Unfinished, Agrees
<1>3. CASE guard[q]
  <2>1. ~guard[r] /\ guard'[r] = guard[r]
    BY <1>3 DEF IInv, SingleExecutor, Kept
  <2>2. QED
    BY <1>1, <2>1 DEF Kept, OwnedBy, GuardHeld, RowOwned, SectionsOwned
<1>4. QED
  BY <1>2, <1>3

\* A handler that has left relies on nothing.
LEMMA LeftOwned ==
    ASSUME TypeOK, NEW q \in Requests, Leave(q)
    PROVE  OwnedBy(q)' /\ \A r \in Requests \ {q} : Kept(r)
<1>1. pc'[q] = "idle" /\ guard'[q] = FALSE /\ kind'[q] = "compose"
  BY DEF TypeOK, Leave, Goto, DropGuard
<1>2. OwnedBy(q)'
  BY <1>1 DEF OwnedBy, GuardHeld, RowOwned, SectionsOwned
<1>3. QED
  BY <1>2 DEF TypeOK, Leave, Goto, DropGuard, Kept

\* Each step of a handler leaves its own part of the invariant true.
LEMMA StepOwned ==
    ASSUME IInv, NEW q \in Requests, StartCompose(q) \/ StartResume(q) \/ Step(q) \/ Failure(q)
    PROVE  /\ OwnedBy(q)'
           /\ \A r \in Requests \ {q} : Kept(r)
           /\ UNCHANGED ledger \/ guard[q] \/ Reap(q)
<1> USE DEF ledger, locals
<1>0. TypeOK /\ OwnedBy(q)
  BY DEF IInv, Owned
<1>1. ASSUME Leave(q), UNCHANGED ledger \/ guard[q]
      PROVE  /\ OwnedBy(q)'
             /\ \A r \in Requests \ {q} : Kept(r)
             /\ UNCHANGED ledger \/ guard[q]
  BY <1>0, <1>1, LeftOwned
<1> USE DEF OwnedBy, Kept, Goto
<1>2. CASE StartCompose(q)
  BY <1>0, <1>2 DEF StartCompose, TypeOK, GuardHeld, RowOwned, SectionsOwned
<1>3. CASE StartResume(q)
  BY <1>0, <1>3 DEF StartResume, TypeOK, GuardHeld, RowOwned, SectionsOwned
<1>4. CASE Load(q)
  BY <1>0, <1>1, <1>4 DEF Load, TypeOK, GuardHeld, RowOwned, SectionsOwned
<1>5. CASE Judge(q)
  BY <1>0, <1>1, <1>5 DEF Judge, TypeOK, GuardHeld, RowOwned, SectionsOwned
<1>6. CASE Reap(q)
  BY <1>0, <1>6 DEF Reap, TypeOK, GuardHeld, RowOwned, SectionsOwned
<1>7. CASE Claim(q)
  BY <1>0, <1>1, <1>7 DEF Claim, TypeOK, GuardHeld, RowOwned, SectionsOwned
<1>8. CASE Flip(q)
  BY <1>0, <1>1, <1>8 DEF Flip, Flippable, TypeOK, GuardHeld, RowOwned, SectionsOwned
<1>9. CASE ReadPlan(q)
  <2>1. GuardHeld(q)'
    BY <1>0, <1>9 DEF ReadPlan, TypeOK, GuardHeld
  <2>2. RowOwned(q)'
    BY <1>0, <1>9 DEF ReadPlan, TypeOK, GuardHeld, RowOwned, Unfinished
  <2>3. SectionsOwned(q)'
    <3>1. CASE \A i \in Sections : section[i] = "none"
      BY <1>0, <1>9, <3>1 DEF ReadPlan, TypeOK, SectionsOwned
    <3>2. CASE ~\A i \in Sections : section[i] = "none"
      <4>1. /\ section' = section
            /\ work' = [work EXCEPT ![q] = [i \in Sections |-> Taken(section[i])]]
        BY <1>9, <3>2 DEF ReadPlan
      <4>2. \A i \in Sections : work'[q][i] = Taken(section[i])
        BY <1>0, <4>1 DEF TypeOK
      <4>3. QED
        BY <1>0, <4>1, <4>2 DEF TypeOK, Taken, SectionsOwned, Agrees
    <3>3. QED
      BY <3>1, <3>2
  <2>4. \A r \in Requests \ {q} : Kept(r)
    BY <1>0, <1>9 DEF ReadPlan, TypeOK
  <2>5. QED
    BY <1>9, <2>1, <2>2, <2>3, <2>4 DEF ReadPlan
<1>10. CASE AnswerEarly(q)
  BY <1>0, <1>10 DEF AnswerEarly, TypeOK, GuardHeld, RowOwned, SectionsOwned, Unfinished
<1>11. CASE QueryFails(q)
  BY <1>0, <1>11 DEF QueryFails, TypeOK, GuardHeld, RowOwned, SectionsOwned, Unfinished
<1>12. CASE PlanReady(q)
  BY <1>0, <1>12 DEF PlanReady, TypeOK, GuardHeld, RowOwned, SectionsOwned, Agrees
<1>13. CASE NoPlan(q)
  BY <1>0, <1>13 DEF NoPlan, TypeOK, GuardHeld, RowOwned, SectionsOwned
<1>14. CASE Open(q)
  BY <1>0, <1>14 DEF Open, Rebuild, Fresh, FreshWork, TypeOK, GuardHeld, RowOwned,
     SectionsOwned, Agrees
<1>15. CASE OpenFails(q)
  BY <1>0, <1>15 DEF OpenFails, Rebuild, DropGuard, TypeOK, GuardHeld, RowOwned,
     SectionsOwned
<1>16. ASSUME NEW i \in Sections, StartSection(q, i) \/ RunSection(q, i) \/ SaveSectionFails(q, i)
       PROVE  /\ OwnedBy(q)'
              /\ \A r \in Requests \ {q} : Kept(r)
              /\ UNCHANGED ledger
  <2>1. PICK state \in {"running", "good", "bad", "over"} :
           /\ SetWork(q, i, state)
           /\ pc[q] = "work" /\ work[q][i] \in {"todo", "running", "good", "bad"}
           /\ UNCHANGED <<run, section, pc, kind, guard, goal, out>>
    BY <1>16 DEF StartSection, RunSection, SaveSectionFails
  <2>2. GuardHeld(q)' /\ RowOwned(q)'
    BY <1>0, <2>1 DEF GuardHeld, RowOwned, Unfinished
  <2>3. SectionsOwned(q)'
    BY <1>0, <2>1 DEF SetWork, TypeOK, SectionsOwned, Agrees
  <2>4. \A r \in Requests \ {q} : Kept(r)
    BY <1>0, <2>1 DEF SetWork, TypeOK
  <2>5. QED
    BY <2>1, <2>2, <2>3, <2>4
<1>17. ASSUME NEW i \in Sections, SaveSection(q, i)
       PROVE  /\ OwnedBy(q)'
              /\ \A r \in Requests \ {q} : Kept(r)
              /\ guard[q]
  BY ZenonT(60), <1>0, <1>17 DEF SaveSection, SetWork, TypeOK, GuardHeld, RowOwned, SectionsOwned, Agrees
<1>18. CASE SectionsOver(q)
  BY <1>0, <1>18 DEF SectionsOver, TypeOK, GuardHeld, RowOwned, SectionsOwned, Agrees
<1>19. CASE SaveReport(q) \/ SaveReportFails(q) \/ EmptyReport(q)
  BY <1>0, <1>19 DEF SaveReport, SaveReportFails, EmptyReport, Conclude, TypeOK, GuardHeld,
     RowOwned, SectionsOwned, Unfinished
<1>20. CASE FinishRow(q)
  BY <1>0, <1>20 DEF FinishRow, TypeOK, GuardHeld, RowOwned, SectionsOwned, Unfinished
<1>21. CASE FinishRowFails(q)
  BY <1>0, <1>1, <1>21 DEF FinishRowFails, TypeOK, GuardHeld, RowOwned, SectionsOwned, Unfinished
<1>22. CASE Settle(q) \/ SettleFails(q)
  BY <1>0, <1>1, <1>22 DEF Settle, SettleFails, TypeOK, GuardHeld, RowOwned, SectionsOwned,
     Unfinished
<1>23. CASE Return(q)
  BY <1>0, <1>1, <1>23 DEF Return, TypeOK, GuardHeld, RowOwned, SectionsOwned, Unfinished
<1>24. CASE Cancel(q)
  BY <1>0, <1>1, <1>24 DEF Cancel
<1>25. QED
  BY <1>2, <1>3, <1>4, <1>5, <1>6, <1>7, <1>8, <1>9, <1>10, <1>11, <1>12, <1>13, <1>14,
     <1>15, <1>16, <1>17, <1>18, <1>19, <1>20, <1>21, <1>22, <1>23, <1>24 DEF Step, Failure

\* Every step of the run, a crash included, keeps what each handler relies on.
LEMMA NextOwned == ASSUME IInv, [Next]_vars PROVE Owned'
<1>1. CASE UNCHANGED vars
  BY <1>1 DEF IInv, vars, Owned, OwnedBy, GuardHeld, RowOwned, SectionsOwned, Unfinished,
     Agrees
<1>2. CASE Crash
  <2>1. \A r \in Requests : pc'[r] = "idle" /\ guard'[r] = FALSE /\ kind'[r] = "compose"
    BY <1>2 DEF Crash
  <2>2. QED
    BY <2>1 DEF Owned, OwnedBy, GuardHeld, RowOwned, SectionsOwned
<1>3. ASSUME NEW q \in Requests,
             StartCompose(q) \/ StartResume(q) \/ Step(q) \/ Failure(q)
      PROVE  Owned'
  <2>1. /\ OwnedBy(q)'
        /\ \A r \in Requests \ {q} : Kept(r)
        /\ UNCHANGED ledger \/ guard[q] \/ Reap(q)
    BY <1>3, StepOwned
  <2>2. ASSUME NEW r \in Requests, r # q PROVE OwnedBy(r)'
    <3>1. CASE UNCHANGED ledger \/ guard[q]
      BY <2>1, <2>2, <3>1, OthersKept
    \* Reap may interrupt the run of a live executor, but takes nothing from it.
    <3>2. CASE Reap(q)
      <4>1. OwnedBy(r) /\ Kept(r)
        BY <2>1, <2>2 DEF IInv, Owned
      <4>2. /\ run \in {"running", "interrupted"} => run' \in {"running", "interrupted"}
            /\ Unfinished => Unfinished'
            /\ \A i \in Sections : /\ section'[i] = "done" <=> section[i] = "done"
                                   /\ section'[i] = "none" <=> section[i] = "none"
        BY <3>2 DEF Reap, Unfinished
      <4>3. QED
        BY <4>1, <4>2 DEF Kept, OwnedBy, GuardHeld, RowOwned, SectionsOwned, Agrees
    <3>3. QED
      BY <2>1, <3>1, <3>2
  <2>3. QED
    BY <2>1, <2>2 DEF Owned
<1>4. QED
  BY <1>1, <1>2, <1>3 DEF Next

\* The inductive invariant: the types, the gate, and the ledger as each step of the
\* gate's owner expects to find it.
THEOREM Inductive == Spec => []IInv
<1>1. IInv /\ [Next]_vars => IInv'
  BY NextType, NextExclusive, NextOwned DEF IInv
<1>2. QED
  BY InitIInv, <1>1, PTL DEF Spec

\* A live executor's ledger changes under its own hands only: nothing it restored
\* is lost, nothing finished is run once more.
THEOREM NoRework == Spec => []LedgerAgrees
<1>1. IInv => LedgerAgrees
  BY DEF IInv, Owned, OwnedBy, RowOwned, SectionsOwned, LedgerAgrees
<1>2. QED
  BY Inductive, <1>1, PTL

(***************************************************************************)
(* The handlers together implement the one worker of RunLedger             *)
(***************************************************************************)
Stutter == UNCHANGED <<LedgerState, LedgerResults, Busy>>

\* A step that changes nothing the abstract run is made of is a stutter.
LEMMA StutterRefines == Stutter => [Ledger!Next]_Ledger!vars
BY DEF Stutter, Ledger!vars

\* The gate's owner is the only handler that can make the run busy.
LEMMA OwnerBusy ==
    ASSUME IInv, NEW q \in Requests, guard[q]
    PROVE  Busy <=> pc[q] \in Executing
BY DEF IInv, SingleExecutor, Busy, Executor

\* A handler outside the gate changes nothing the abstract run can see.
LEMMA OutsiderBusy ==
    ASSUME NEW q \in Requests, ~guard[q], ~guard'[q],
           \A r \in Requests \ {q} : Kept(r)
    PROVE  Busy' <=> Busy
BY DEF Busy, Executor, Kept

\* Before the first request there is no abstract run either.
LEMMA InitRefines == Init => Ledger!Init
BY DEF Init, Ledger!Init, LedgerState, LedgerResults, Busy, Executor

\* Leaving is leaving the abstract run, or nothing at all.
LEMMA LeaveRefines ==
    ASSUME IInv, NEW q \in Requests, Leave(q), UNCHANGED <<LedgerState, LedgerResults>>
    PROVE  [Ledger!Next]_Ledger!vars
<1>1. TypeOK /\ ~guard'[q] /\ \A r \in Requests \ {q} : Kept(r)
  BY LeftOwned DEF IInv, Leave, DropGuard, TypeOK
<1>2. CASE guard[q]
  <2>1. ~Busy'
    BY <1>1, <1>2 DEF IInv, SingleExecutor, Busy, Executor, Kept
  <2>2. CASE Busy
    <3>1. Ledger!Leave
      BY <2>1, <2>2 DEF Ledger!Leave
    <3>2. QED
      BY <3>1 DEF Ledger!Next
  <2>3. CASE ~Busy
    <3>1. Busy' = Busy
      BY <2>1, <2>3 DEF Busy
    <3>2. QED
      BY <3>1, StutterRefines DEF Stutter
  <2>4. QED
    BY <2>2, <2>3
<1>3. CASE ~guard[q]
  BY <1>1, <1>3, OutsiderBusy, StutterRefines DEF Stutter, Busy
<1>4. QED
  BY <1>2, <1>3

\* The same of the next state: the owner alone decides whether the run is busy.
LEMMA OwnerBusyNext ==
    ASSUME IInv', NEW q \in Requests, guard'[q]
    PROVE  Busy' <=> pc'[q] \in Executing
BY DEF IInv, SingleExecutor, Busy, Executor

\* A step inside or outside the executing part is invisible.
LEMMA MoveRefines ==
    ASSUME IInv, IInv', NEW q \in Requests, guard'[q] = guard[q],
           \A r \in Requests \ {q} : Kept(r),
           guard[q] => (pc[q] \in Executing <=> pc'[q] \in Executing),
           UNCHANGED <<LedgerState, LedgerResults>>
    PROVE  [Ledger!Next]_Ledger!vars
<1>1. Busy' <=> Busy
  <2>1. CASE guard[q]
    BY <2>1, OwnerBusy, OwnerBusyNext
  <2>2. CASE ~guard[q]
    BY <2>2, OutsiderBusy
  <2>3. QED
    BY <2>1, <2>2
<1>2. QED
  BY <1>1, StutterRefines DEF Stutter, Busy

\* The steps that only walk: neither the row nor a section changes.
LEMMA WalkRefines ==
    ASSUME IInv, IInv', NEW q \in Requests, UNCHANGED ledger, ~Open(q),
           StartCompose(q) \/ StartResume(q) \/ Step(q) \/ Failure(q)
    PROVE  [Ledger!Next]_Ledger!vars
<1>1. UNCHANGED <<LedgerState, LedgerResults>>
  BY DEF ledger, LedgerState, LedgerResults
<1>2. TypeOK /\ OwnedBy(q) /\ \A r \in Requests \ {q} : Kept(r)
  BY StepOwned DEF IInv, Owned
<1>3. CASE Leave(q)
  BY <1>1, <1>3, LeaveRefines
<1>4. CASE OpenFails(q)
  <2>1. guard[q] /\ ~guard'[q] /\ pc[q] = "open"
    BY <1>2, <1>4 DEF OpenFails, DropGuard, TypeOK, OwnedBy, GuardHeld
  <2>2. ~Busy
    BY <2>1, OwnerBusy DEF Executing
  <2>3. ~Busy'
    BY <1>2, <2>1 DEF IInv, SingleExecutor, Busy, Executor, Kept
  <2>4. QED
    BY <1>1, <2>2, <2>3, StutterRefines DEF Stutter, Busy
<1>5. CASE Claim(q) /\ ~Leave(q)
  <2>1. /\ \A r \in Requests : ~guard[r]
        /\ pc'[q] \notin Executing
        /\ guard'[q]
    BY <1>2, <1>5 DEF Claim, AlreadyClaimed, IInv, SingleExecutor, TypeOK, Goto, Executing
  <2>2. ~Busy /\ ~Busy'
    BY <2>1, OwnerBusyNext DEF Busy, Executor
  <2>3. QED
    BY <1>1, <2>2, StutterRefines DEF Stutter, Busy
<1>6. CASE guard'[q] = guard[q] /\ (guard[q] => (pc[q] \in Executing <=> pc'[q] \in Executing))
  BY <1>1, <1>2, <1>6, MoveRefines
<1>7. CASE StartCompose(q) \/ StartResume(q) \/ ((Load(q) \/ Judge(q) \/ Reap(q)) /\ ~Leave(q))
  <2>1. guard' = guard /\ ~guard[q]
    BY <1>2, <1>7 DEF StartCompose, StartResume, Load, Judge, Reap, OwnedBy, GuardHeld
  <2>2. QED
    BY <1>6, <2>1
<1>8. CASE Flip(q) \/ Cancel(q)
  BY <1>3, <1>8 DEF Flip, Flippable, Cancel, ledger
<1>9. CASE ReadPlan(q) \/ AnswerEarly(q) \/ QueryFails(q) \/ PlanReady(q) \/ NoPlan(q)
  <2>1. guard' = guard
    BY <1>9 DEF ReadPlan, AnswerEarly, QueryFails, PlanReady, NoPlan, locals
  <2>2. /\ pc[q] \in {"plan", "inner"}
        /\ pc'[q] \in {"abort", "inner", "return", "untracked"} \/ PlanReady(q)
    BY <1>2, <1>9 DEF ReadPlan, AnswerEarly, QueryFails, PlanReady, NoPlan, Goto, TypeOK
  <2>3. PlanReady(q) /\ guard[q] => pc'[q] = "work"
    BY <1>2 DEF PlanReady, Goto, TypeOK, OwnedBy, GuardHeld
  <2>4. QED
    BY <1>6, <2>1, <2>2, <2>3 DEF Executing
<1>10. CASE \E i \in Sections : \/ StartSection(q, i) \/ RunSection(q, i)
                              \/ SaveSection(q, i) \/ SaveSectionFails(q, i)
  BY <1>6, <1>10 DEF StartSection, RunSection, SaveSection, SaveSectionFails
<1>11. CASE \/ SectionsOver(q) \/ SaveReport(q) \/ SaveReportFails(q) \/ EmptyReport(q)
            \/ FinishRow(q)
            \/ (FinishRowFails(q) \/ Settle(q) \/ SettleFails(q) \/ Return(q)) /\ ~Leave(q)
  <2>1. guard' = guard
    BY <1>11 DEF SectionsOver, SaveReport, SaveReportFails, EmptyReport, Conclude, FinishRow,
                 FinishRowFails, Settle, SettleFails, Return
  <2>2. pc[q] \in Executing /\ pc'[q] \in Executing
    BY <1>2, <1>11 DEF SectionsOver, SaveReport, SaveReportFails, EmptyReport, Conclude,
                 FinishRow, FinishRowFails, Settle, SettleFails, Return, Goto, TypeOK, Executing
  <2>3. QED
    BY <1>6, <2>1, <2>2
<1>12. QED
  BY <1>3, <1>4, <1>5, <1>7, <1>8, <1>9, <1>10, <1>11 DEF Step, Failure

\* The parts of the invariant that speak of one handler.
LEMMA OwnedNow ==
    ASSUME IInv, NEW q \in Requests
    PROVE  TypeOK /\ OwnedBy(q)
BY DEF IInv, Owned

\* The transaction of a fresh run, whether its handler survives it or not.
LEMMA RebuildRefines ==
    ASSUME IInv, IInv', NEW q \in Requests, Open(q) \/ OpenFails(q),
           NEW n \in 0 .. MaxSections, Rebuild(n)
    PROVE  [Ledger!Next]_Ledger!vars
<1>1. guard[q] /\ pc[q] = "open"
  BY OwnedNow DEF Open, OpenFails, OwnedBy, GuardHeld
<1>2. ~Busy
  BY <1>1, OwnerBusy DEF Executing
<1>3. LedgerState' = "open" /\ LedgerResults' = {}
  BY DEF Rebuild, Fresh, LedgerState, LedgerResults
<1>4. QED
  BY <1>2, <1>3 DEF Ledger!Next, Ledger!Begin, Busy

\* A resume that takes the row over takes the abstract run over.
LEMMA FlipRefines ==
    ASSUME IInv, IInv', NEW q \in Requests, Flip(q), Flippable(run)
    PROVE  [Ledger!Next]_Ledger!vars
<1>1. guard[q] /\ guard' = guard /\ pc[q] = "flip" /\ pc'[q] = "plan"
  BY OwnedNow DEF Flip, Goto, TypeOK, OwnedBy, GuardHeld
<1>2. ~Busy /\ Busy'
  BY <1>1, OwnerBusy, OwnerBusyNext DEF Executing
<1>3. LedgerState = "open" /\ UNCHANGED <<LedgerState, LedgerResults>>
  BY DEF Flip, Flippable, LedgerState, LedgerResults
<1>4. Busy' = TRUE
  BY <1>2 DEF Busy
<1>5. QED
  BY <1>2, <1>3, <1>4 DEF Ledger!Next, Ledger!TakeOver

\* A section's result is recorded once, or its failure changes no result.
LEMMA SaveRefines ==
    ASSUME IInv, IInv', NEW q \in Requests, NEW i \in Sections, SaveSection(q, i)
    PROVE  [Ledger!Next]_Ledger!vars
<1>1. /\ guard[q] /\ guard' = guard /\ pc[q] = "work" /\ pc' = pc
      /\ run \in {"running", "interrupted"} /\ Agrees(q)
  BY OwnedNow DEF SaveSection, OwnedBy, GuardHeld, RowOwned, SectionsOwned
<1>2. Busy /\ Busy'
  BY <1>1, OwnerBusy, OwnerBusyNext DEF Executing
<1>3. LedgerState = "open" /\ UNCHANGED LedgerState
  BY <1>1 DEF SaveSection, LedgerState
<1>4. section[i] # "done" /\ i \notin LedgerResults
  BY <1>1 DEF SaveSection, Agrees, LedgerResults
<1>5. CASE work[q][i] = "good"
  <2>1. LedgerResults' = LedgerResults \union {i}
    BY ZenonT(60), <1>5, OwnedNow DEF SaveSection, LedgerResults, TypeOK
  <2>2. Busy' = Busy
    BY <1>2 DEF Busy
  <2>3. Ledger!Record(i)
    BY <1>2, <1>3, <1>4, <2>1, <2>2 DEF Ledger!Record
  <2>4. QED
    BY <2>3 DEF Ledger!Next
<1>6. CASE work[q][i] # "good"
  <2>1. LedgerResults' = LedgerResults
    BY <1>4, <1>6, OwnedNow DEF SaveSection, LedgerResults, TypeOK
  <2>2. QED
    BY <1>2, <1>3, <2>1, StutterRefines DEF Stutter, Busy
<1>7. QED
  BY <1>5, <1>6

\* Writing the end state completes the abstract run or leaves it open.
LEMMA FinishRefines ==
    ASSUME IInv, IInv', NEW q \in Requests, FinishRow(q) \/ FinishRowFails(q), run' = goal[q]
    PROVE  [Ledger!Next]_Ledger!vars
<1>1. /\ guard[q] /\ pc[q] \in {"finish", "abort"} /\ UNCHANGED section
      /\ LedgerState = "open"
      /\ pc[q] = "abort" => goal[q] = "failed"
      /\ goal[q] \in {"done", "failed"}
  BY OwnedNow DEF FinishRow, FinishRowFails, OwnedBy, GuardHeld, RowOwned, Unfinished,
                  LedgerState, TypeOK
<1>2. Busy /\ UNCHANGED LedgerResults
  BY <1>1, OwnerBusy DEF Executing, LedgerResults
<1>3. \A r \in Requests \ {q} : Kept(r)
  BY StepOwned DEF Step, Failure
<1>4. CASE Leave(q) /\ pc[q] = "abort"
  <2>1. UNCHANGED LedgerState
    BY <1>1, <1>4 DEF LedgerState
  <2>2. QED
    BY <1>2, <1>4, <2>1, LeaveRefines
<1>5. CASE guard' = guard /\ pc'[q] \in Executing
  <2>1. Busy'
    BY <1>1, <1>5, OwnerBusyNext
  <2>2. Busy' = Busy
    BY <1>2, <2>1 DEF Busy
  <2>3. CASE goal[q] = "done"
    <3>1. LedgerState' = "done"
      BY <2>3 DEF LedgerState
    <3>2. QED
      BY <1>1, <1>2, <2>2, <3>1 DEF Ledger!Next, Ledger!Complete
  <2>4. CASE goal[q] = "failed"
    <3>1. LedgerState' = LedgerState
      BY <1>1, <2>4 DEF LedgerState
    <3>2. QED
      BY <1>2, <2>2, <3>1, StutterRefines DEF Stutter
  <2>5. QED
    BY <1>1, <2>3, <2>4
<1>6. QED
  BY <1>4, <1>5, OwnedNow DEF FinishRow, FinishRowFails, Goto, TypeOK, Executing

\* Failing the sections that are still queued takes no result away.
LEMMA SettleRefines ==
    ASSUME IInv, IInv', NEW q \in Requests, Settle(q)
    PROVE  [Ledger!Next]_Ledger!vars
<1>1. UNCHANGED <<LedgerState, LedgerResults>>
  BY DEF Settle, LedgerState, LedgerResults
<1>2. CASE Leave(q)
  BY <1>1, <1>2, LeaveRefines
<1>3. CASE guard' = guard /\ pc[q] \in Executing /\ pc'[q] \in Executing
  <2>1. \A r \in Requests \ {q} : Kept(r)
    BY StepOwned DEF Step
  <2>2. QED
    BY <1>1, <1>3, <2>1, MoveRefines
<1>4. QED
  BY <1>2, <1>3, OwnedNow DEF Settle, Goto, TypeOK, Executing

\* Reaping changes neither a result nor whether the run is open.
LEMMA ReapRefines ==
    ASSUME IInv, IInv', NEW q \in Requests, Reap(q)
    PROVE  [Ledger!Next]_Ledger!vars
<1>1. UNCHANGED <<LedgerState, LedgerResults>>
  BY DEF Reap, LedgerState, LedgerResults
<1>2. guard' = guard /\ ~guard[q] /\ \A r \in Requests \ {q} : Kept(r)
  BY OwnedNow, StepOwned DEF Reap, Step, OwnedBy, GuardHeld
<1>3. QED
  BY <1>1, <1>2, MoveRefines

\* A restart is the worker leaving; the ledger survives it.
LEMMA CrashRefines == ASSUME IInv, Crash PROVE [Ledger!Next]_Ledger!vars
<1>1. ~Busy'
  BY DEF Crash, Busy, Executor
<1>2. UNCHANGED <<LedgerState, LedgerResults>>
  BY DEF Crash, LedgerState, LedgerResults
<1>3. CASE Busy
  <2>1. Busy' = FALSE
    BY <1>1 DEF Busy
  <2>2. QED
    BY <1>2, <1>3, <2>1 DEF Ledger!Next, Ledger!Leave
<1>4. CASE ~Busy
  BY <1>1, <1>2, <1>4, StutterRefines DEF Stutter, Busy
<1>5. QED
  BY <1>3, <1>4

\* Every step of the handlers is a step of the abstract run or a stutter.
LEMMA NextRefines == ASSUME IInv, IInv', [Next]_vars PROVE [Ledger!Next]_Ledger!vars
<1>1. CASE UNCHANGED vars
  BY <1>1, StutterRefines DEF vars, Stutter, LedgerState, LedgerResults, Busy, Executor
<1>2. CASE Crash
  BY <1>2, CrashRefines
<1>3. ASSUME NEW q \in Requests,
             StartCompose(q) \/ StartResume(q) \/ Step(q) \/ Failure(q)
      PROVE  [Ledger!Next]_Ledger!vars
  <2>1. CASE UNCHANGED ledger /\ ~Open(q)
    BY <1>3, <2>1, WalkRefines
  <2>2. CASE Open(q)
    BY <2>2, RebuildRefines DEF Open
  <2>3. CASE OpenFails(q) /\ ~UNCHANGED ledger
    BY <2>3, RebuildRefines DEF OpenFails, ledger
  <2>4. CASE Flip(q) /\ ~UNCHANGED ledger
    BY <2>4, FlipRefines DEF Flip, ledger
  <2>5. CASE \E i \in Sections : SaveSection(q, i)
    BY <2>5, SaveRefines
  <2>6. CASE (FinishRow(q) \/ FinishRowFails(q)) /\ ~UNCHANGED ledger
    BY <2>6, FinishRefines DEF FinishRow, FinishRowFails, ledger
  <2>7. CASE Settle(q)
    BY <2>7, SettleRefines
  <2>8. CASE Reap(q)
    BY <2>8, ReapRefines
  <2>9. QED
    <3>1. CASE StartCompose(q) \/ StartResume(q) \/ Load(q) \/ Judge(q) \/ Claim(q)
      BY <2>1, <3>1 DEF StartCompose, StartResume, Load, Judge, Claim, Open, ledger
    <3>2. CASE \/ ReadPlan(q) \/ AnswerEarly(q) \/ PlanReady(q) \/ NoPlan(q)
               \/ SectionsOver(q) \/ SaveReport(q) \/ Return(q)
      BY <2>1, <3>2 DEF ReadPlan, AnswerEarly, PlanReady, NoPlan, SectionsOver, SaveReport,
                        Conclude, Return, Open, ledger
    <3>3. CASE \E i \in Sections : StartSection(q, i) \/ RunSection(q, i) \/ SaveSectionFails(q, i)
      BY <2>1, <3>3 DEF StartSection, RunSection, SaveSectionFails, Open, ledger
    <3>4. CASE QueryFails(q) \/ SaveReportFails(q) \/ EmptyReport(q) \/ SettleFails(q) \/ Cancel(q)
      BY <2>1, <2>2, <3>4 DEF QueryFails, SaveReportFails, EmptyReport, Conclude, SettleFails,
                        Cancel, ledger
    <3>5. CASE Flip(q) \/ OpenFails(q) \/ FinishRow(q) \/ FinishRowFails(q)
      BY <2>1, <2>2, <2>3, <2>4, <2>6, <3>5
    <3>6. QED
      BY <1>3, <2>2, <2>5, <2>7, <2>8, <3>1, <3>2, <3>3, <3>4, <3>5 DEF Step, Failure
<1>4. QED
  BY <1>1, <1>2, <1>3 DEF Next

\* The handlers, crashes and lost statements included, behave as the one worker
\* of RunLedger.
THEOREM Refinement == Spec => OneWorker
<1>1. IInv /\ IInv' /\ [Next]_vars => [Ledger!Next]_Ledger!vars
  BY NextRefines
<1>2. QED
  BY InitRefines, Inductive, <1>1, PTL DEF Spec, OneWorker, Ledger!Spec

============================================================================
