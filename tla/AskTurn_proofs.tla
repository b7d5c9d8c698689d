--------------------------- MODULE AskTurn_proofs ---------------------------
(***************************************************************************)
(* What holds of one question (AskTurn) however many subgoals its contract *)
(* lists.                                                                  *)
(***************************************************************************)
EXTENDS AskTurn, FiniteSetTheorems, TLAPS

USE GoalsAssumption

(***************************************************************************)
(* The invariant                                                           *)
(***************************************************************************)

\* What decide made of the question does not change any more.
DecidedOK == KbIsPrimary => q.plan.deliverable = "Document" \/ q.doc

\* Subgoals that share an arm are opened together, and a card is remembered only
\* while there is a second try.
ArmOK ==
    /\ \A g \in Goals : g \notin q.goals => goal[g].pc = "off"
    /\ \A g, h \in q.goals : ~Hybrid /\ goal[g].pc = "open" => goal[h].pc = "open"
    /\ \A g \in Goals : goal[g].pc \in {"off", "open", "done"} => goal[g].first = "none"

\* A part of the contract is as sure as the whole, and what asks to destroy data was
\* turned away before its parts were told.
PartOK ==
    \A g \in Goals : goal[g].pc \in {"ask", "reword"} =>
        /\ ~q.destructive
        /\ Ready(goal[g].contract) => goal[g].contract.state = q.contract.state

\* A question that asks to destroy data: no knowledge arm, and one answer for all.
RefusedOK ==
    q.destructive /\ ~Hybrid =>
        /\ kb = "off"
        /\ \A g \in q.goals : goal[g].pc = "done" => goal[g].res \in {"need"} \union Trouble
        /\ \A g, h \in q.goals : goal[g].res = goal[h].res

\* The race is over when the arms are, and a question whose words ask for a document
\* never has the short budget.
RaceOK ==
    /\ phase = "over" /\ ~Hybrid => Finished
    /\ out.kind # "none" => phase = "over"
    /\ KbIsPrimary => phase # "bonus"

TurnOK ==
    /\ TypeOK
    /\ DecidedOK /\ ArmOK /\ PartOK /\ RefusedOK /\ RaceOK
    /\ FreeSqlUnderContract /\ DeniedIsRaised /\ CardsStand /\ OneFailureIsNamed

LEMMA IdleType == IdleGoal \in Goal /\ NoOut \in Out
BY DEF IdleGoal, NoOut, Goal, Out, NoContract, Contracts, Kinds, Writers

\* A finished subgoal, whatever came of it.
Finish(is, sql) == [IdleGoal EXCEPT !.pc = "done", !.res = is, !.sql = sql]

LEMMA FinishType ==
    ASSUME NEW is \in Kinds, NEW sql \in Writers
    PROVE  /\ Finish(is, sql) \in Goal
           /\ Finish(is, sql).pc = "done" /\ Finish(is, sql).first = "none"
           /\ Finish(is, sql).res = is /\ Finish(is, sql).sql = sql
<1>1. Finish(is, sql) \in Goal
  BY IdleType DEF Goal, Finish
<1>2. Finish(is, sql).pc = "done" /\ Finish(is, sql).first = "none"
  BY IdleType, Zenon DEF Goal, IdleGoal, Finish
<1>3. Finish(is, sql).res = is
  BY IdleType, Zenon DEF Goal, IdleGoal, Finish
<1>4. Finish(is, sql).sql = sql
  BY IdleType, Zenon DEF Goal, IdleGoal, Finish
<1> QED
  BY <1>1, <1>2, <1>3, <1>4

LEMMA TurnInit == Init => TurnOK
<1> SUFFICES ASSUME Init PROVE TurnOK
  OBVIOUS
<1>1. PICK sig \in Signals, contract \in Contracts, destructive \in BOOLEAN, typed \in BOOLEAN,
           goals \in {G \in SUBSET Goals : Sole \in G} :
              q = [plan |-> Decide(sig, contract), contract |-> contract,
                   destructive |-> destructive, doc |-> sig.noun, typed |-> typed, goals |-> goals]
  BY DEF Init
<1>2. contract.route \in Routes
  BY DEF Contracts, Routes
<1>3. Decide(sig, contract) \in Plans
  BY <1>2 DEF Decide, Plan, Plans, Signals, Routes
<1>4. q \in Question
  <2>1. goals \in (SUBSET Goals) \ {{}} /\ sig.noun \in BOOLEAN
    BY DEF Signals
  <2> QED
    BY <1>1, <1>3, <2>1, Zenon DEF Question
<1>5. DecidedOK
  BY <1>1 DEF DecidedOK, KbIsPrimary, Decide, Plan, Signals
<1>6. [IdleGoal EXCEPT !.pc = "open"] \in Goal
  BY IdleType DEF Goal
<1>7. goal \in [Goals -> Goal]
  BY <1>6, IdleType DEF Init
<1>8. \A g \in Goals : /\ goal[g].pc = (IF g \in q.goals THEN "open" ELSE "off")
                       /\ goal[g].first = "none" /\ goal[g].res = "none" /\ goal[g].sql = "code"
  BY DEF Init, IdleGoal
<1>9. kb \in {"running", "off"} /\ (q.destructive /\ ~Hybrid => kb = "off")
  BY DEF Init, AsksKnowledge, Hybrid
<1>10. phase = "asking" /\ out = NoOut /\ out.kind = "none"
  BY DEF Init, NoOut
<1>11. TypeOK
  BY <1>4, <1>7, <1>9, <1>10, IdleType DEF TypeOK, Running
<1>12. q.goals \subseteq Goals
  BY <1>4 DEF Question
<1>13. ArmOK /\ PartOK /\ RefusedOK /\ RaceOK /\ FreeSqlUnderContract
  BY <1>8, <1>9, <1>10, <1>12 DEF ArmOK, PartOK, RefusedOK, RaceOK, FreeSqlUnderContract
<1> QED
  BY <1>5, <1>10, <1>11, <1>13 DEF TurnOK, DeniedIsRaised, CardsStand, OneFailureIsNamed

(***************************************************************************)
(* The steps of a subgoal                                                  *)
(***************************************************************************)

\* The arm is settled as a whole, before it is opened.
Settled(g) ==
    /\ goal[g].pc = "open"
    /\ Runs
    /\ \E is \in {"need"} \union Trouble :
           goal' = [h \in Goals |-> IF h \in Arm(g)
                                    THEN [IdleGoal EXCEPT !.pc = "done", !.res = is] ELSE goal[h]]

\* A subgoal goes on by itself.
Moves(g) ==
    /\ goal[g].pc \in {"ask", "reword"}
    /\ \A h \in Goals : h # g => goal'[h] = goal[h]
    /\ goal' \in [Goals -> Goal]
    /\ \/ /\ goal'[g].pc = "done" /\ goal'[g].first = "none"
          /\ goal'[g].sql # "code" => ~Fallback
          /\ goal'[g].sql = "model" => Executable(goal[g].contract)
          /\ goal[g].first # "none" => goal'[g].res \notin Fails
       \/ /\ goal'[g].pc \in {"ask", "reword"}
          /\ goal'[g].contract = goal[g].contract
          /\ goal'[g].sql = goal[g].sql /\ goal'[g].res = goal[g].res

LEMMA CardsAreKinds ==
    /\ Cards \subseteq Kinds /\ Fails \subseteq Kinds /\ "none" \notin Cards
    /\ {"rows", "empty", "need", "unavailable", "bug"} \subseteq Kinds
    /\ Trouble \subseteq Fails
    /\ \A card \in Cards : card \notin Fails
BY DEF Cards, Fails, Kinds, Trouble, Refusals

\* Each step of a subgoal is one of these or Open.
LEMMA StepOfGoal ==
    ASSUME TypeOK, NEW g \in Goals, GoalStep(g)
    PROVE  /\ UNCHANGED <<q, kb, phase, out>>
           /\ Settled(g) \/ Open(g) \/ Moves(g)
<1>t. goal \in [Goals -> Goal] /\ goal[g] \in Goal /\ goal[g].first \in Cards \union {"none"}
  BY DEF TypeOK, Goal
\* Whoever ends the subgoal.
<1>d. ASSUME NEW is \in Kinds, NEW sql \in Writers, Done(g, is, sql),
             goal[g].pc \in {"ask", "reword"},
             sql # "code" => ~Fallback,
             sql = "model" => Executable(goal[g].contract),
             goal[g].first # "none" => is \notin Fails
      PROVE  UNCHANGED <<q, kb, phase, out>> /\ Moves(g)
  <2>1. /\ Finish(is, sql) \in Goal
        /\ Finish(is, sql).pc = "done" /\ Finish(is, sql).first = "none"
        /\ Finish(is, sql).res = is /\ Finish(is, sql).sql = sql
    BY FinishType
  <2>2. goal' = [goal EXCEPT ![g] = Finish(is, sql)] /\ UNCHANGED <<q, kb, phase, out>>
    BY <1>d, Zenon DEF Done, Finish
  <2>3. goal'[g] = Finish(is, sql) /\ \A h \in Goals : h # g => goal'[h] = goal[h]
    BY <1>t, <2>2
  <2>4. /\ goal'[g].sql # "code" => ~Fallback
        /\ goal'[g].sql = "model" => Executable(goal[g].contract)
    BY <1>d, <2>1, <2>3, Zenon
  <2>5. goal[g].first # "none" => goal'[g].res \notin Fails
    BY <1>d, <2>1, <2>3, Zenon
  <2>6. goal' \in [Goals -> Goal] /\ goal'[g].pc = "done" /\ goal'[g].first = "none"
    BY <1>t, <2>1, <2>2, <2>3
  <2> QED
    BY <1>d, <2>2, <2>3, <2>4, <2>5, <2>6, Zenon DEF Moves
<1>r. ASSUME NEW fail \in Fails, Raised(g, fail), goal[g].pc = "ask"
      PROVE  UNCHANGED <<q, kb, phase, out>> /\ Moves(g)
  <2>1. AfterError(g, fail) \in Kinds
        /\ (goal[g].first # "none" => AfterError(g, fail) \notin Fails)
    BY <1>t, CardsAreKinds DEF AfterError
  <2> QED
    BY <1>r, <1>d, <2>1 DEF Raised, Writers
<1>a. ASSUME NEW is \in {"rows", "empty"} \union Cards, NEW sql \in Writers,
             NEW final \in BOOLEAN, Answer(g, is, sql, final), goal[g].pc = "ask",
             sql # "code" => ~Fallback,
             sql = "model" => Executable(goal[g].contract)
      PROVE  UNCHANGED <<q, kb, phase, out>> /\ Moves(g)
  <2>1. is \in Kinds /\ is \notin Fails
    BY CardsAreKinds DEF Fails, Trouble, Refusals
  <2>2. CASE ~Retryable(g, is, final) /\ Done(g, is, sql)
    BY <1>a, <1>d, <2>1, <2>2
  <2>3. CASE Retryable(g, is, final) /\ ~MayReword(g) /\ Done(g, "need", "code")
    <3>1. "need" \in Kinds /\ "need" \notin Fails
      BY CardsAreKinds DEF Fails, Trouble, Refusals
    <3> QED
      BY <1>a, <1>d, <2>3, <3>1 DEF Writers
  <2>4. CASE /\ Retryable(g, is, final)
             /\ goal' = [goal EXCEPT ![g].pc = "reword", ![g].first = is]
             /\ UNCHANGED <<q, kb, phase, out>>
    <3>1. is \in Cards
      BY <2>4 DEF Retryable, Cards
    <3>2. goal' = [goal EXCEPT ![g] = [goal[g] EXCEPT !.pc = "reword", !.first = is]]
      BY <2>4, <1>t DEF Goal
    <3>3. [goal[g] EXCEPT !.pc = "reword", !.first = is] \in Goal
      BY <1>t, <3>1 DEF Goal
    <3>4. /\ goal' \in [Goals -> Goal] /\ goal'[g].pc = "reword"
          /\ goal'[g].contract = goal[g].contract /\ goal'[g].sql = goal[g].sql
          /\ goal'[g].res = goal[g].res
          /\ \A h \in Goals : h # g => goal'[h] = goal[h]
      BY <1>t, <3>2, <3>3 DEF Goal
    <3> QED
      BY <1>a, <2>4, <3>4 DEF Moves
  <2> QED
    BY <1>a, <2>2, <2>3, <2>4 DEF Answer
<1>1. CASE Unowned(g) \/ OpenFails(g) \/ Refuse(g)
  BY <1>1 DEF Unowned, OpenFails, Refuse, Settle, Settled
<1>2. CASE Open(g)
  BY <1>2 DEF Open
<1>3. CASE FixedMember(g)
  BY <1>3, <1>a, <1>r DEF FixedMember, Fails, Writers
<1>4. CASE FreeSql(g)
  BY <1>4, <1>a, <1>r DEF FreeSql, Fails, Cards, LlmAccepts, Writers
<1>9. CASE Derive(g)
  BY <1>9, <1>a DEF Derive, MayDerive, Writers
<1>5. CASE NobodyAnswers(g)
  BY <1>5, <1>a DEF NobodyAnswers, Cards, Writers
<1>6. CASE NobodyLeft(g)
  BY <1>6, <1>r DEF NobodyLeft, Fails
<1>7. CASE Reword(g)
  <2>1. goal' = [goal EXCEPT ![g] = [goal[g] EXCEPT !.pc = "ask"]]
    BY <1>7, <1>t DEF Reword, Goal
  <2>2. [goal[g] EXCEPT !.pc = "ask"] \in Goal
    BY <1>t DEF Goal
  <2>3. /\ goal' \in [Goals -> Goal] /\ goal'[g].pc = "ask"
        /\ goal'[g].contract = goal[g].contract /\ goal'[g].sql = goal[g].sql
        /\ goal'[g].res = goal[g].res
        /\ \A h \in Goals : h # g => goal'[h] = goal[h]
    BY <1>t, <2>1, <2>2 DEF Goal
  <2> QED
    BY <1>7, <2>3 DEF Reword, Moves
<1>8. CASE NoReword(g)
  <2>1. goal[g].first \in Kinds /\ (goal[g].first # "none" => goal[g].first \notin Fails)
    BY <1>t, CardsAreKinds DEF Kinds
  <2> QED
    BY <1>8, <1>d, <2>1 DEF NoReword, Writers
<1> QED
  BY <1>1, <1>2, <1>3, <1>4, <1>5, <1>6, <1>7, <1>8, <1>9 DEF GoalStep

LEMMA SettledType ==
    ASSUME NEW is \in Kinds
    PROVE  LET d == [IdleGoal EXCEPT !.pc = "done", !.res = is]
           IN  /\ d \in Goal /\ d.pc = "done" /\ d.first = "none"
               /\ d.res = is /\ d.sql = "code"
BY IdleType DEF IdleGoal, Goal

\* As long as a subgoal can take a step, the question is open, or it is a hybrid one.
LEMMA StillOpen ==
    ASSUME TurnOK, NEW g \in Goals, goal[g].pc \in {"open", "ask", "reword"}
    PROVE  g \in q.goals /\ (~Hybrid => phase # "over" /\ out.kind = "none")
<1>1. g \in q.goals
  BY DEF TurnOK, ArmOK
<1>2. ASSUME ~Hybrid PROVE phase # "over"
  BY <1>1, <1>2 DEF TurnOK, RaceOK, Finished
<1> QED
  BY <1>1, <1>2 DEF TurnOK, RaceOK

LEMMA GoalKeeps == ASSUME TurnOK, NEW g \in Goals, GoalStep(g) PROVE TurnOK'
<1>t. /\ TypeOK /\ DecidedOK /\ ArmOK /\ PartOK /\ RefusedOK /\ RaceOK /\ FreeSqlUnderContract
      /\ q \in Question /\ q.goals \subseteq Goals /\ goal \in [Goals -> Goal]
  BY DEF TurnOK, TypeOK, Question
<1>u. UNCHANGED <<q, kb, phase, out>> /\ (Settled(g) \/ Open(g) \/ Moves(g))
  BY <1>t, StepOfGoal
<1>o. goal[g].pc \in {"open", "ask", "reword"}
  BY <1>u DEF Settled, Open, Moves
<1>g. g \in q.goals /\ (~Hybrid => phase # "over" /\ out.kind = "none")
  BY <1>o, StillOpen
\* What does not look at the subgoals, or only when the question is over.
<1>r. DecidedOK' /\ RaceOK' /\ DeniedIsRaised' /\ CardsStand' /\ OneFailureIsNamed'
  BY <1>t, <1>u, <1>g DEF DecidedOK, KbIsPrimary, RaceOK, DeniedIsRaised, CardsStand,
     OneFailureIsNamed, Hybrid, Finished
<1>h. Hybrid' = Hybrid /\ g \in Arm(g) /\ Arm(g) \subseteq q.goals
      /\ (~Hybrid => Arm(g) = q.goals)
  BY <1>u, <1>g DEF Hybrid, Arm
<1>s. ASSUME goal' \in [Goals -> Goal], ArmOK', PartOK', RefusedOK', FreeSqlUnderContract'
      PROVE  TurnOK'
  BY <1>s, <1>t, <1>u, <1>r DEF TurnOK, TypeOK
<1>1. CASE Settled(g)
  <2>1. PICK is \in {"need"} \union Trouble :
            goal' = [h \in Goals |-> IF h \in Arm(g)
                                     THEN [IdleGoal EXCEPT !.pc = "done", !.res = is] ELSE goal[h]]
    BY <1>1 DEF Settled
  <2>2. is \in Kinds
    BY CardsAreKinds
  <2>3. \A h \in Arm(g) : /\ goal'[h] \in Goal /\ goal'[h].pc = "done" /\ goal'[h].first = "none"
                          /\ goal'[h].res = is /\ goal'[h].sql = "code"
    BY <1>t, <1>h, <2>1, <2>2, SettledType
  <2>4. \A h \in Goals \ Arm(g) : goal'[h] = goal[h]
    BY <2>1
  <2>5. goal' \in [Goals -> Goal]
    BY <1>t, <2>1, <2>3
  <2>6. ArmOK'
    <3>1. \A h \in Goals : h \notin q.goals' => goal'[h].pc = "off"
      BY <1>t, <1>u, <1>h, <2>4 DEF ArmOK
    <3>2. \A h, k \in q.goals' : ~Hybrid' /\ goal'[h].pc = "open" => goal'[k].pc = "open"
      BY <1>u, <1>h, <2>3
    <3>3. \A h \in Goals : goal'[h].pc \in {"off", "open", "done"} => goal'[h].first = "none"
      BY <1>t, <2>3, <2>4 DEF ArmOK
    <3> QED
      BY <3>1, <3>2, <3>3 DEF ArmOK
  <2>7. PartOK'
    BY <1>t, <1>u, <2>3, <2>4 DEF PartOK
  <2>8. RefusedOK'
    BY <1>t, <1>u, <1>h, <2>3 DEF RefusedOK
  <2>9. FreeSqlUnderContract'
    BY <1>t, <1>u, <1>h, <2>3, <2>4 DEF FreeSqlUnderContract
  <2> QED
    BY <1>s, <2>5, <2>6, <2>7, <2>8, <2>9
<1>2. CASE Open(g)
  <2>0. ~q.destructive /\ goal[g].pc = "open"
    BY <1>2 DEF Open
  <2>1. PICK told \in [Arm(g) -> BOOLEAN] :
            goal' = [h \in Goals |->
                IF h \notin Arm(g) THEN goal[h]
                ELSE [goal[h] EXCEPT !.pc = "ask",
                          !.contract = IF told[h] /\ Ready(q.contract)
                                       THEN [q.contract EXCEPT !.route = IF Hybrid THEN "Data" ELSE @]
                                       ELSE NoContract]]
    BY <1>2 DEF Open
  <2> DEFINE part(h) == IF told[h] /\ Ready(q.contract)
                        THEN [q.contract EXCEPT !.route = IF Hybrid THEN "Data" ELSE @]
                        ELSE NoContract
  <2>2. \A h \in Arm(g) : /\ part(h) \in Contracts
                          /\ Ready(part(h)) => part(h).state = q.contract.state
    <3> SUFFICES ASSUME NEW h \in Arm(g)
                 PROVE  /\ part(h) \in Contracts
                        /\ Ready(part(h)) => part(h).state = q.contract.state
      OBVIOUS
    <3>1. NoContract \in Contracts /\ ~Ready(NoContract)
      BY DEF NoContract, Contracts, Ready
    <3>2. ASSUME Ready(q.contract)
          PROVE  LET c == [q.contract EXCEPT !.route = IF Hybrid THEN "Data" ELSE @]
                 IN  c \in Contracts /\ c.state = q.contract.state
      <4>1. q.contract \in [state : {"ready", "ambiguous"}, route : Routes]
        BY <1>t, <3>2 DEF Question, Contracts, Ready
      <4> QED
        BY <4>1 DEF Contracts, Routes
    <3> QED
      BY <3>1, <3>2
  <2>3. \A h \in Goals \ Arm(g) : goal'[h] = goal[h]
    BY <2>1
  <2>4. \A h \in Arm(g) : goal'[h] = [goal[h] EXCEPT !.pc = "ask", !.contract = part(h)]
    BY <1>t, <1>h, <2>1
  <2> HIDE DEF part
  <2>5. \A h \in Arm(g) : /\ goal'[h] \in Goal /\ goal'[h].pc = "ask"
                          /\ goal'[h].contract = part(h) /\ goal'[h].sql = goal[h].sql
    <3> SUFFICES ASSUME NEW h \in Arm(g)
                 PROVE  /\ goal'[h] \in Goal /\ goal'[h].pc = "ask"
                        /\ goal'[h].contract = part(h) /\ goal'[h].sql = goal[h].sql
      OBVIOUS
    <3>1. goal[h] \in Goal /\ part(h) \in Contracts
      BY <1>t, <1>h, <2>2
    <3>2. goal'[h] = [goal[h] EXCEPT !.pc = "ask", !.contract = part(h)]
      BY <2>4
    <3>3. goal'[h] \in Goal /\ goal'[h].pc = "ask" /\ goal'[h].contract = part(h)
      BY <3>1, <3>2 DEF Goal
    <3>4. goal'[h].sql = goal[h].sql
      BY <3>1, <3>2, Zenon DEF Goal
    <3> QED
      BY <3>3, <3>4
  <2>6. goal' \in [Goals -> Goal]
    BY <1>t, <2>1, <2>5
  <2>7. ArmOK'
    <3>1. \A h \in Goals : h \notin q.goals' => goal'[h].pc = "off"
      BY <1>t, <1>u, <1>h, <2>3 DEF ArmOK
    <3>2. \A h, k \in q.goals' : ~Hybrid' /\ goal'[h].pc = "open" => goal'[k].pc = "open"
      BY <1>u, <1>h, <2>5
    <3>3. \A h \in Goals : goal'[h].pc \in {"off", "open", "done"} => goal'[h].first = "none"
      BY <1>t, <2>3, <2>5 DEF ArmOK
    <3> QED
      BY <3>1, <3>2, <3>3 DEF ArmOK
  <2>8. PartOK'
    BY <1>t, <1>u, <2>0, <2>2, <2>3, <2>5 DEF PartOK
  <2>9. RefusedOK'
    BY <1>u, <2>0 DEF RefusedOK
  <2>10. FreeSqlUnderContract'
    BY <1>t, <1>u, <1>h, <2>3, <2>5 DEF FreeSqlUnderContract
  <2> QED
    BY <1>s, <2>6, <2>7, <2>8, <2>9, <2>10
<1>3. CASE Moves(g)
  <2>0. ~q.destructive /\ goal[g].pc \in {"ask", "reword"}
    BY <1>3, <1>t DEF Moves, PartOK
  <2>1. \A h \in Goals : h # g => goal'[h] = goal[h]
    BY <1>3 DEF Moves
  <2>2. goal' \in [Goals -> Goal]
    BY <1>3 DEF Moves
  <2>3. ArmOK'
    <3>1. \A h \in q.goals : ~Hybrid => goal[h].pc # "open"
      BY <1>t, <1>g, <2>0 DEF ArmOK
    <3>2. goal'[g].pc # "open" /\ goal'[g].pc # "off"
          /\ (goal'[g].pc = "done" => goal'[g].first = "none")
      BY <1>3 DEF Moves
    <3> QED
      BY <1>t, <1>u, <1>g, <1>h, <2>1, <3>1, <3>2 DEF ArmOK
  <2>4. PartOK'
    <3>1. goal'[g].pc \in {"ask", "reword"} => goal'[g].contract = goal[g].contract
      BY <1>3 DEF Moves
    <3> QED
      BY <1>t, <1>u, <2>0, <2>1, <3>1 DEF PartOK
  <2>5. RefusedOK'
    BY <1>u, <2>0 DEF RefusedOK
  <2>6. FreeSqlUnderContract'
    <3>1. ASSUME goal'[g].sql # "code"
          PROVE  /\ Hybrid \/ (q.plan.route = "Data" /\ Executable(q.contract))
                 /\ goal'[g].sql = "model" => q.contract.state = "ready"
      <4>1. CASE goal'[g].pc = "done"
        <5>1. ~Fallback /\ (goal'[g].sql = "model" => Executable(goal[g].contract))
          BY <1>3, <3>1, <4>1 DEF Moves
        <5>2. Executable(goal[g].contract) => q.contract.state = "ready"
          BY <1>t, <2>0 DEF PartOK, Executable, Ready
        <5> QED
          BY <5>1, <5>2 DEF Fallback
      <4>2. CASE goal'[g].pc # "done"
        BY <1>3, <1>t, <1>g, <3>1, <4>2 DEF Moves, FreeSqlUnderContract
      <4> QED
        BY <4>1, <4>2
    <3> QED
      BY <1>t, <1>u, <1>g, <1>h, <2>0, <2>1, <3>1 DEF FreeSqlUnderContract
  <2> QED
    BY <1>s, <2>2, <2>3, <2>4, <2>5, <2>6
<1> QED
  BY <1>u, <1>1, <1>2, <1>3

(***************************************************************************)
(* The steps of the knowledge arm and the end of the race                  *)
(***************************************************************************)

LEMMA GoalsFinite == TurnOK => IsFiniteSet(q.goals) /\ q.goals # {}
<1> SUFFICES ASSUME TurnOK PROVE IsFiniteSet(q.goals) /\ q.goals # {}
  OBVIOUS
<1>1. q.goals \in SUBSET Goals /\ q.goals # {}
  BY DEF TurnOK, TypeOK, Question
<1> QED
  BY <1>1, FS_Subset

\* The answer to a question with one subgoal is that subgoal's.
LEMMA OneGoal ==
    ASSUME TurnOK, Cardinality(q.goals) = 1, NEW g \in q.goals
    PROVE  DataKind = goal[g].res
<1>1. PICK h : q.goals = {h}
  BY GoalsFinite, FS_Singleton
<1>2. (CHOOSE h2 \in q.goals : TRUE) = g
  BY <1>1
<1>3. DataKind = goal[CHOOSE h2 \in q.goals : TRUE].res
  BY DEF DataKind
<1> QED
  BY <1>2, <1>3

LEMMA ShowType ==
    ASSUME TurnOK
    PROVE  /\ DataKind \in Kinds \union {"many"} /\ Unanswered \in SUBSET Goals
           /\ Failures \subseteq Trouble
<1>1. q.goals \in SUBSET Goals /\ goal \in [Goals -> Goal] /\ q.goals # {}
  BY DEF TurnOK, TypeOK, Question
<1>2. \A g \in q.goals : goal[g].res \in Kinds
  BY <1>1 DEF Goal
<1> QED
  BY <1>1, <1>2 DEF DataKind, Unanswered, Failures, Trouble

\* What is left to show of an end of the race.
LEMMA Shows ==
    ASSUME TurnOK, NEW kind, NEW data, NEW known, NEW missing,
           Show(kind, data, known, missing),
           [kind |-> kind, data |-> data, kb |-> known, missing |-> missing] \in Out,
           ~Hybrid => Finished,
           DeniedIsRaised', CardsStand', OneFailureIsNamed'
    PROVE  TurnOK'
<1>1. /\ out' = [kind |-> kind, data |-> data, kb |-> known, missing |-> missing]
      /\ phase' = "over" /\ UNCHANGED <<q, goal, kb>>
  BY DEF Show
<1>2. TypeOK' /\ DecidedOK' /\ ArmOK' /\ PartOK' /\ RefusedOK' /\ FreeSqlUnderContract'
  BY <1>1 DEF TurnOK, TypeOK, DecidedOK, KbIsPrimary, ArmOK, PartOK, RefusedOK,
     FreeSqlUnderContract, Hybrid, Running
<1>3. RaceOK'
  BY <1>1 DEF RaceOK, Finished, Hybrid, KbIsPrimary
<1> QED
  BY <1>2, <1>3 DEF TurnOK

LEMMA TurnKeeps == ASSUME TurnOK, TurnStep PROVE TurnOK'
<1>t. /\ TypeOK /\ DecidedOK /\ ArmOK /\ PartOK /\ RefusedOK /\ RaceOK
      /\ q \in Question /\ q.goals \subseteq Goals /\ goal \in [Goals -> Goal] /\ out \in Out
      /\ q.doc \in BOOLEAN
  BY DEF TurnOK, TypeOK, Question
<1>q. \A failure \in Trouble :
          [kind |-> failure, data |-> "none", kb |-> FALSE, missing |-> {}] \in Out
  BY DEF Out, Kinds
<1>d. \A known \in BOOLEAN :
          /\ [kind |-> "answer", data |-> "none", kb |-> known, missing |-> {}] \in Out
          /\ [kind |-> "answer", data |-> DataKind, kb |-> known, missing |-> {}] \in Out
          /\ [kind |-> "answer", data |-> DataKind, kb |-> known, missing |-> Unanswered] \in Out
  BY ShowType DEF Out, Kinds
<1>n. [kind |-> "answer", data |-> "need", kb |-> FALSE, missing |-> {}] \in Out
  BY DEF Out, Kinds, Cards
<1>h. ASSUME Hybrid, phase' = "over", q' = q
      PROVE  DeniedIsRaised' /\ CardsStand' /\ OneFailureIsNamed'
  BY <1>h DEF DeniedIsRaised, CardsStand, OneFailureIsNamed, Hybrid
\* The steps of the knowledge arm, and the data arm that is through first.
<1>k. ASSUME UNCHANGED <<q, goal, out>>, phase # "over", phase' # "over",
             kb' \in Running \union {"off", "failed", "nohit", "hit", "dropped"},
             phase' \in {"asking", "bonus", "primary"}, kb # "off",
             KbIsPrimary => phase' # "bonus"
      PROVE  TurnOK'
  <2>1. out.kind = "none"
    BY <1>k DEF TurnOK, RaceOK
  <2>2. TypeOK' /\ DecidedOK' /\ ArmOK' /\ PartOK' /\ FreeSqlUnderContract'
    BY <1>k DEF TurnOK, TypeOK, DecidedOK, KbIsPrimary, ArmOK, PartOK,
       FreeSqlUnderContract, Hybrid
  <2>3. RefusedOK' /\ RaceOK'
    BY <1>k, <1>t, <2>1 DEF RefusedOK, RaceOK, Hybrid, KbIsPrimary
  <2> QED
    BY <1>k, <2>1, <2>2, <2>3 DEF TurnOK, DeniedIsRaised, CardsStand, OneFailureIsNamed
<1>1. CASE KnowledgeAnswers
  BY <1>1, <1>k, <1>t DEF KnowledgeAnswers, Runs, RaceOK, TypeOK
<1>2. CASE KnowledgeTimesOut
  BY <1>2, <1>k, <1>t DEF KnowledgeTimesOut, RaceOK, TypeOK
<1>3. CASE DataDone
  <2>1. Budget \in {"bonus", "primary"} /\ (KbIsPrimary => Budget = "primary")
    BY DEF Budget
  <2> QED
    BY <1>3, <1>k, <2>1 DEF DataDone
\* What the properties say of a question that is not hybrid, once its arms are through.
<1>f. ASSUME ~Hybrid, BothDone, UNCHANGED <<q, goal, kb>>, phase' = "over",
             out'.kind = "answer" =>
                 /\ \E g \in q.goals : goal[g].res # "denied"
                 /\ q.destructive => ~out'.kb /\ Answered # {}
                 /\ q.plan.route = "Data" /\ Cardinality(q.goals) = 1 =>
                        \A g \in q.goals : goal[g].res \in {"need", "empty"} =>
                            out'.data = goal[g].res /\ (out'.kb => q.doc),
             Cardinality(q.goals) > 1 /\ Answered # {} =>
                 out'.kind = "answer" /\ (out'.data = "many" => out'.missing = q.goals \ Answered)
      PROVE  DeniedIsRaised' /\ CardsStand' /\ OneFailureIsNamed'
  <2>1. DeniedIsRaised'
    BY <1>f DEF DeniedIsRaised, Hybrid
  <2>2. ASSUME out'.kind = "answer", q.destructive
        PROVE  ~out'.kb /\ \A g \in q.goals : goal[g].res = "need"
    <3>1. \A g \in q.goals : goal[g].pc = "done" /\ goal[g].res \in {"need"} \union Trouble
      BY <1>f, <1>t, <2>2 DEF RefusedOK, BothDone, Finished
    <3>2. PICK g \in q.goals : goal[g].res \notin Fails
      BY <1>f, <2>2 DEF Answered
    <3>3. goal[g].res = "need" /\ \A h \in q.goals : goal[h].res = goal[g].res
      BY <1>f, <1>t, <2>2, <3>1, <3>2 DEF RefusedOK, Fails
    <3> QED
      BY <1>f, <2>2, <3>3
  <2>3. CardsStand'
    BY <1>f, <2>2 DEF CardsStand
  <2>4. OneFailureIsNamed'
    BY <1>f DEF OneFailureIsNamed, Answered
  <2> QED
    BY <2>1, <2>3, <2>4
<1>b. BothDone => Finished
  BY DEF BothDone
<1>4. CASE DualFails
  <2>1. ~Hybrid /\ BothDone /\ Answered = {} /\ UNCHANGED <<q, goal, kb>> /\ phase' = "over"
    BY <1>4 DEF DualFails, DataFails, Show
  <2>2. \A g \in q.goals : goal[g].res \in Fails
    BY <2>1 DEF Answered
  <2>3. PICK failure \in Failures : \E worded \in Worded(failure) :
            IF kb = "hit" /\ GivesWay(worded)
            THEN Show("answer", "none", TRUE, {}) ELSE Show(failure, "none", FALSE, {})
    BY <1>4 DEF DualFails
  <2>4. PICK worded \in Worded(failure) :
            IF kb = "hit" /\ GivesWay(worded)
            THEN Show("answer", "none", TRUE, {}) ELSE Show(failure, "none", FALSE, {})
    BY <2>3
  <2>t. failure \in Trouble /\ failure # "answer"
    BY ShowType DEF Trouble, Refusals
  <2>5. CASE kb = "hit" /\ GivesWay(worded)
    <3>1. \E g \in q.goals : goal[g].res # "denied"
      <4>1. failure # "denied"
        BY <2>4, <2>5 DEF GivesWay, Worded
      <4> QED
        BY <4>1 DEF Failures, Refusals
    <3>2. ~q.destructive
      BY <1>t, <2>1, <2>5 DEF RefusedOK
    <3>3. DeniedIsRaised' /\ CardsStand' /\ OneFailureIsNamed'
      BY <1>f, <2>1, <2>2, <3>1, <3>2 DEF Fails, Trouble, Refusals
    <3> QED
      BY <1>b, <1>d, <2>1, <2>4, <2>5, <3>3, Shows
  <2>6. CASE ~(kb = "hit" /\ GivesWay(worded))
    <3>1. out'.kind = failure /\ out'.kind # "answer"
      BY <2>t, <2>4, <2>6 DEF Show
    <3>2. DeniedIsRaised' /\ CardsStand' /\ OneFailureIsNamed'
      BY <1>f, <2>1, <3>1
    <3> QED
      BY <1>b, <1>q, <2>1, <2>t, <2>4, <2>6, <3>2, Shows
  <2> QED
    BY <2>5, <2>6
<1>5. CASE Dual
  <2>1. ~Hybrid /\ BothDone /\ Answered # {} /\ UNCHANGED <<q, goal, kb>> /\ phase' = "over"
    BY <1>5 DEF Dual, DataFails, Show
  <2>2. \E g \in q.goals : goal[g].res # "denied"
    BY <2>1 DEF Answered, Fails, Trouble, Refusals
  <2>3. q.destructive => kb # "hit"
    BY <1>t, <2>1 DEF RefusedOK
  <2>4. Cardinality(q.goals) > 1 => Unanswered = q.goals \ Answered
    BY DEF Unanswered
  <2>5. \A g \in q.goals : Cardinality(q.goals) = 1 => DataKind = goal[g].res
    BY OneGoal
  <2>6. \A g \in q.goals : Cardinality(q.goals) = 1 /\ goal[g].res \in {"need", "empty"}
            => ~Substance
    BY DEF Substance
\* Only the data side.
  <2>7. CASE kb # "hit"
    <3>1. Show("answer", DataKind, FALSE, Unanswered)
      BY <1>5, <2>7 DEF Dual
    <3>2. /\ out'.kind = "answer" /\ out'.data = DataKind /\ ~out'.kb
          /\ out'.missing = Unanswered
      BY <3>1 DEF Show
    <3>3. DeniedIsRaised' /\ CardsStand' /\ OneFailureIsNamed'
      BY <1>f, <2>1, <2>2, <2>4, <2>5, <3>2
    <3> QED
      BY <1>b, <1>d, <2>1, <3>1, <3>3, Shows
\* A card, with or without a document.
  <2>8. CASE kb = "hit" /\ ~Substance /\ KeepsCard
    <3>1. Show("answer", DataKind, q.doc, Unanswered)
      BY <1>5, <2>8 DEF Dual
    <3>2. /\ out'.kind = "answer" /\ out'.data = DataKind /\ out'.kb = q.doc
          /\ out'.missing = Unanswered
      BY <3>1 DEF Show
    <3>3. DeniedIsRaised' /\ CardsStand' /\ OneFailureIsNamed'
      BY <1>f, <2>1, <2>2, <2>3, <2>4, <2>5, <2>8, <3>2
    <3> QED
      BY <1>b, <1>d, <1>t, <2>1, <3>1, <3>3, Shows
\* Only the document.
  <2>9. CASE Show("answer", "none", TRUE, {}) /\ kb = "hit" /\ (KeepsCard => Substance)
    <3>1. out'.kind = "answer" /\ out'.data = "none" /\ out'.kb
      BY <2>9 DEF Show
    <3>2. DeniedIsRaised' /\ CardsStand' /\ OneFailureIsNamed'
      BY <1>f, <2>1, <2>2, <2>3, <2>6, <2>9, <3>1 DEF KeepsCard
    <3> QED
      BY <1>b, <1>d, <2>1, <2>9, <3>2, Shows
\* Both.
  <2>10. CASE /\ kb = "hit" /\ Substance
              /\ \E summary \in BOOLEAN : Show("answer", DataKind, summary \/ q.doc, Unanswered)
    <3>1. PICK summary \in BOOLEAN : Show("answer", DataKind, summary \/ q.doc, Unanswered)
      BY <2>10
    <3>2. out'.kind = "answer" /\ out'.data = DataKind /\ out'.missing = Unanswered
      BY <3>1 DEF Show
    <3>3. DeniedIsRaised' /\ CardsStand' /\ OneFailureIsNamed'
      BY <1>f, <2>1, <2>2, <2>3, <2>4, <2>5, <2>6, <2>10, <3>2
    <3>4. (summary \/ q.doc) \in BOOLEAN
      BY <1>t
    <3> QED
      BY <1>b, <1>d, <2>1, <3>1, <3>3, <3>4, Shows
  <2> QED
    BY <1>5, <2>7, <2>8, <2>9, <2>10 DEF Dual, KbIsPrimary, KeepsCard
<1>6. CASE Join
  <2>1. Hybrid /\ UNCHANGED <<q, goal, kb>> /\ phase' = "over"
    BY <1>6 DEF Join, Show
  <2>2. DeniedIsRaised' /\ CardsStand' /\ OneFailureIsNamed'
    BY <1>h, <2>1
  <2>3. \/ \E known \in BOOLEAN : Show("answer", DataKind, known, {})
        \/ Show("answer", "none", TRUE, {})
        \/ \E failure \in Failures : Show(failure, "none", FALSE, {})
    <3>1. CASE ~DataFails /\ Show("answer", DataKind, kb \in {"hit", "nohit"}, {})
      <4>1. (kb \in {"hit", "nohit"}) \in BOOLEAN
        OBVIOUS
      <4> QED
        BY <3>1, <4>1, Zenon
    <3> QED
      BY <1>6, <3>1 DEF Join
  <2>4. Failures \subseteq Trouble
    BY ShowType
  <2> QED
    BY <1>q, <1>d, <2>1, <2>2, <2>3, <2>4, Shows
<1>7. CASE JoinRefused
  <2>1. Hybrid /\ q' = q /\ phase' = "over" /\ Show("answer", "need", FALSE, {})
    BY <1>7 DEF JoinRefused, Show
  <2>2. DeniedIsRaised' /\ CardsStand' /\ OneFailureIsNamed'
    BY <1>h, <2>1
  <2> QED
    BY <1>n, <2>1, <2>2, Shows
<1> QED
  BY <1>1, <1>2, <1>3, <1>4, <1>5, <1>6, <1>7 DEF TurnStep

LEMMA TurnStutters == TurnOK /\ UNCHANGED vars => TurnOK'
BY DEF vars, TurnOK, TypeOK, DecidedOK, KbIsPrimary, ArmOK, PartOK, RefusedOK, RaceOK, Finished,
   FreeSqlUnderContract, DeniedIsRaised, CardsStand, OneFailureIsNamed, Answered, Hybrid, Running

THEOREM TurnAlways == Spec => []TurnOK
<1>1. TurnOK /\ [Next]_vars => TurnOK'
  BY GoalKeeps, TurnKeeps, TurnStutters DEF Next
<1> QED
  BY <1>1, TurnInit, PTL DEF Spec

(***************************************************************************)
(* The theorems                                                            *)
(***************************************************************************)

\* TypeOK: every variable keeps its type.
THEOREM TurnTypes == Spec => []TypeOK
<1>1. TurnOK => TypeOK
  BY DEF TurnOK
<1> QED
  BY <1>1, TurnAlways, PTL

\* FreeSqlUnderContract: the model's SQL answers only what a sure contract about data asks.
THEOREM FreeSqlIsUnderContract == Spec => []FreeSqlUnderContract
<1>1. TurnOK => FreeSqlUnderContract
  BY DEF TurnOK
<1> QED
  BY <1>1, TurnAlways, PTL

\* DeniedIsRaised: no document instead of a refusal.
THEOREM DenialIsRaised == Spec => []DeniedIsRaised
<1>1. TurnOK => DeniedIsRaised
  BY DEF TurnOK
<1> QED
  BY <1>1, TurnAlways, PTL

\* CardsStand: a card is not replaced by a document.
THEOREM CardIsShown == Spec => []CardsStand
<1>1. TurnOK => CardsStand
  BY DEF TurnOK
<1> QED
  BY <1>1, TurnAlways, PTL

\* OneFailureIsNamed: one answered subgoal is enough, and the others are named.
THEOREM FailureIsNamed == Spec => []OneFailureIsNamed
<1>1. TurnOK => OneFailureIsNamed
  BY DEF TurnOK
<1> QED
  BY <1>1, TurnAlways, PTL

\* CardSurvivesSecondTry: an error of the second try gives way to the card of the first.
THEOREM FirstCardSurvives == Spec => CardSurvivesSecondTry
<1> DEFINE Survives == \A g \in q.goals :
                           goal[g].first # "none" /\ goal'[g].pc = "done"
                               => goal'[g].res \notin Fails
<1>1. ASSUME TurnOK, Next PROVE Survives
  <2> SUFFICES ASSUME NEW g \in q.goals, goal[g].first # "none", goal'[g].pc = "done"
               PROVE  goal'[g].res \notin Fails
    OBVIOUS
  <2>1. g \in Goals /\ goal[g].pc \in {"ask", "reword"} /\ goal \in [Goals -> Goal]
    BY <1>1 DEF TurnOK, TypeOK, Question, ArmOK, Goal
  <2>2. goal' # goal
    BY <2>1
  <2>3. PICK h \in Goals : GoalStep(h)
    BY <1>1, <2>2 DEF Next, TurnStep, KnowledgeAnswers, KnowledgeTimesOut, DataDone, DualFails,
       Dual, Join, JoinRefused, Show
  <2>4. Settled(h) \/ Open(h) \/ Moves(h)
    BY <1>1, <2>3, StepOfGoal DEF TurnOK
  <2>5. CASE Moves(h)
    BY <2>1, <2>5 DEF Moves
\* The arm of another subgoal that is still open does not reach this one.
  <2>6. CASE Settled(h) \/ Open(h)
    <3>1. goal[h].pc = "open" /\ h \in q.goals
      BY <1>1, <2>6, StillOpen DEF Settled, Open
    <3>2. g \notin Arm(h)
      BY <1>1, <2>1, <3>1 DEF Arm, TurnOK, ArmOK
    <3> QED
      BY <2>1, <2>6, <3>2 DEF Settled, Open
  <2> QED
    BY <2>4, <2>5, <2>6
<1>2. TurnOK /\ [Next]_vars => [Survives]_vars
  BY <1>1
<1> QED
  BY <1>2, TurnAlways, PTL DEF Spec, CardSurvivesSecondTry

\* DocumentQuestionGetsIt: a question whose words ask for a document waits for it, and
\* shows it.
THEOREM DocumentIsShown == Spec => DocumentQuestionGetsIt
<1> DEFINE Gets == KbIsPrimary =>
                       /\ kb' = "dropped" => kb \in {"never", "dropped"}
                       /\ phase' = "over" /\ out'.kind = "answer" /\ kb = "hit" => out'.kb
<1>1. ASSUME TurnOK, Next PROVE Gets
  <2> SUFFICES ASSUME KbIsPrimary PROVE Gets
    OBVIOUS
  <2>1. ~Hybrid /\ q.plan.route = "Knowledge" /\ phase # "bonus" /\ kb # "unknown"
        /\ (q.plan.deliverable = "Document" \/ q.doc)
    BY <1>1 DEF TurnOK, TypeOK, Running, KbIsPrimary, Hybrid, RaceOK, DecidedOK
  <2>2. CASE \E g \in Goals : GoalStep(g)
    <3>1. PICK g \in Goals : GoalStep(g)
      BY <2>2
    <3>2. UNCHANGED <<kb, phase, out>> /\ goal[g].pc \in {"open", "ask", "reword"}
      BY <1>1, <3>1, StepOfGoal DEF TurnOK, Settled, Open, Moves
    <3> QED
      BY <1>1, <2>1, <3>2, StillOpen
  <2>3. CASE KnowledgeAnswers
    BY <2>3 DEF KnowledgeAnswers, Runs
  <2>4. CASE KnowledgeTimesOut
    BY <1>1, <2>1, <2>4 DEF KnowledgeTimesOut
  <2>5. CASE DataDone
    BY <2>5 DEF DataDone, Budget, Running
  <2>6. CASE DualFails
    <3>1. PICK failure \in Failures : \E worded \in Worded(failure) :
              IF kb = "hit" /\ GivesWay(worded)
              THEN Show("answer", "none", TRUE, {}) ELSE Show(failure, "none", FALSE, {})
      BY <2>6 DEF DualFails
    <3>2. failure # "answer"
      BY <1>1, ShowType DEF Trouble, Refusals
    <3> QED
      BY <3>1, <3>2 DEF Show
  <2>7. CASE Dual
    <3>1. ~KeepsCard
      BY <2>1 DEF KeepsCard
    <3>2. CASE kb # "hit"
      BY <2>7, <3>2 DEF Dual, Show
    <3>3. CASE kb = "hit" /\ Show("answer", "none", TRUE, {})
      BY <3>3 DEF Show
    <3>4. CASE /\ kb = "hit" /\ q.doc
               /\ \E summary \in BOOLEAN : Show("answer", DataKind, summary \/ q.doc, Unanswered)
      <4>1. PICK summary \in BOOLEAN : Show("answer", DataKind, summary \/ q.doc, Unanswered)
        BY <3>4
      <4>2. out'.kb = (summary \/ q.doc) /\ kb' = kb
        BY <4>1 DEF Show
      <4> QED
        BY <3>4, <4>2
    <3> QED
      BY <2>1, <2>7, <3>1, <3>2, <3>3, <3>4 DEF Dual
  <2>8. CASE Join \/ JoinRefused
    BY <2>1, <2>8 DEF Join, JoinRefused
  <2> QED
    BY <1>1, <2>2, <2>3, <2>4, <2>5, <2>6, <2>7, <2>8 DEF Next, TurnStep
<1>2. TurnOK /\ [Next]_vars => [Gets]_vars
  BY <1>1
<1> QED
  BY <1>2, TurnAlways, PTL DEF Spec, DocumentQuestionGetsIt
=============================================================================
