------------------------------ MODULE AskTurn ------------------------------
(***************************************************************************)
(* One question from its contract to its answer (crates/agent/src/ask.rs,   *)
(* hybrid.rs): which way it goes (decide), the data arm with its table of   *)
(* members and one second try, the knowledge arm that runs beside it within *)
(* a budget, and what of the two the user gets to see.                      *)
(*                                                                          *)
(* A question is what the decisions read of it; an answer is the kind of    *)
(* card or table it is.  The data arm of a question with typed subgoals     *)
(* answers them side by side; a hybrid question has one data arm for each.  *)
(***************************************************************************)
EXTENDS Integers, FiniteSets

CONSTANTS
    Goals,   \* the subgoals a contract can list
    Sole     \* one of them, or the question itself when the contract lists none

ASSUME GoalsAssumption == Sole \in Goals /\ IsFiniteSet(Goals)

VARIABLES
    q,      \* PreparedQuestion: the contract and what decide made of it
    goal,   \* the data arms, one entry for each subgoal
    kb,     \* the knowledge arm
    phase,  \* where race_arms, or the join of the hybrid question, is
    out     \* the answer

vars == <<q, goal, kb, phase, out>>

Routes == {"Data", "Knowledge", "Hybrid", "Unknown"}
Contracts == {[state |-> "invalid", route |-> "Unknown"]}
                 \union [state : {"ready", "ambiguous"}, route : Routes]

\* IntentAttempt::is_data_executable.
Executable(contract) == contract.route = "Data" /\ contract.state = "ready"
Ready(contract) == contract.state # "invalid"

\* The words of a question that decide looks for: a chip the user clicked, a verb
\* of asking for a file beside a word for documents, such a word alone, a document
\* number, slots of the contract that outweigh the word.
Signals == [chip : {"Data", "Knowledge", "none"}, file : BOOLEAN, noun : BOOLEAN,
            number : BOOLEAN, measured : BOOLEAN]

Plan(route, deliverable, fixed) ==
    [route |-> route, deliverable |-> deliverable, deterministic |-> fixed]

\* decide: the first rule that applies.
Decide(sig, contract) ==
    CASE sig.chip # "none"                            -> Plan(sig.chip, "Answer", FALSE)
      [] sig.chip = "none" /\ sig.file                -> Plan("Knowledge", "Document", TRUE)
      [] sig.chip = "none" /\ ~sig.file /\ sig.number -> Plan("Data", "Answer", TRUE)
      [] sig.chip = "none" /\ ~sig.file /\ ~sig.number /\ sig.noun /\ ~sig.measured
                                                      -> Plan("Knowledge", "Answer", TRUE)
      [] OTHER                                        -> Plan(contract.route, "Answer", FALSE)

Plans == [route : Routes, deliverable : {"Answer", "Document"}, deterministic : BOOLEAN]

\* destructive: destructive_hit; doc: a word for documents; typed: the subgoals go
\* where the question goes (a hybrid contract: several data goals and one for the
\* knowledge base); goals: the subgoals, of a hybrid question those about data.
Question == [plan : Plans, contract : Contracts, destructive : BOOLEAN, doc : BOOLEAN,
             typed : BOOLEAN, goals : (SUBSET Goals) \ {{}}]

\* need: the card that asks back; unavailable: the card that says the warehouse does
\* not have it; empty: a table without rows, or the card that nobody registered the
\* topic; bug: nobody answered although somebody had to.
Cards == {"need", "unavailable"}

\* Two kinds of refusal: one that names rights or a scope (a data source, a statement
\* that cannot be scoped), and one that does not (a role without a data range, a set of
\* rows that comes out empty and is not granted either).
Refusals == {"denied", "unscoped"}
Trouble == {"error"} \union Refusals
Fails == Trouble \union {"bug"}
Kinds == {"none", "rows", "empty"} \union Cards \union Fails

\* first: the card of the first try, once there is a second.  sql: who wrote what was
\* run, the code, the model at the end of the table, or the model inside a fixed member.
Writers == {"code", "model", "derived"}
Goal == [pc : {"off", "open", "ask", "reword", "done"}, contract : Contracts,
         first : Cards \union {"none"}, res : Kinds, sql : Writers]
NoContract == [state |-> "invalid", route |-> "Unknown"]
IdleGoal == [pc |-> "off", contract |-> NoContract, first |-> "none", res |-> "none", sql |-> "code"]

Out == [kind : {"none", "answer"} \union Trouble, data : Kinds \union {"many"},
        kb : BOOLEAN, missing : SUBSET Goals]
NoOut == [kind |-> "none", data |-> "none", kb |-> FALSE, missing |-> {}]

\* The knowledge arm: still running (and, once the data arm is through, how much
\* longer it needs), over, or cut off.
Running == {"running", "soon", "late", "never"}

TypeOK ==
    /\ q \in Question
    /\ goal \in [Goals -> Goal]
    /\ kb \in Running \union {"off", "failed", "nohit", "hit", "dropped"}
    /\ phase \in {"asking", "bonus", "primary", "over"}
    /\ out \in Out

Hybrid == q.plan.route = "Hybrid"

\* ask_prepared: no free SQL for anything but an executable data contract.  A hybrid
\* question starts its data arms without asking.
Fallback == ~Hybrid /\ (q.plan.route # "Data" \/ ~Executable(q.contract))

\* Mutant: the knowledge arm does not look at what the question asks for.
AsksKnowledge_Always(question) == TRUE

\* dual_outcome, kb_fut: a question that asks to destroy data never asks it.  The
\* one of a hybrid question has no such line.
AsksKnowledge(question) == question.plan.route = "Hybrid" \/ ~question.destructive

\* A hybrid contract that cannot be split is answered with a card.
Splits == q.typed

Init ==
    /\ \E sig \in Signals, contract \in Contracts, destructive, typed \in BOOLEAN,
          goals \in {G \in SUBSET Goals : Sole \in G} :
        /\ sig.chip # "none" => /\ contract.route = sig.chip \/ ~Ready(contract)
                                /\ Cardinality(goals) = 1
        /\ sig.measured => Ready(contract)
        /\ Cardinality(goals) > 1 => contract.route # "Unknown"
        /\ q = [plan |-> Decide(sig, contract), contract |-> contract, destructive |-> destructive,
                doc |-> sig.noun, typed |-> typed, goals |-> goals]
    /\ goal = [g \in Goals |-> IF g \in q.goals THEN [IdleGoal EXCEPT !.pc = "open"] ELSE IdleGoal]
    /\ kb = IF AsksKnowledge(q) THEN "running" ELSE "off"
    /\ phase = "asking"
    /\ out = NoOut

----------------------------------------------------------------------------
\* The data arm up to its members.

\* The subgoals that share the data arm of g.
Arm(g) == IF Hybrid THEN {g} ELSE q.goals

Settle(gs, res) ==
    /\ goal' = [g \in Goals |-> IF g \in gs
                                THEN [IdleGoal EXCEPT !.pc = "done", !.res = res] ELSE goal[g]]
    /\ UNCHANGED <<q, kb, phase, out>>

\* The arm is run at all: a hybrid question that does not split has none.
Runs == phase # "over" /\ (Hybrid => Splits)

\* A contract whose subgoals go elsewhere is not executed.
Unowned(g) ==
    /\ Runs
    /\ goal[g].pc = "open"
    /\ ~Fallback /\ ~q.plan.deterministic /\ ~q.typed
    /\ Settle(Arm(g), "need")

\* compute_scope_cached, select_source or open_source fails.
OpenFails(g) ==
    /\ Runs
    /\ goal[g].pc = "open"
    /\ \E fail \in Trouble : Settle(Arm(g), fail)

\* The red line is drawn before the members are.
Refuse(g) ==
    /\ Runs
    /\ goal[g].pc = "open"
    /\ q.destructive
    /\ Settle(Arm(g), "need")

\* Each subgoal goes on with its part of the contract, or with an invalid one when
\* its part cannot be told.  A part keeps what the contract is unsure of.
Open(g) ==
    /\ Runs
    /\ goal[g].pc = "open"
    /\ Fallback \/ q.plan.deterministic \/ q.typed
    /\ ~q.destructive
    /\ \E told \in [Arm(g) -> BOOLEAN] :
        goal' = [h \in Goals |->
            IF h \notin Arm(g) THEN goal[h]
            ELSE [goal[h] EXCEPT !.pc = "ask",
                      !.contract =
                          IF told[h] /\ Ready(q.contract)
                          THEN [q.contract EXCEPT !.route = IF Hybrid THEN "Data" ELSE @]
                          ELSE NoContract]]
    /\ UNCHANGED <<q, kb, phase, out>>

----------------------------------------------------------------------------
\* One subgoal: ask_single, and once more with other words.

Done(g, is, sql) ==
    /\ goal' = [goal EXCEPT ![g] = [IdleGoal EXCEPT !.pc = "done", !.res = is, !.sql = sql]]
    /\ UNCHANGED <<q, kb, phase, out>>

\* Mutant: an error is an error, also in the second try.
AfterError_Raise(g, fail) == fail

\* The error of the second try gives way to the card of the first.
AfterError(g, fail) == IF goal[g].first # "none" THEN goal[g].first ELSE fail

Raised(g, fail) == Done(g, AfterError(g, fail), "code")

\* A card is worth a second try, but not that of a reader of the question's own words
\* (final) and not that of a question that asks to destroy data.
Retryable(g, is, final) ==
    /\ Ready(goal[g].contract)
    /\ \/ is = "unavailable"
       \/ is = "need" /\ ~final /\ ~q.destructive

MayReword(g) == goal[g].first = "none"

\* A member answered.  A card that is worth a second try leads to one, or to a
\* card with proposals if this was it (reinterpret_clarify_reply).
Answer(g, is, sql, final) ==
    \/ /\ ~Retryable(g, is, final)
       /\ Done(g, is, sql)
    \/ /\ Retryable(g, is, final)
       /\ MayReword(g)
       /\ goal' = [goal EXCEPT ![g].pc = "reword", ![g].first = is]
       /\ UNCHANGED <<q, kb, phase, out>>
    \/ /\ Retryable(g, is, final)
       /\ ~MayReword(g)
       /\ Done(g, "need", "code")

\* A member whose SQL the code wrote takes the question.
FixedMember(g) ==
    /\ goal[g].pc = "ask"
    /\ \/ \E is \in {"rows", "empty"} \union Cards, final \in BOOLEAN : Answer(g, is, "code", final)
       \/ \E fail \in Trouble : Raised(g, fail)

\* Mutant: the fixed members are open whatever the contract.
MayDerive_Always == TRUE

\* derive_eligible: the arm is not closed to new SQL.  It does not look at the contract.
MayDerive == ~Fallback

\* direct_hit, ods_derive: where the code knows only a card that says what it cannot
\* do, it has the model write SQL for the raw tables, and a table with rows takes the
\* place of the card.  It is read again to be shown.
Derive(g) ==
    /\ goal[g].pc = "ask"
    /\ MayDerive
    /\ \E is \in {"rows", "empty"} : Answer(g, is, "derived", FALSE)

\* LlmAnswerer::accept.
LlmAccepts(contract) == Executable(contract)

\* None of them does, and the model writes the SQL (SqlRun).
FreeSql(g) ==
    /\ goal[g].pc = "ask"
    /\ ~Fallback
    /\ LlmAccepts(goal[g].contract)
    /\ \/ \E is \in {"rows", "empty", "need"} : Answer(g, is, "model", FALSE)
       \/ \E fail \in Trouble : Raised(g, fail)

\* Nobody takes it: a card, with the reason when the contract is no good.
NobodyAnswers(g) ==
    /\ goal[g].pc = "ask"
    /\ Fallback \/ ~Ready(goal[g].contract)
    /\ Answer(g, "need", "code", FALSE)

\* The table has the member, the contract is ready, and the member declines.
NobodyLeft(g) ==
    /\ goal[g].pc = "ask"
    /\ ~Fallback
    /\ Ready(goal[g].contract)
    /\ ~LlmAccepts(goal[g].contract)
    /\ Raised(g, "bug")

\* reinterpret_question: other words within what the contract says.
Reword(g) ==
    /\ goal[g].pc = "reword"
    /\ goal' = [goal EXCEPT ![g].pc = "ask"]
    /\ UNCHANGED <<q, kb, phase, out>>

\* It fails, takes too long, or says something else than the question.
NoReword(g) ==
    /\ goal[g].pc = "reword"
    /\ Done(g, goal[g].first, "code")

----------------------------------------------------------------------------
\* The knowledge arm and the race.

\* It may be done while the data arm is still asking, and later as long as the
\* budget lasts.  The join of a hybrid question waits for it however long it takes.
KnowledgeAnswers ==
    /\ Runs
    /\ \/ phase = "asking" /\ kb = "running"
       \/ phase = "bonus" /\ kb = "soon"
       \/ phase = "primary" /\ kb \in {"soon", "late"}
    /\ kb' \in {"failed", "nohit", "hit"}
    /\ UNCHANGED <<q, goal, phase, out>>

KnowledgeTimesOut ==
    /\ \/ phase = "bonus" /\ kb \in {"late", "never"}
       \/ phase = "primary" /\ kb = "never"
    /\ kb' = "dropped"
    /\ UNCHANGED <<q, goal, phase, out>>

\* The answers there are, and what a failed one makes of the whole.
Answered == {g \in q.goals : goal[g].res \notin Fails}
Finished == \A g \in q.goals : goal[g].pc = "done"

\* Mutant: the first subgoal that fails fails them all.
DataFails_Any == Answered # q.goals

\* Typed subgoals fail together only if none was answered; in a hybrid question one
\* is enough.
DataFails == IF Hybrid THEN Answered # q.goals ELSE Answered = {}

\* data_has_substance: a compound answer always has.
Substance ==
    /\ ~DataFails
    /\ \/ Cardinality(q.goals) > 1
       \/ \A g \in q.goals : goal[g].res \in {"rows", "unavailable"}

KbIsPrimary == q.plan.route = "Knowledge" /\ q.plan.deterministic

\* Mutant: a table in the data arm is enough to hurry the knowledge arm.
Budget_BySubstance == IF Substance THEN "bonus" ELSE "primary"

\* race_arms: how long the knowledge arm may go on.
Budget == IF Substance /\ ~KbIsPrimary THEN "bonus" ELSE "primary"

\* The data arm is through first.
DataDone ==
    /\ phase = "asking"
    /\ ~Hybrid
    /\ Finished
    /\ kb = "running"
    /\ phase' = Budget
    /\ kb' \in Running \ {"running"}
    /\ UNCHANGED <<q, goal, out>>

\* Both arms are through.
BothDone ==
    /\ Runs
    /\ Finished
    /\ kb \notin Running

DataKind == IF Cardinality(q.goals) > 1 THEN "many"
            ELSE goal[CHOOSE g \in q.goals : TRUE].res

\* The failures of the subgoals, one of which is the failure of the arm.
Failures == {IF goal[g].res \in Refusals THEN goal[g].res ELSE "error" : g \in q.goals \ Answered}

\* Whether the text of a failure holds one of the words for rights; that of an ordinary
\* one may by chance, in a name it quotes.
Worded(failure) == CASE failure = "denied"   -> {TRUE}
                     [] failure = "unscoped" -> {FALSE}
                     [] OTHER                -> BOOLEAN

\* Mutant: a failure of any kind gives way to the knowledge base.
GivesWay_Always(worded) == TRUE

\* dual_outcome: a failure gives way to the knowledge base, unless it says it is about
\* rights.
GivesWay(worded) == ~worded

\* dual_outcome: the card about a data question stands.
KeepsCard == q.plan.route = "Data"

Show(kind, data, known, missing) ==
    /\ out' = [kind |-> kind, data |-> data, kb |-> known, missing |-> missing]
    /\ phase' = "over"
    /\ UNCHANGED <<q, goal, kb>>

\* The subgoals missing_note names.
Unanswered == IF Cardinality(q.goals) > 1 THEN q.goals \ Answered ELSE {}

\* dual and fuse, when the data arm failed.
DualFails ==
    /\ BothDone
    /\ ~Hybrid
    /\ DataFails
    /\ \E failure \in Failures : \E worded \in Worded(failure) :
        IF kb = "hit" /\ GivesWay(worded)
        THEN Show("answer", "none", TRUE, {})
        ELSE Show(failure, "none", FALSE, {})

\* dual and fuse, when it has something to say.  The summary of both sides may come
\* to nothing; then a document nobody asked for is not shown.
Dual ==
    /\ BothDone
    /\ ~Hybrid
    /\ ~DataFails
    /\ IF kb # "hit" THEN Show("answer", DataKind, FALSE, Unanswered)
       ELSE IF ~Substance
       THEN IF KeepsCard THEN Show("answer", DataKind, q.doc, Unanswered)
            ELSE Show("answer", "none", TRUE, {})
       ELSE IF KbIsPrimary /\ q.plan.deliverable = "Document"
       THEN Show("answer", "none", TRUE, {})
       ELSE \E summary \in BOOLEAN : Show("answer", DataKind, summary \/ q.doc, Unanswered)

\* hybrid::run.  Whatever fails on one side, the other side is shown.
Join ==
    /\ BothDone
    /\ Hybrid
    /\ LET known == kb \in {"hit", "nohit"}
       IN  IF ~DataFails THEN Show("answer", DataKind, known, {})
           ELSE IF known THEN Show("answer", "none", TRUE, {})
                ELSE \E failure \in Failures : Show(failure, "none", FALSE, {})

\* A hybrid contract that does not split.
JoinRefused ==
    /\ phase = "asking"
    /\ Hybrid /\ ~Splits
    /\ Show("answer", "need", FALSE, {})

----------------------------------------------------------------------------
GoalStep(g) ==
    \/ Unowned(g) \/ OpenFails(g) \/ Refuse(g) \/ Open(g)
    \/ FixedMember(g) \/ Derive(g) \/ FreeSql(g) \/ NobodyAnswers(g) \/ NobodyLeft(g)
    \/ Reword(g) \/ NoReword(g)

TurnStep ==
    \/ KnowledgeAnswers \/ KnowledgeTimesOut
    \/ DataDone \/ DualFails \/ Dual \/ Join \/ JoinRefused

Next == TurnStep \/ \E g \in Goals : GoalStep(g)

Spec == Init /\ [][Next]_vars

----------------------------------------------------------------------------
\* Properties.

\* The model's SQL, wherever it is written, answers only a question in two parts or one
\* about data whose contract is sure of itself, and never one that asks to destroy data;
\* at the end of the table the contract is sure of itself in any case (ask_prepared,
\* derive_eligible, LlmAnswerer::accept, the red line before the members).
FreeSqlUnderContract ==
    \A g \in q.goals :
        /\ goal[g].sql # "code" =>
              /\ Hybrid \/ (q.plan.route = "Data" /\ Executable(q.contract))
              /\ ~q.destructive
        /\ goal[g].sql = "model" => q.contract.state = "ready"

\* What is_data_executable says: free SQL is never opened under a contract that says
\* itself that it is not sure.
FreeSqlIsSure == \A g \in q.goals : goal[g].sql # "code" => q.contract.state = "ready"

\* Outside a hybrid question, a caller who was denied the data in words that dual_outcome
\* knows does not get a document instead of the refusal.
DeniedIsRaised ==
    out.kind = "answer" /\ ~Hybrid => \E g \in q.goals : goal[g].res # "denied"

\* What dual_outcome says: a refusal is raised, whatever the knowledge base found.
EveryDenialIsRaised ==
    out.kind = "answer" /\ ~Hybrid => \E g \in q.goals : goal[g].res \notin Refusals

\* Outside a hybrid question, a card stands: a request to destroy data is answered with
\* the card that refuses it, or with an error, never with a document; and a question
\* about data that was given a card or no rows is shown just that, with a document
\* beside it at most if it has a word for documents.
CardsStand ==
    out.kind = "answer" /\ ~Hybrid =>
        /\ q.destructive => ~out.kb /\ \A g \in q.goals : goal[g].res = "need"
        /\ q.plan.route = "Data" /\ Cardinality(q.goals) = 1 =>
              \A g \in q.goals : goal[g].res \in {"need", "empty"} =>
                  out.data = goal[g].res /\ (out.kb => q.doc)

\* A question the words of which ask for a document gets it, if the knowledge base
\* has it within the long budget: no table found meanwhile shortens the wait
\* (kb_is_primary).
DocumentQuestionGetsIt ==
    [][KbIsPrimary =>
          /\ kb' = "dropped" => kb \in {"never", "dropped"}
          /\ phase' = "over" /\ out'.kind = "answer" /\ kb = "hit" => out'.kb]_vars

\* The card of the first try is never lost to an error of the second.
CardSurvivesSecondTry ==
    [][\A g \in q.goals :
          goal[g].first # "none" /\ goal'[g].pc = "done" => goal'[g].res \notin Fails]_vars

\* A typed question with one subgoal answered is answered, and the others are named.
OneFailureIsNamed ==
    phase = "over" /\ ~Hybrid /\ Cardinality(q.goals) > 1 /\ Answered # {} =>
        /\ out.kind = "answer"
        /\ out.data = "many" => out.missing = q.goals \ Answered

\* What ask_single says of its last line: with a contract that is ready, the member
\* at the end of the table answers or fails, and nobody gets past it.
LastMemberAnswers == \A g \in q.goals : goal[g].res # "bug"

============================================================================
