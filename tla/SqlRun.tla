------------------------------- MODULE SqlRun -------------------------------
(***************************************************************************)
(* Answering a question with SQL written by the model (run_llm and run_once *)
(* in crates/agent/src/run.rs) while the user sends corrections to the      *)
(* conversation (STEERS, api_conv_steer in crates/server/src/chat.rs).      *)
(*                                                                          *)
(* The runs are those of one conversation: the children of a compound       *)
(* question share its mailbox, and so do two tabs.  A run takes up to       *)
(* Samples samples; a sample generates SQL and takes it through the         *)
(* caliber check, the coverage check, the gate, EXPLAIN and the database,   *)
(* rewriting it when one of them objects.  What the SQL says is left out: a *)
(* text is what the checks have said of it so far, and a check asked twice  *)
(* about one text answers the same.                                         *)
(***************************************************************************)
EXTENDS Integers, Sequences, FiniteSets

CONSTANTS
    Runs,          \* runs of the conversation
    Samples,       \* LlmDeps.sc_samples
    MaxAttempts,   \* MAX_ATTEMPTS
    CaliberRounds, \* CALIBER_ROUNDS
    MaxSteers,     \* MAX_STEERS_PER_CONV
    Values         \* the results with a value in them that can be told apart

ASSUME RunsAssumption == IsFiniteSet(Runs)
ASSUME SamplesAssumption == Samples \in Nat \ {0}
ASSUME SteersAssumption == MaxSteers \in Nat
\* caliber_budget_never_bails_on_last_attempt holds the code to this.
ASSUME BudgetAssumption ==
    MaxAttempts \in Nat /\ CaliberRounds \in Nat /\ 1 < MaxAttempts /\ CaliberRounds < MaxAttempts

VARIABLES
    box,  \* STEERS[conv_id]: runs in progress and corrections not yet taken
    run   \* the runs

vars == <<box, run>>

\* What result_print can be: no rows, one row of NULLs, or a value.
Prints == Values \union {"empty", "null"}

Calibers == {"unknown", "pass", "violates", "unread"}
Covers == {"unknown", "full", "soft", "blocking"}
Gates == {"unknown", "ok"}
Text == [caliber : Calibers, cover : Covers, gate : Gates]
NewText == [caliber |-> "unknown", cover |-> "unknown", gate |-> "unknown"]

\* A sample that came back: its fingerprint, whether it carries a note, whether
\* it is a card, and (history) whether every check was content with its SQL.
Vote == [print : Prints, noted : BOOLEAN, card : BOOLEAN, sound : BOOLEAN]
Out == [kind : {"none", "answer", "card", "error", "gone"}, print : Prints,
        noted : BOOLEAN, sound : BOOLEAN]
NoOut == [kind |-> "none", print |-> "empty", noted |-> FALSE, sound |-> FALSE]

Stages == {"idle", "gather", "generate", "safe", "regen", "caliber", "recaliber", "cover",
           "gate", "explain", "fetch", "repair", "tally", "done"}

\* gap: a caliber card is missing from the material gathered.  learned: what the
\* run stored for later prompts, with (history) whether the checks were content.
Run == [pc : Stages, i : 0..Samples, n : 0..MaxAttempts, steered : BOOLEAN, text : Text,
        noted : BOOLEAN, repaired : BOOLEAN, gap : BOOLEAN, got : Seq(Vote),
        learned : SUBSET [what : {"exemplar", "memory"}, sound : BOOLEAN], out : Out]

IdleRun == [pc |-> "idle", i |-> 0, n |-> 0, steered |-> FALSE, text |-> NewText,
            noted |-> FALSE, repaired |-> FALSE, gap |-> FALSE, got |-> <<>>,
            learned |-> {}, out |-> NoOut]

Active(r) == run[r].pc \notin {"idle", "done"}

TypeOK ==
    /\ box \in [depth : Nat, queue : 0..MaxSteers]
    /\ run \in [Runs -> Run]

Init ==
    /\ box = [depth |-> 0, queue |-> 0]
    /\ run = [r \in Runs |-> IdleRun]

----------------------------------------------------------------------------
\* The mailbox.

\* run_begin: the first one in clears what an earlier turn left.
Begin == [depth |-> box.depth + 1, queue |-> IF box.depth = 0 THEN 0 ELSE box.queue]

\* Mutant: the mailbox goes with the first run that ends.
End_Removes == [depth |-> box.depth - 1, queue |-> 0]

\* run_end: the last one out takes the mailbox along.
End == [depth |-> box.depth - 1, queue |-> IF box.depth = 1 THEN 0 ELSE box.queue]

\* push_steer.  With no run in progress or a full queue nothing changes.
Steer ==
    /\ box.depth > 0
    /\ box.queue < MaxSteers
    /\ box' = [box EXCEPT !.queue = @ + 1]
    /\ UNCHANGED run

Move(r, rec) == /\ run' = [run EXCEPT ![r] = rec]
                /\ UNCHANGED box

\* Mutant: RunGuard does not cover the error returns.
Finish_NotOnError(r, out) ==
    /\ box' = IF out.kind = "error" THEN box ELSE End
    /\ run' = [run EXCEPT ![r] = [IdleRun EXCEPT !.pc = "done", !.got = run[r].got,
                                                 !.gap = run[r].gap,
                                                 !.learned = run[r].learned, !.out = out]]

\* run_llm returns, or its future is dropped: RunGuard::drop.
Finish(r, out) ==
    /\ box' = End
    /\ run' = [run EXCEPT ![r] = [IdleRun EXCEPT !.pc = "done", !.got = run[r].got,
                                                 !.gap = run[r].gap,
                                                 !.learned = run[r].learned, !.out = out]]

Fail(r) == Finish(r, [NoOut EXCEPT !.kind = "error"])

----------------------------------------------------------------------------
\* run_llm up to the first sample.

Enter(r) ==
    /\ run[r].pc = "idle"
    /\ box' = Begin
    /\ run' = [run EXCEPT ![r].pc = "gather"]

\* prepared_data_safety_reply: a question that asks to destroy data is answered
\* with a card, whatever became of the material.
SafetyReply(r) ==
    /\ run[r].pc = "gather"
    /\ Finish(r, [NoOut EXCEPT !.kind = "card"])

GatherFails(r) ==
    /\ run[r].pc = "gather"
    /\ Fail(r)

Gather(r) ==
    /\ run[r].pc = "gather"
    /\ \E gap \in BOOLEAN : Move(r, [run[r] EXCEPT !.pc = "generate", !.gap = gap])

----------------------------------------------------------------------------
\* One sample: run_once.

\* A sample is over: run_llm counts it, or goes on to the next.
SampleOver(r, got) ==
    Move(r, [run[r] EXCEPT !.pc = "tally", !.got = got, !.n = 0, !.steered = FALSE,
                           !.text = NewText, !.noted = FALSE, !.repaired = FALSE])

SampleFails(r) == SampleOver(r, run[r].got)

\* generate_sql_at and fresh_state: new SQL, no note, route "llm".
Generate(r) ==
    /\ run[r].pc = "generate"
    /\ Move(r, [run[r] EXCEPT !.pc = "safe", !.n = 0, !.text = NewText])

GenerateFails(r) ==
    /\ run[r].pc = "generate"
    /\ SampleFails(r)

\* Mutant: every correction is taken up, the second one too.
TakeSteers_Always(r) ==
    /\ run[r].pc = "safe"
    /\ run[r].n < MaxAttempts
    /\ box.queue > 0
    /\ box' = [box EXCEPT !.queue = 0]
    /\ run' = [run EXCEPT ![r] = [@ EXCEPT !.pc = "regen", !.steered = TRUE]]

\* The safe point at the top of the loop: the whole queue, once per sample.  The
\* error after the last attempt is not an action, because the loop never gets there
\* (NeverOutOfAttempts).
TakeSteers(r) ==
    /\ run[r].pc = "safe"
    /\ run[r].n < MaxAttempts
    /\ ~run[r].steered
    /\ box.queue > 0
    /\ box' = [box EXCEPT !.queue = 0]
    /\ run' = [run EXCEPT ![r] = [@ EXCEPT !.pc = "regen", !.steered = TRUE]]

\* steer_regen: SQL for the corrected question, and the budget starts over.
Regenerate(r) ==
    /\ run[r].pc = "regen"
    /\ Move(r, [run[r] EXCEPT !.pc = "safe", !.n = 0, !.text = NewText,
                              !.noted = FALSE, !.repaired = FALSE])

\* It failed: on with the SQL there was.
RegenerateFails(r) ==
    /\ run[r].pc = "regen"
    /\ Move(r, [run[r] EXCEPT !.pc = "caliber"])

NoSteers(r) ==
    /\ run[r].pc = "safe"
    /\ run[r].n < MaxAttempts
    /\ run[r].steered \/ box.queue = 0
    /\ Move(r, [run[r] EXCEPT !.pc = "caliber"])

----------------------------------------------------------------------------
\* One attempt.

\* Mutant: the last attempt may go back for a rewrite.
Retries_OneMore(n) == n <= CaliberRounds

\* judge: whether a violation sends the SQL back.
Retries(n) == n < CaliberRounds

\* caliber_round: the verdict, and the note that goes with it (outcome).
Caliber(r) ==
    /\ run[r].pc = "caliber"
    /\ \E verdict \in Calibers \ {"unknown"} :
        /\ run[r].text.caliber \in {"unknown", verdict}
        /\ LET judged == [run[r] EXCEPT !.text.caliber = verdict]
           IN  Move(r, IF verdict = "pass"
                       THEN [judged EXCEPT !.pc = "cover"]
                       ELSE IF verdict = "violates" /\ Retries(run[r].n)
                            THEN [judged EXCEPT !.pc = "recaliber"]
                            ELSE [judged EXCEPT !.pc = "cover", !.noted = TRUE])

\* The rewrite asked for by the caliber check is adopted if it keeps the output
\* columns; the SQL stays otherwise.  Either way the attempt is spent.
Recaliber(r) ==
    /\ run[r].pc = "recaliber"
    /\ \E adopted \in BOOLEAN :
        Move(r, [run[r] EXCEPT !.pc = "safe", !.n = @ + 1,
                               !.text = IF adopted THEN NewText ELSE @,
                               !.repaired = @ \/ adopted])

\* Mutant: SQL that cannot be shown to cover the question runs without a note.
SoftNote_Dropped(n, cover) == FALSE

\* soft_outcome: the note.
SoftNote(n, cover) == cover = "soft" /\ n > 0

\* Mutant: after the rewrite the SQL runs whether it covers the question or not.
CoverAgain_Lenient(n, cover) == IF n = 0 /\ cover # "full" THEN "repair" ELSE "gate"

\* sql_coverage: where the SQL goes next.
CoverAgain(n, cover) ==
    IF n = 0 /\ cover # "full" THEN "repair"
    ELSE IF cover = "blocking" THEN "tally" ELSE "gate"

Cover(r) ==
    /\ run[r].pc = "cover"
    /\ \E cover \in Covers \ {"unknown"} :
        LET next == CoverAgain(run[r].n, cover)
        IN  IF next = "tally"
            THEN SampleOver(r, Append(run[r].got,
                     [print |-> "empty", noted |-> TRUE, card |-> TRUE, sound |-> FALSE]))
            ELSE Move(r, [run[r] EXCEPT !.pc = next, !.text.cover = cover,
                                        !.noted = @ \/ SoftNote(run[r].n, cover)])

\* gate_on lets the SQL through, rewritten to the caller's rows.
GatePasses(r) ==
    /\ run[r].pc = "gate"
    /\ Move(r, [run[r] EXCEPT !.pc = IF run[r].n = 0 THEN "explain" ELSE "fetch",
                              !.text.gate = "ok"])

\* The read-only line: one rewrite in the first attempt, the end later.
GateRefuses(r) ==
    /\ run[r].pc = "gate"
    /\ IF run[r].n = 0 THEN Move(r, [run[r] EXCEPT !.pc = "repair"]) ELSE SampleFails(r)

\* The caller's rows cannot be worked into the SQL.
NoPermission(r) ==
    /\ run[r].pc = "gate"
    /\ SampleFails(r)

\* EXPLAIN, first attempt only; no answer counts as a pass.
ExplainPasses(r) ==
    /\ run[r].pc = "explain"
    /\ Move(r, [run[r] EXCEPT !.pc = "fetch"])

ExplainRefuses(r) ==
    /\ run[r].pc = "explain"
    /\ Move(r, [run[r] EXCEPT !.pc = "repair"])

\* repair_round: any rewrite is adopted, and all checks start over.
Repair(r) ==
    /\ run[r].pc = "repair"
    /\ Move(r, [run[r] EXCEPT !.pc = "safe", !.n = @ + 1, !.text = NewText, !.repaired = TRUE])

RepairFails(r) ==
    /\ run[r].pc \in {"repair", "recaliber"}
    /\ SampleFails(r)

FetchFails(r) ==
    /\ run[r].pc = "fetch"
    /\ IF run[r].n = 0 THEN Move(r, [run[r] EXCEPT !.pc = "repair"]) ELSE SampleFails(r)

\* Mutant: whatever returns rows is worth learning.
WorthLearning_Always(noted, print) == TRUE

\* worth_learning.
WorthLearning(noted, print) == ~noted /\ print # "null"

\* execute: a note when the SQL goes around the contracted table, the lesson if
\* there is one, and the answer.
Fetch(r) ==
    /\ run[r].pc = "fetch"
    /\ \E print \in Prints, bypass \in BOOLEAN :
        LET rows == print # "empty"
            noted == run[r].noted \/ (rows /\ bypass)
            sound == /\ run[r].text.caliber = "pass"
                     /\ run[r].text.cover = "full"
                     /\ ~(rows /\ bypass)
            kinds == IF rows /\ WorthLearning(noted, print)
                     THEN {"exemplar"} \union (IF run[r].repaired THEN {"memory"} ELSE {})
                     ELSE {}
        IN  Move(r, [run[r] EXCEPT
                 !.pc = "tally", !.n = 0, !.steered = FALSE, !.text = NewText,
                 !.noted = FALSE, !.repaired = FALSE,
                 !.got = Append(@, [print |-> print, noted |-> noted, card |-> FALSE,
                                    sound |-> sound]),
                 !.learned = @ \union {[what |-> k, sound |-> sound] : k \in kinds}])

----------------------------------------------------------------------------
\* The vote.

\* Mutant: half of the samples will do.
MajorityNeed_Half == Samples \div 2

\* majority_need.
MajorityNeed == Samples \div 2 + 1

Same(got, k) == {j \in DOMAIN got : got[j].print = got[k].print}
Agreed(got) == {k \in DOMAIN got : Cardinality(Same(got, k)) >= MajorityNeed}
Least(S) == CHOOSE k \in S : \A j \in S : k <= j

\* clean_pick: of those that agree with w the first without a note, or w.
CleanPick(got, w) ==
    LET clean == {k \in Same(got, w) : ~got[k].noted}
    IN  IF clean = {} THEN w ELSE Least(clean)

\* The answer made of one sample; gap_note goes onto all of them.
AnswerOf(r, vote, doubted) ==
    [kind |-> IF vote.card THEN "card" ELSE "answer", print |-> vote.print,
     noted |-> vote.noted \/ run[r].gap \/ doubted, sound |-> vote.sound]

Last(r) == run[r].i + 1 = Samples

\* A single sample is the answer, and its failure is the failure of the run.
Single(r) ==
    /\ run[r].pc = "tally"
    /\ Samples = 1
    /\ IF run[r].got = <<>> THEN Fail(r) ELSE Finish(r, AnswerOf(r, run[r].got[1], FALSE))

\* After each sample that came back, and after the last one whatever it did.
Majority(r) ==
    /\ run[r].pc = "tally"
    /\ Samples > 1
    /\ Agreed(run[r].got) # {}
    /\ LET got == run[r].got
       IN  Finish(r, AnswerOf(r, got[CleanPick(got, Least(Agreed(got)))], FALSE))

NextSample(r) ==
    /\ run[r].pc = "tally"
    /\ Samples > 1
    /\ Agreed(run[r].got) = {}
    /\ ~Last(r)
    /\ Move(r, [run[r] EXCEPT !.pc = "generate", !.i = @ + 1])

NoMajority(r) ==
    /\ run[r].pc = "tally"
    /\ Samples > 1
    /\ Agreed(run[r].got) = {}
    /\ Last(r)
    /\ IF run[r].got = <<>> THEN Fail(r) ELSE Finish(r, AnswerOf(r, run[r].got[1], TRUE))

\* The client leaves: the future is dropped at an await.
Cancel(r) ==
    /\ Active(r)
    /\ Finish(r, [NoOut EXCEPT !.kind = "gone"])

\* The next question of the conversation.
NextQuestion(r) ==
    /\ run[r].pc = "done"
    /\ Move(r, IdleRun)

----------------------------------------------------------------------------
Progress(r) ==
    \/ SafetyReply(r) \/ GatherFails(r) \/ Gather(r)
    \/ Generate(r) \/ GenerateFails(r)
    \/ TakeSteers(r) \/ Regenerate(r) \/ RegenerateFails(r) \/ NoSteers(r)
    \/ Caliber(r) \/ Recaliber(r) \/ Cover(r)
    \/ GatePasses(r) \/ GateRefuses(r) \/ NoPermission(r)
    \/ ExplainPasses(r) \/ ExplainRefuses(r)
    \/ Repair(r) \/ RepairFails(r) \/ FetchFails(r) \/ Fetch(r)
    \/ Single(r) \/ Majority(r) \/ NextSample(r) \/ NoMajority(r)

Next ==
    \/ Steer
    \/ \E r \in Runs : Enter(r) \/ Progress(r) \/ Cancel(r) \/ NextQuestion(r)

Spec == Init /\ [][Next]_vars

\* Each await of a run returns: model, database and PostgreSQL calls have time limits.
FairSpec == Spec /\ \A r \in Runs : WF_vars(Progress(r))

----------------------------------------------------------------------------
\* Properties.

\* The database sees only SQL whose present text, whatever was rewritten before,
\* went through the caliber check, can be shown not to drop a part of the
\* question, and carries the caller's row scope (attempt, in that order).
OnlyCheckedSqlRuns ==
    \A r \in Runs : run[r].pc = "fetch" =>
        /\ run[r].text.gate = "ok"
        /\ run[r].text.cover \in {"full", "soft"}
        /\ run[r].text.caliber # "unknown"

\* An answer without a note is one every check was content with, from complete
\* material: no path through rewrites, corrections and votes loses a note on the
\* way (soft_outcome, outcome, contract_overlap_note, gap_note, no_majority_note).
UnnotedIsSound ==
    \A r \in Runs :
        LET out == run[r].out
        IN  out.kind = "answer" /\ ~out.noted => out.sound /\ ~run[r].gap

\* Nothing becomes material for later prompts unless every check was content with
\* the SQL (worth_learning): neither as an exemplar nor as a memory.
LearnedIsSound == \A r \in Runs : \A lesson \in run[r].learned : lesson.sound

\* The registration counts the runs in progress, also when they end in an error or
\* are dropped: api_conv_steer refuses a correction exactly when nobody is there
\* to take it (is_running, RunGuard).
DepthIsRunning == box.depth = Cardinality({r \in Runs : Active(r)})

\* The loop never runs out: a rewrite is asked for only when an attempt is left to
\* judge it, so an answer that could be given with a note is not turned into an
\* error (caliber_budget_never_bails_on_last_attempt).
NeverOutOfAttempts ==
    \A r \in Runs : run[r].pc = "safe" => run[r].n < MaxAttempts

\* A correction that was accepted leaves the mailbox in one of two ways: a run
\* takes it, or there is no run left (run_end: an inner run does not clear the
\* mailbox of an outer one).
CorrectionsAreKept ==
    [][box'.queue < box.queue =>
          \/ \A r \in Runs : ~Active(r)'
          \/ \E r \in Runs : run[r].pc = "safe" /\ run'[r].pc = "regen"]_vars

\* However many corrections the user keeps sending, every run ends.
EveryRunEnds == \A r \in Runs : Active(r) ~> ~Active(r)

\* With several samples, an answer without a note is the result of more than half
\* of the samples that were asked for, failed ones included (majority_need).
MajorityAgrees ==
    \A r \in Runs :
        LET out == run[r].out
        IN  out.kind = "answer" /\ ~out.noted =>
                2 * Cardinality({k \in DOMAIN run[r].got : run[r].got[k].print = out.print})
                    > Samples

\* What the source says of learning: an answer that goes out with a note has not
\* been stored as the right way to ask.  The note about missing material and the
\* one about a missing majority are added after the SQL was stored.
LearnedAgreesWithAnswer ==
    \A r \in Runs :
        run[r].out.kind = "answer" /\ run[r].out.noted => run[r].learned = {}

============================================================================
