--------------------------- MODULE SqlRun_proofs ---------------------------
(***************************************************************************)
(* What holds of SqlRun for any number of runs, samples, attempts and      *)
(* corrections.                                                            *)
(*                                                                         *)
(* A step changes the record of one run, so the invariant is a condition   *)
(* on one record (RunOK) and one on the mailbox (BoxOK).                   *)
(***************************************************************************)
EXTENDS SqlRun, FiniteSetTheorems, TLAPS

USE RunsAssumption, SamplesAssumption, SteersAssumption, BudgetAssumption

(***************************************************************************)
(* The inductive invariant                                                 *)
(***************************************************************************)

\* What the checks of this attempt have said by each stage.  What one of them
\* was not content with is in the note.
Checked(q) ==
    /\ q.pc \in {"cover", "gate", "explain", "fetch"} =>
           q.text.caliber # "unknown" /\ (q.text.caliber = "pass" \/ q.noted)
    /\ q.pc \in {"gate", "explain", "fetch"} =>
           q.text.cover \in {"full", "soft"} /\ (q.text.cover = "full" \/ q.noted)
    /\ q.pc \in {"explain", "fetch"} => q.text.gate = "ok"

\* A rewrite is asked for only with an attempt left.
Budgeted(q) ==
    /\ q.pc = "safe" => q.n < MaxAttempts
    /\ q.pc = "recaliber" => q.n < CaliberRounds
    /\ q.pc \in {"repair", "explain"} => q.n = 0
    /\ q.pc = "regen" => q.steered = TRUE

\* The sample at work is one of those asked for.
Counted(q) == q.pc # "done" => q.i < Samples

VotesOK(q) == \A k \in DOMAIN q.got : ~q.got[k].noted => q.got[k].sound

LessonsOK(q) == \A lesson \in q.learned : lesson.sound

\* The samples that came back with a result.
With(got, print) == {k \in DOMAIN got : got[k].print = print}

OutOK(q) ==
    /\ q.pc # "done" => q.out.kind = "none"
    /\ q.out.kind = "answer" /\ ~q.out.noted =>
           /\ q.out.sound /\ ~q.gap
           /\ 2 * Cardinality(With(q.got, q.out.print)) > Samples

RunOK(q) ==
    /\ q \in Run
    /\ Checked(q)
    /\ Budgeted(q)
    /\ Counted(q)
    /\ VotesOK(q)
    /\ LessonsOK(q)
    /\ OutOK(q)

ActiveRuns == {r \in Runs : Active(r)}

BoxOK ==
    /\ box \in [depth : Nat, queue : 0..MaxSteers]
    /\ box.depth = Cardinality(ActiveRuns)
    /\ box.depth = 0 => box.queue = 0

IInv ==
    /\ BoxOK
    /\ DOMAIN run = Runs /\ run = [r \in Runs |-> run[r]]
    /\ \A r \in Runs : RunOK(run[r])

(***************************************************************************)
(* Lemmas                                                                  *)
(***************************************************************************)

LEMMA ActiveFinite == IsFiniteSet(ActiveRuns) /\ Cardinality(ActiveRuns) \in Nat
BY FS_Subset, FS_CardinalityType DEF ActiveRuns

\* The first member of a set of positions is one of them.
LEMMA LeastIsIn ==
    ASSUME NEW S \in SUBSET Nat, S # {}
    PROVE  Least(S) \in S
<1>1. PICK x \in S : \A y \in S : ~ (<<y, x>> \in OpToRel(<, Nat))
  BY NatLessThanWellFounded, WFMin
<1>2. \A y \in S : x <= y
  <2> SUFFICES ASSUME NEW y \in S, ~(x <= y) PROVE FALSE
    OBVIOUS
  <2>1. y < x /\ x \in Nat /\ y \in Nat
    OBVIOUS
  <2>2. <<y, x>> \in OpToRel(<, Nat)
    BY <2>1 DEF OpToRel
  <2> QED
    BY <1>1, <2>2
<1> QED
  BY <1>2 DEF Least

LEMMA NewTextType == NewText \in Text
BY DEF Text, NewText, Calibers, Covers, Gates

LEMMA ZeroAttempts == 0 \in 0..MaxAttempts
OBVIOUS

LEMMA IdleIsOK == RunOK(IdleRun)
<1>1. IdleRun \in Run
  BY DEF IdleRun, Run, Text, NewText, Stages, Calibers, Covers, Gates, NoOut, Out, Prints
<1> QED
  BY <1>1 DEF RunOK, IdleRun, Checked, Budgeted, Counted, VotesOK, LessonsOK, OutOK, NoOut

\* A step that changes one record and leaves the run in progress, or out of it.
LEMMA MoveKeeps ==
    ASSUME IInv, NEW r \in Runs, NEW q, Move(r, q), RunOK(q),
           q.pc \in {"idle", "done"} <=> run[r].pc \in {"idle", "done"}
    PROVE  IInv'
<1>1. \A p \in Runs : run'[p] = IF p = r THEN q ELSE run[p]
  BY DEF Move, IInv
<1>2. DOMAIN run' = Runs /\ run' = [p \in Runs |-> run'[p]]
  BY DEF Move, IInv
<1>3. ActiveRuns' = ActiveRuns
  BY <1>1 DEF ActiveRuns, Active
<1>4. BoxOK'
  BY <1>3 DEF Move, IInv, BoxOK
<1> QED
  BY <1>1, <1>2, <1>4 DEF IInv

\* The end of a run: out of the mailbox's count, with what it answers.
LEMMA FinishKeeps ==
    ASSUME IInv, NEW r \in Runs, Active(r), NEW out \in Out, Finish(r, out),
           out.kind = "answer" /\ ~out.noted =>
               /\ out.sound /\ ~run[r].gap
               /\ 2 * Cardinality(With(run[r].got, out.print)) > Samples
    PROVE  IInv'
<1> DEFINE q == [IdleRun EXCEPT !.pc = "done", !.got = run[r].got, !.gap = run[r].gap,
                                !.learned = run[r].learned, !.out = out]
<1>0. RunOK(run[r])
  BY DEF IInv
<1>1. q \in Run
  BY <1>0, IdleIsOK DEF RunOK, Run, Stages, IdleRun
<1>2. RunOK(q)
  BY <1>0, <1>1 DEF RunOK, IdleRun, Checked, Budgeted, Counted, VotesOK, LessonsOK, OutOK
<1>3. \A p \in Runs : run'[p] = IF p = r THEN q ELSE run[p]
  BY DEF Finish, IInv
<1>4. DOMAIN run' = Runs /\ run' = [p \in Runs |-> run'[p]]
  BY DEF Finish, IInv
<1>5. q.pc = "done"
  BY DEF IdleRun
<1>6. ActiveRuns' = ActiveRuns \ {r}
  BY <1>3, <1>5 DEF ActiveRuns, Active
<1>7. Cardinality(ActiveRuns') = Cardinality(ActiveRuns) - 1
  BY <1>6, ActiveFinite, FS_RemoveElement DEF ActiveRuns
<1>8. Cardinality(ActiveRuns') \in Nat
  BY <1>6, ActiveFinite, FS_RemoveElement, FS_CardinalityType
<1>9. BoxOK'
  BY <1>7, <1>8 DEF Finish, End, IInv, BoxOK
<1> QED
  BY <1>2, <1>3, <1>4, <1>9 DEF IInv

LEMMA FailKeeps ==
    ASSUME IInv, NEW r \in Runs, Active(r), Fail(r)
    PROVE  IInv'
<1>1. [NoOut EXCEPT !.kind = "error"] \in Out /\ [NoOut EXCEPT !.kind = "error"].kind = "error"
  BY DEF NoOut, Out, Prints
<1> QED
  BY <1>1, FinishKeeps DEF Fail

\* The end of a sample.
LEMMA SampleOverKeeps ==
    ASSUME IInv, NEW r \in Runs, Active(r), run[r].pc # "gather",
           NEW got \in Seq(Vote), SampleOver(r, got),
           \A k \in DOMAIN got : ~got[k].noted => got[k].sound
    PROVE  IInv'
<1> DEFINE q == [run[r] EXCEPT !.pc = "tally", !.got = got, !.n = 0, !.steered = FALSE,
                               !.text = NewText, !.noted = FALSE, !.repaired = FALSE]
<1>0. RunOK(run[r])
  BY DEF IInv
<1>t. NewText \in Text
  BY NewTextType
<1>1. q \in Run
  <2>1. run[r] \in Run
    BY <1>0 DEF RunOK
  <2>2. "tally" \in Stages /\ 0 \in 0..MaxAttempts
    BY DEF Stages
  <2> QED
    BY <1>t, <2>1, <2>2 DEF Run
<1>2. RunOK(q)
  BY <1>0, <1>1 DEF RunOK, Run, Checked, Budgeted, Counted, VotesOK, LessonsOK, OutOK, Active
<1>3. q.pc = "tally"
  BY <1>0 DEF RunOK, Run
<1> QED
  BY <1>2, <1>3, MoveKeeps DEF SampleOver, Active

LEMMA SampleFailsKeeps ==
    ASSUME IInv, NEW r \in Runs, Active(r), run[r].pc # "gather", SampleFails(r)
    PROVE  IInv'
<1>1. RunOK(run[r])
  BY DEF IInv
<1> QED
  BY <1>1, SampleOverKeeps DEF SampleFails, RunOK, Run, VotesOK

(***************************************************************************)
(* The steps                                                               *)
(***************************************************************************)

LEMMA EnterKeeps ==
    ASSUME IInv, NEW r \in Runs, Enter(r)
    PROVE  IInv'
<1> DEFINE q == [run[r] EXCEPT !.pc = "gather"]
<1>0. RunOK(run[r]) /\ run[r].pc = "idle"
  BY DEF IInv, Enter
<1>1. q \in Run /\ q.pc = "gather"
  BY <1>0 DEF RunOK, Run, Stages
<1>2. RunOK(q)
  BY <1>0, <1>1 DEF RunOK, Run, Checked, Budgeted, Counted, VotesOK, LessonsOK, OutOK
<1>3. \A p \in Runs : run'[p] = IF p = r THEN q ELSE run[p]
  BY DEF Enter, IInv
<1>4. DOMAIN run' = Runs /\ run' = [p \in Runs |-> run'[p]]
  BY DEF Enter, IInv
<1>5. ActiveRuns' = ActiveRuns \union {r} /\ r \notin ActiveRuns
  BY <1>0, <1>1, <1>3 DEF ActiveRuns, Active
<1>6. Cardinality(ActiveRuns') = Cardinality(ActiveRuns) + 1
  BY <1>5, ActiveFinite, FS_AddElement
<1>7. BoxOK'
  BY <1>6, ActiveFinite DEF Enter, Begin, IInv, BoxOK
<1> QED
  BY <1>2, <1>3, <1>4, <1>7 DEF IInv

LEMMA SteerKeeps == IInv /\ Steer => IInv'
<1> SUFFICES ASSUME IInv, Steer PROVE IInv'
  OBVIOUS
<1>1. ActiveRuns' = ActiveRuns
  BY DEF Steer, ActiveRuns, Active
<1>2. BoxOK'
  BY <1>1 DEF Steer, IInv, BoxOK
<1> QED
  BY <1>2 DEF Steer, IInv

\* run_llm up to the first sample.
LEMMA GatherKeeps ==
    ASSUME IInv, NEW r \in Runs, SafetyReply(r) \/ GatherFails(r) \/ Gather(r)
    PROVE  IInv'
<1>0. RunOK(run[r]) /\ run[r].pc = "gather" /\ Active(r)
  BY DEF IInv, SafetyReply, GatherFails, Gather, Active
<1>1. CASE SafetyReply(r)
  <2>1. [NoOut EXCEPT !.kind = "card"] \in Out /\ [NoOut EXCEPT !.kind = "card"].kind = "card"
    BY DEF NoOut, Out, Prints
  <2> QED
    BY <1>0, <1>1, <2>1, FinishKeeps DEF SafetyReply
<1>2. CASE GatherFails(r)
  BY <1>0, <1>2, FailKeeps DEF GatherFails
<1>3. CASE Gather(r)
  <2>1. PICK gap \in BOOLEAN : Move(r, [run[r] EXCEPT !.pc = "generate", !.gap = gap])
    BY <1>3 DEF Gather
  <2> DEFINE q == [run[r] EXCEPT !.pc = "generate", !.gap = gap]
  <2>2. q \in Run
    BY <1>0 DEF RunOK, Run, Stages
  <2>3. RunOK(q) /\ q.pc = "generate"
    BY <1>0, <2>2 DEF RunOK, Run, Checked, Budgeted, Counted, VotesOK, LessonsOK, OutOK
  <2> QED
    BY <1>0, <2>1, <2>3, MoveKeeps
<1> QED
  BY <1>1, <1>2, <1>3

\* The top of the loop.
LEMMA LoopKeeps ==
    ASSUME IInv, NEW r \in Runs,
           \/ Generate(r) \/ GenerateFails(r) \/ TakeSteers(r) \/ Regenerate(r)
           \/ RegenerateFails(r) \/ NoSteers(r)
    PROVE  IInv'
<1>0. RunOK(run[r]) /\ Active(r) /\ run[r].pc \in {"generate", "safe", "regen"}
  BY DEF IInv, Active, Generate, GenerateFails, TakeSteers, Regenerate, RegenerateFails,
         NoSteers
<1>1. CASE Generate(r)
  <2> DEFINE q == [run[r] EXCEPT !.pc = "safe", !.n = 0, !.text = NewText]
  <2>1. q \in Run
    BY <1>0, NewTextType, ZeroAttempts DEF RunOK, Run, Stages
  <2>2. RunOK(q) /\ q.pc = "safe"
    BY <1>0, <2>1 DEF RunOK, Run, Checked, Budgeted, Counted, VotesOK, LessonsOK, OutOK
  <2> QED
    BY <1>0, <1>1, <2>2, MoveKeeps DEF Generate
<1>2. CASE GenerateFails(r)
  BY <1>0, <1>2, SampleFailsKeeps DEF GenerateFails
<1>3. CASE TakeSteers(r)
  <2> DEFINE q == [run[r] EXCEPT !.pc = "regen", !.steered = TRUE]
  <2>1. q \in Run
    BY <1>0 DEF RunOK, Run, Stages
  <2>2. RunOK(q) /\ q.pc = "regen"
    BY <1>0, <2>1 DEF RunOK, Run, Checked, Budgeted, Counted, VotesOK, LessonsOK, OutOK
  <2>3. \A p \in Runs : run'[p] = IF p = r THEN q ELSE run[p]
    BY <1>3 DEF TakeSteers, IInv
  <2>4. DOMAIN run' = Runs /\ run' = [p \in Runs |-> run'[p]]
    BY <1>3 DEF TakeSteers, IInv
  <2>5. ActiveRuns' = ActiveRuns
    BY <1>0, <2>2, <2>3 DEF ActiveRuns, Active
  <2>6. BoxOK'
    BY <1>3, <2>5 DEF TakeSteers, IInv, BoxOK
  <2> QED
    BY <2>2, <2>3, <2>4, <2>6 DEF IInv
<1>4. CASE Regenerate(r)
  <2> DEFINE q == [run[r] EXCEPT !.pc = "safe", !.n = 0, !.text = NewText,
                                 !.noted = FALSE, !.repaired = FALSE]
  <2>1. q \in Run
    BY <1>0, NewTextType, ZeroAttempts DEF RunOK, Run, Stages
  <2>2. RunOK(q) /\ q.pc = "safe"
    BY <1>0, <2>1 DEF RunOK, Run, Checked, Budgeted, Counted, VotesOK, LessonsOK, OutOK
  <2> QED
    BY <1>0, <1>4, <2>2, MoveKeeps DEF Regenerate
<1>5. CASE RegenerateFails(r) \/ NoSteers(r)
  <2> DEFINE q == [run[r] EXCEPT !.pc = "caliber"]
  <2>1. q \in Run
    BY <1>0 DEF RunOK, Run, Stages
  <2>2. RunOK(q) /\ q.pc = "caliber"
    BY <1>0, <2>1 DEF RunOK, Run, Checked, Budgeted, Counted, VotesOK, LessonsOK, OutOK
  <2> QED
    BY <1>0, <1>5, <2>2, MoveKeeps DEF RegenerateFails, NoSteers
<1> QED
  BY <1>1, <1>2, <1>3, <1>4, <1>5

\* The caliber check and its rewrite.
LEMMA CaliberKeeps ==
    ASSUME IInv, NEW r \in Runs, Caliber(r) \/ Recaliber(r)
    PROVE  IInv'
<1>0. RunOK(run[r]) /\ Active(r) /\ run[r].pc \in {"caliber", "recaliber"}
  BY DEF IInv, Active, Caliber, Recaliber
<1>1. CASE Caliber(r)
  <2>1. PICK verdict \in Calibers \ {"unknown"} :
          LET judged == [run[r] EXCEPT !.text.caliber = verdict]
          IN  Move(r, IF verdict = "pass"
                      THEN [judged EXCEPT !.pc = "cover"]
                      ELSE IF verdict = "violates" /\ Retries(run[r].n)
                           THEN [judged EXCEPT !.pc = "recaliber"]
                           ELSE [judged EXCEPT !.pc = "cover", !.noted = TRUE])
    BY <1>1 DEF Caliber
  <2> DEFINE judged == [run[r] EXCEPT !.text.caliber = verdict]
  <2>2. judged \in Run /\ judged.text.caliber = verdict
    BY <1>0 DEF RunOK, Run, Text
  <2>3. CASE verdict = "pass"
    <3> DEFINE q == [judged EXCEPT !.pc = "cover"]
    <3>1. q \in Run
      BY <2>2 DEF Run, Stages
    <3>2. RunOK(q) /\ q.pc = "cover"
      BY <1>0, <1>1, <2>2, <2>3, <3>1
      DEF RunOK, Run, Checked, Budgeted, Counted, VotesOK, LessonsOK, OutOK, Caliber
    <3> QED
      BY <1>0, <2>1, <2>3, <3>2, MoveKeeps
  <2>4. CASE verdict = "violates" /\ Retries(run[r].n)
    <3> DEFINE q == [judged EXCEPT !.pc = "recaliber"]
    <3>1. q \in Run
      BY <2>2 DEF Run, Stages
    <3>2. RunOK(q) /\ q.pc = "recaliber"
      BY <1>0, <1>1, <2>2, <2>4, <3>1
      DEF RunOK, Run, Checked, Budgeted, Counted, VotesOK, LessonsOK, OutOK, Caliber, Retries
    <3> QED
      BY <1>0, <2>1, <2>4, <3>2, MoveKeeps
  <2>5. CASE verdict # "pass" /\ ~(verdict = "violates" /\ Retries(run[r].n))
    <3> DEFINE q == [judged EXCEPT !.pc = "cover", !.noted = TRUE]
    <3>1. q \in Run
      BY <2>2 DEF Run, Stages
    <3>2. RunOK(q) /\ q.pc = "cover"
      BY <1>0, <1>1, <2>2, <2>5, <3>1
      DEF RunOK, Run, Checked, Budgeted, Counted, VotesOK, LessonsOK, OutOK, Caliber
    <3> QED
      BY <1>0, <2>1, <2>5, <3>2, MoveKeeps
  <2> QED
    BY <2>3, <2>4, <2>5
<1>2. CASE Recaliber(r)
  <2>1. PICK adopted \in BOOLEAN :
          Move(r, [run[r] EXCEPT !.pc = "safe", !.n = @ + 1,
                                 !.text = IF adopted THEN NewText ELSE @,
                                 !.repaired = @ \/ adopted])
    BY <1>2 DEF Recaliber
  <2> DEFINE q == [run[r] EXCEPT !.pc = "safe", !.n = @ + 1,
                                 !.text = IF adopted THEN NewText ELSE @,
                                 !.repaired = @ \/ adopted]
  <2>n. run[r].n \in 0..MaxAttempts /\ run[r].n < CaliberRounds
    BY <1>0, <1>2 DEF RunOK, Run, Budgeted, Recaliber
  <2>2. run[r].n + 1 \in 0..MaxAttempts /\ run[r].n + 1 < MaxAttempts
    BY <2>n
  <2>3. q \in Run /\ q.n = run[r].n + 1 /\ q.pc = "safe"
    BY <1>0, <2>2, NewTextType DEF RunOK, Run, Stages
  <2>4. RunOK(q)
    BY <1>0, <1>2, <2>2, <2>3
    DEF RunOK, Run, Checked, Budgeted, Counted, VotesOK, LessonsOK, OutOK, Recaliber
  <2> QED
    BY <1>0, <2>1, <2>3, <2>4, MoveKeeps
<1> QED
  BY <1>1, <1>2

\* The coverage check.
LEMMA CoverKeeps ==
    ASSUME IInv, NEW r \in Runs, Cover(r)
    PROVE  IInv'
<1>0. RunOK(run[r]) /\ Active(r) /\ run[r].pc = "cover"
  BY DEF IInv, Active, Cover
<1>1. PICK cover \in Covers \ {"unknown"} :
        LET next == CoverAgain(run[r].n, cover)
        IN  IF next = "tally"
            THEN SampleOver(r, Append(run[r].got,
                     [print |-> "empty", noted |-> TRUE, card |-> TRUE, sound |-> FALSE]))
            ELSE Move(r, [run[r] EXCEPT !.pc = next, !.text.cover = cover,
                                        !.noted = @ \/ SoftNote(run[r].n, cover)])
  BY DEF Cover
<1> DEFINE next == CoverAgain(run[r].n, cover)
<1>2. CASE next = "tally"
  <2> DEFINE card == [print |-> "empty", noted |-> TRUE, card |-> TRUE, sound |-> FALSE]
             got == Append(run[r].got, card)
  <2>1. card \in Vote /\ card.noted
    BY DEF Vote, Prints
  <2>2. run[r].got \in Seq(Vote) /\ \A k \in DOMAIN run[r].got : ~run[r].got[k].noted => run[r].got[k].sound
    BY <1>0 DEF RunOK, Run, VotesOK
  <2>3. got \in Seq(Vote) /\ \A k \in DOMAIN got : ~got[k].noted => got[k].sound
    BY <2>1, <2>2
  <2>4. SampleOver(r, got)
    BY <1>1, <1>2
  <2> HIDE DEF got
  <2> QED
    BY <1>0, <2>3, <2>4, SampleOverKeeps
<1>3. CASE next # "tally"
  <2> DEFINE q == [run[r] EXCEPT !.pc = next, !.text.cover = cover,
                                 !.noted = @ \/ SoftNote(run[r].n, cover)]
  <2>1. next \in {"repair", "gate"}
    BY <1>3 DEF CoverAgain
  <2>2. run[r].n \in 0..MaxAttempts
    BY <1>0 DEF RunOK, Run
  <2>3. SoftNote(run[r].n, cover) \in BOOLEAN
    BY DEF SoftNote
  <2>4. q \in Run
    BY <1>0, <2>1, <2>3 DEF RunOK, Run, Text, Stages
  <2>5. /\ q.pc = next /\ q.text = [run[r].text EXCEPT !.cover = cover]
        /\ q.text.cover = cover /\ q.text.caliber = run[r].text.caliber
        /\ q.noted = (run[r].noted \/ SoftNote(run[r].n, cover))
        /\ q.n = run[r].n /\ q.got = run[r].got /\ q.learned = run[r].learned
        /\ q.out = run[r].out /\ q.gap = run[r].gap /\ q.i = run[r].i
    BY <1>0 DEF RunOK, Run, Text
  <2>c. q.text.caliber # "unknown" /\ (q.text.caliber = "pass" \/ q.noted)
    BY <1>0, <2>5 DEF RunOK, Checked
  <2>g. next = "gate" => cover \in {"full", "soft"} /\ (cover = "full" \/ SoftNote(run[r].n, cover))
    BY <1>3, <2>2 DEF CoverAgain, SoftNote, Covers
  <2> HIDE DEF next, q
  <2>6. Checked(q)
    BY <2>1, <2>5, <2>c, <2>g DEF Checked
  <2> USE DEF next, q
  <2>7. Budgeted(q)
    BY <2>1, <2>5 DEF Budgeted, CoverAgain
  <2>8. Counted(q) /\ VotesOK(q) /\ LessonsOK(q) /\ OutOK(q)
    BY <1>0, <2>1, <2>5 DEF RunOK, Counted, VotesOK, LessonsOK, OutOK
  <2> QED
    BY <1>0, <1>1, <1>3, <2>1, <2>4, <2>5, <2>6, <2>7, <2>8, MoveKeeps DEF RunOK
<1> QED
  BY <1>2, <1>3

\* The gate, EXPLAIN and the rewrites they ask for.
LEMMA GateKeeps ==
    ASSUME IInv, NEW r \in Runs,
           \/ GatePasses(r) \/ GateRefuses(r) \/ NoPermission(r)
           \/ ExplainPasses(r) \/ ExplainRefuses(r) \/ FetchFails(r)
    PROVE  IInv'
<1>0. RunOK(run[r]) /\ Active(r) /\ run[r].pc \in {"gate", "explain", "fetch"}
  BY DEF IInv, Active, GatePasses, GateRefuses, NoPermission, ExplainPasses, ExplainRefuses,
         FetchFails
<1>1. ASSUME NEW pc \in {"repair", "fetch"},
             pc = "repair" => run[r].n = 0, pc = "fetch" => run[r].pc = "explain",
             Move(r, [run[r] EXCEPT !.pc = pc])
      PROVE  IInv'
  <2> DEFINE q == [run[r] EXCEPT !.pc = pc]
  <2>1. q \in Run /\ q.pc = pc
    BY <1>0 DEF RunOK, Run, Stages
  <2>2. RunOK(q)
    BY <1>0, <1>1, <2>1 DEF RunOK, Run, Checked, Budgeted, Counted, VotesOK, LessonsOK, OutOK
  <2> QED
    BY <1>0, <1>1, <2>1, <2>2, MoveKeeps
<1>2. CASE GatePasses(r)
  <2> DEFINE pc == IF run[r].n = 0 THEN "explain" ELSE "fetch"
             q == [run[r] EXCEPT !.pc = pc, !.text.gate = "ok"]
  <2>1. pc \in {"explain", "fetch"}
    OBVIOUS
  <2>n. pc = "explain" => run[r].n = 0
    OBVIOUS
  <2> HIDE DEF pc
  <2>2. q \in Run
    BY <1>0, <2>1 DEF RunOK, Run, Text, Stages, Gates
  <2>3. /\ q.pc = pc /\ q.text.gate = "ok" /\ q.text.cover = run[r].text.cover
        /\ q.text.caliber = run[r].text.caliber /\ q.noted = run[r].noted
        /\ q.n = run[r].n /\ q.got = run[r].got /\ q.learned = run[r].learned
        /\ q.out = run[r].out /\ q.gap = run[r].gap /\ q.i = run[r].i
    BY <1>0 DEF RunOK, Run, Text
  <2>4. Checked(q) /\ Budgeted(q)
    BY <1>0, <1>2, <2>1, <2>n, <2>3 DEF RunOK, Checked, Budgeted, GatePasses
  <2>5. Counted(q) /\ VotesOK(q) /\ LessonsOK(q) /\ OutOK(q)
    BY <1>0, <2>1, <2>3 DEF RunOK, Counted, VotesOK, LessonsOK, OutOK, Active
  <2> QED
    BY <1>0, <1>2, <2>1, <2>2, <2>3, <2>4, <2>5, MoveKeeps DEF GatePasses, pc, RunOK
<1>3. CASE GateRefuses(r)
  BY <1>0, <1>1, <1>3, SampleFailsKeeps DEF GateRefuses
<1>4. CASE NoPermission(r)
  BY <1>0, <1>4, SampleFailsKeeps DEF NoPermission
<1>5. CASE ExplainPasses(r)
  BY <1>1, <1>5 DEF ExplainPasses
<1>6. CASE ExplainRefuses(r)
  <2>1. run[r].pc = "explain" /\ Move(r, [run[r] EXCEPT !.pc = "repair"])
    BY <1>6 DEF ExplainRefuses
  <2>2. run[r].n = 0
    BY <1>0, <2>1 DEF RunOK, Budgeted
  <2> QED
    BY <1>1, <2>1, <2>2
<1>7. CASE FetchFails(r)
  BY <1>0, <1>1, <1>7, SampleFailsKeeps DEF FetchFails
<1> QED
  BY <1>2, <1>3, <1>4, <1>5, <1>6, <1>7

LEMMA RepairKeeps ==
    ASSUME IInv, NEW r \in Runs, Repair(r) \/ RepairFails(r)
    PROVE  IInv'
<1>0. RunOK(run[r]) /\ Active(r) /\ run[r].pc \in {"repair", "recaliber"}
  BY DEF IInv, Active, Repair, RepairFails
<1>1. CASE Repair(r)
  <2> DEFINE q == [run[r] EXCEPT !.pc = "safe", !.n = @ + 1, !.text = NewText,
                                 !.repaired = TRUE]
  <2>1. run[r].n = 0
    BY <1>0, <1>1 DEF RunOK, Budgeted, Repair
  <2>2. run[r].n + 1 \in 0..MaxAttempts /\ run[r].n + 1 < MaxAttempts
    BY <2>1
  <2>3. q \in Run /\ q.pc = "safe" /\ q.n = run[r].n + 1
    BY <1>0, <2>2, NewTextType DEF RunOK, Run, Stages
  <2>4. RunOK(q)
    BY <1>0, <1>1, <2>2, <2>3
    DEF RunOK, Run, Checked, Budgeted, Counted, VotesOK, LessonsOK, OutOK, Repair
  <2> QED
    BY <1>0, <1>1, <2>3, <2>4, MoveKeeps DEF Repair
<1>2. CASE RepairFails(r)
  BY <1>0, <1>2, SampleFailsKeeps DEF RepairFails
<1> QED
  BY <1>1, <1>2

\* The database answers: the vote and the lesson of this SQL.
LEMMA FetchKeeps ==
    ASSUME IInv, NEW r \in Runs, Fetch(r)
    PROVE  IInv'
<1> USE DEF Prints
<1>0. RunOK(run[r]) /\ Active(r) /\ run[r].pc = "fetch"
  BY DEF IInv, Active, Fetch
<1>1. PICK print \in Prints, bypass \in BOOLEAN :
        LET rows == print # "empty"
            noted == run[r].noted \/ (rows /\ bypass)
            sound == /\ run[r].text.caliber = "pass"
                     /\ run[r].text.cover = "full"
                     /\ ~(rows /\ bypass)
            kinds == IF rows /\ WorthLearning(noted, print)
                     THEN {"exemplar"} \union (IF run[r].repaired THEN {"memory"} ELSE {})
                     ELSE {}
        IN  Move(r, [run[r] EXCEPT
                 !.pc = "tally", !.n = 0, !.steered = FALSE, !.text = NewText,
                 !.noted = FALSE, !.repaired = FALSE,
                 !.got = Append(@, [print |-> print, noted |-> noted, card |-> FALSE,
                                    sound |-> sound]),
                 !.learned = @ \union {[what |-> k, sound |-> sound] : k \in kinds}])
  BY DEF Fetch
<1> DEFINE rows == print # "empty"
           noted == run[r].noted \/ (rows /\ bypass)
           sound == /\ run[r].text.caliber = "pass"
                    /\ run[r].text.cover = "full"
                    /\ ~(rows /\ bypass)
           kinds == IF rows /\ WorthLearning(noted, print)
                    THEN {"exemplar"} \union (IF run[r].repaired THEN {"memory"} ELSE {})
                    ELSE {}
           vote == [print |-> print, noted |-> noted, card |-> FALSE, sound |-> sound]
           got == Append(run[r].got, vote)
           learned == run[r].learned \union {[what |-> k, sound |-> sound] : k \in kinds}
           q == [run[r] EXCEPT !.pc = "tally", !.n = 0, !.steered = FALSE, !.text = NewText,
                               !.noted = FALSE, !.repaired = FALSE, !.got = got,
                               !.learned = learned]
<1>2. noted \in BOOLEAN /\ sound \in BOOLEAN
  BY <1>0 DEF RunOK, Run
<1>3. ~noted => sound
  BY <1>0 DEF RunOK, Checked
<1>4. kinds # {} => ~noted
  BY DEF WorthLearning
<1>5. kinds \subseteq {"exemplar", "memory"}
  OBVIOUS
<1>6. vote \in Vote /\ (~vote.noted => vote.sound)
  BY <1>2, <1>3 DEF Vote
<1> HIDE DEF rows, noted, sound, kinds, vote
<1>7. run[r].got \in Seq(Vote)
      /\ \A k \in DOMAIN run[r].got : ~run[r].got[k].noted => run[r].got[k].sound
  BY <1>0 DEF RunOK, Run, VotesOK
<1>8. got \in Seq(Vote) /\ \A k \in DOMAIN got : ~got[k].noted => got[k].sound
  BY <1>6, <1>7
<1>9. learned \in SUBSET [what : {"exemplar", "memory"}, sound : BOOLEAN]
  BY <1>0, <1>2, <1>5 DEF RunOK, Run
<1>10. \A lesson \in learned : lesson.sound
  BY <1>0, <1>3, <1>4 DEF RunOK, LessonsOK
<1> HIDE DEF got, learned
<1>11. q \in Run /\ q.pc = "tally" /\ q.got = got /\ q.learned = learned /\ q.out = run[r].out
       /\ q.i = run[r].i
  BY <1>0, <1>8, <1>9, NewTextType, ZeroAttempts DEF RunOK, Run, Stages
<1>12. RunOK(q)
  BY <1>0, <1>8, <1>10, <1>11 DEF RunOK, Checked, Budgeted, Counted, VotesOK, LessonsOK, OutOK
<1>13. Move(r, q)
  BY <1>1 DEF rows, noted, sound, kinds, vote, got, learned
<1> QED
  BY <1>0, <1>11, <1>12, <1>13, MoveKeeps

\* A vote that agrees with itself is counted: its sample is one of those with its result.
LEMMA WithFinite ==
    ASSUME NEW got \in Seq(Vote), NEW print
    PROVE  /\ With(got, print) \subseteq DOMAIN got
           /\ IsFiniteSet(With(got, print)) /\ Cardinality(With(got, print)) \in Nat
<1>1. With(got, print) \subseteq DOMAIN got /\ DOMAIN got = 1..Len(got) /\ Len(got) \in Nat
  BY DEF With
<1>2. IsFiniteSet(1..Len(got))
  BY <1>1, FS_Interval
<1> QED
  BY <1>1, <1>2, FS_Subset, FS_CardinalityType

\* The answer made of vote k.
LEMMA AnswerKeeps ==
    ASSUME IInv, NEW r \in Runs, Active(r), NEW k \in DOMAIN run[r].got, NEW doubted \in BOOLEAN,
           Finish(r, AnswerOf(r, run[r].got[k], doubted)),
           ~doubted => 2 * Cardinality(With(run[r].got, run[r].got[k].print)) > Samples
    PROVE  IInv'
<1> DEFINE vote == run[r].got[k]
           out == AnswerOf(r, vote, doubted)
<1>0. RunOK(run[r])
  BY DEF IInv
<1>1. vote \in Vote /\ (~vote.noted => vote.sound)
  BY <1>0 DEF RunOK, Run, VotesOK
<1>2. run[r].gap \in BOOLEAN
  BY <1>0 DEF RunOK, Run
<1>3. /\ out.kind \in {"card", "answer"} /\ out.print = vote.print
      /\ out.noted = (vote.noted \/ run[r].gap \/ doubted) /\ out.sound = vote.sound
  BY DEF AnswerOf
<1>4. out \in Out
  BY <1>1, <1>2 DEF AnswerOf, Out, Vote
<1>5. ~out.noted => /\ out.sound /\ ~run[r].gap
                    /\ 2 * Cardinality(With(run[r].got, out.print)) > Samples
  BY <1>1, <1>3
<1> HIDE DEF out
<1> QED
  BY <1>4, <1>5, FinishKeeps DEF out

LEMMA VoteKeeps ==
    ASSUME IInv, NEW r \in Runs, Single(r) \/ Majority(r) \/ NextSample(r) \/ NoMajority(r)
    PROVE  IInv'
<1> DEFINE got == run[r].got
<1>0. RunOK(run[r]) /\ Active(r) /\ run[r].pc = "tally"
  BY DEF IInv, Active, Single, Majority, NextSample, NoMajority
<1>1. got \in Seq(Vote) /\ DOMAIN got \subseteq Nat
  BY <1>0 DEF RunOK, Run
<1>2. got # <<>> => 1 \in DOMAIN got
  BY <1>1
<1>3. CASE Single(r)
  <2>1. CASE got = <<>>
    BY <1>0, <1>3, <2>1, FailKeeps DEF Single
  <2>2. CASE got # <<>>
    <3>1. Finish(r, AnswerOf(r, got[1], FALSE)) /\ Samples = 1
      BY <1>3, <2>2 DEF Single
    <3>2. 1 \in With(got, got[1].print)
      BY <1>2, <2>2 DEF With
    <3>3. Cardinality(With(got, got[1].print)) # 0
      BY <1>1, <3>2, WithFinite, FS_EmptySet
    <3>4. Cardinality(With(got, got[1].print)) \in Nat
      BY <1>1, WithFinite
    <3>5. 2 * Cardinality(With(got, got[1].print)) > Samples
      BY <3>1, <3>3, <3>4
    <3> QED
      BY <1>0, <1>2, <2>2, <3>1, <3>5, AnswerKeeps
  <2> QED
    BY <2>1, <2>2
<1>4. CASE Majority(r)
  <2> DEFINE w == Least(Agreed(got))
             k == CleanPick(got, w)
  <2>1. Agreed(got) \subseteq DOMAIN got /\ Agreed(got) # {}
    BY <1>4 DEF Agreed, Majority
  <2>2. w \in Agreed(got) /\ w \in DOMAIN got
    BY <1>1, <2>1, LeastIsIn
  <2> HIDE DEF w
  <2>3. k \in Same(got, w)
    <3> DEFINE clean == {j \in Same(got, w) : ~got[j].noted}
    <3>1. w \in Same(got, w)
      BY <2>2 DEF Same
    <3>2. clean \subseteq Nat
      BY <1>1 DEF Same
    <3>3. clean # {} => Least(clean) \in clean
      BY <3>2, LeastIsIn
    <3> QED
      BY <3>1, <3>3 DEF CleanPick
  <2>4. k \in DOMAIN got /\ got[k].print = got[w].print
    BY <2>3 DEF Same
  <2>5. Same(got, w) = With(got, got[k].print)
    BY <2>4 DEF Same, With
  <2>6. Cardinality(With(got, got[k].print)) >= MajorityNeed
    BY <2>2, <2>5 DEF Agreed
  <2>7. Cardinality(With(got, got[k].print)) \in Nat
    BY <1>1, WithFinite
  <2>8. 2 * Cardinality(With(got, got[k].print)) > Samples
    BY <2>6, <2>7 DEF MajorityNeed
  <2>9. Finish(r, AnswerOf(r, got[k], FALSE))
    BY <1>4 DEF Majority, w
  <2> HIDE DEF k
  <2> QED
    BY <1>0, <2>4, <2>8, <2>9, AnswerKeeps
<1>5. CASE NextSample(r)
  <2> DEFINE q == [run[r] EXCEPT !.pc = "generate", !.i = @ + 1]
  <2>1. run[r].i \in 0..Samples /\ run[r].i + 1 # Samples
    BY <1>0, <1>5 DEF RunOK, Run, NextSample, Last
  <2>2. run[r].i + 1 \in 0..Samples \/ run[r].i = Samples
    BY <2>1
  <2>3. run[r].i # Samples
    BY <1>0, <1>5, <2>1 DEF RunOK, Counted, NextSample
  <2>4. q \in Run /\ q.pc = "generate" /\ q.i = run[r].i + 1
    BY <1>0, <2>2, <2>3 DEF RunOK, Run, Stages
  <2>5. RunOK(q)
    BY <1>0, <2>1, <2>4 DEF RunOK, Run, Checked, Budgeted, Counted, VotesOK, LessonsOK, OutOK
  <2> QED
    BY <1>0, <1>5, <2>4, <2>5, MoveKeeps DEF NextSample
<1>6. CASE NoMajority(r)
  BY <1>0, <1>2, <1>6, FailKeeps, AnswerKeeps DEF NoMajority
<1> QED
  BY <1>3, <1>4, <1>5, <1>6

LEMMA LeaveKeeps ==
    ASSUME IInv, NEW r \in Runs, Cancel(r) \/ NextQuestion(r)
    PROVE  IInv'
<1>1. CASE Cancel(r)
  <2>1. [NoOut EXCEPT !.kind = "gone"] \in Out /\ [NoOut EXCEPT !.kind = "gone"].kind = "gone"
    BY DEF NoOut, Out, Prints
  <2> QED
    BY <1>1, <2>1, FinishKeeps DEF Cancel
<1>2. CASE NextQuestion(r)
  <2>1. IdleRun.pc = "idle"
    BY DEF IdleRun
  <2> QED
    BY <1>2, <2>1, IdleIsOK, MoveKeeps DEF NextQuestion
<1> QED
  BY <1>1, <1>2

LEMMA NextKeeps == IInv /\ [Next]_vars => IInv'
<1> SUFFICES ASSUME IInv, [Next]_vars PROVE IInv'
  OBVIOUS
<1>1. CASE UNCHANGED vars
  <2>1. ActiveRuns' = ActiveRuns
    BY <1>1 DEF vars, ActiveRuns, Active
  <2> QED
    BY <1>1, <2>1 DEF vars, IInv, BoxOK
<1>2. CASE Steer
  BY <1>2, SteerKeeps
<1>3. ASSUME NEW r \in Runs, Enter(r) \/ Progress(r) \/ Cancel(r) \/ NextQuestion(r)
      PROVE  IInv'
  BY <1>3, EnterKeeps, GatherKeeps, LoopKeeps, CaliberKeeps, CoverKeeps, GateKeeps, RepairKeeps,
     FetchKeeps, VoteKeeps, LeaveKeeps DEF Progress
<1> QED
  BY <1>1, <1>2, <1>3 DEF Next

LEMMA InitHolds == Init => IInv
<1> SUFFICES ASSUME Init PROVE IInv
  OBVIOUS
<1>1. \A r \in Runs : run[r] = IdleRun
  BY DEF Init
<1>2. ActiveRuns = {}
  BY <1>1 DEF ActiveRuns, Active, IdleRun
<1>3. BoxOK
  BY <1>2, FS_EmptySet DEF Init, BoxOK
<1> QED
  BY <1>1, <1>3, IdleIsOK DEF Init, IInv

(***************************************************************************)
(* What follows from the invariant                                         *)
(***************************************************************************)

\* The conditions on the records and on the mailbox always hold: what each check of
\* an attempt has said by the stage that relies on it, where each note is, and that
\* every rewrite was asked for with an attempt left.
THEOREM RunInductive == Spec => []IInv
<1>1. Init => IInv
  BY InitHolds
<1>2. IInv /\ [Next]_vars => IInv'
  BY NextKeeps
<1> QED
  BY <1>1, <1>2, PTL DEF Spec

\* The mailbox and every run keep their types.
THEOREM RunTypes == Spec => []TypeOK
<1>1. IInv => TypeOK
  BY DEF IInv, BoxOK, RunOK, TypeOK
<1> QED
  BY <1>1, RunInductive, PTL

\* Whatever was rewritten before, SQL reaches the database with its present text checked
\* for calibers and coverage and carrying the caller's rows (Round::attempt).
THEOREM OnlyCheckedReaches == Spec => []OnlyCheckedSqlRuns
<1>1. IInv => OnlyCheckedSqlRuns
  BY DEF IInv, RunOK, Checked, OnlyCheckedSqlRuns
<1> QED
  BY <1>1, RunInductive, PTL

\* No note is lost between a check and the answer, for any number of samples.
THEOREM NoNoteIsLost == Spec => []UnnotedIsSound
<1>1. IInv => UnnotedIsSound
  BY DEF IInv, RunOK, OutOK, UnnotedIsSound
<1> QED
  BY <1>1, RunInductive, PTL

\* Nothing doubtful is learned by any sample.
THEOREM OnlySoundIsLearned == Spec => []LearnedIsSound
<1>1. IInv => LearnedIsSound
  BY DEF IInv, RunOK, LessonsOK, LearnedIsSound
<1> QED
  BY <1>1, RunInductive, PTL

\* The registration of the runs in progress is exact (run_begin, RunGuard::drop).
THEOREM RegistrationIsExact == Spec => []DepthIsRunning
<1>1. IInv => DepthIsRunning
  BY DEF IInv, BoxOK, ActiveRuns, DepthIsRunning
<1> QED
  BY <1>1, RunInductive, PTL

\* The error after the last attempt is never reached, for all budgets that the test
\* caliber_budget_never_bails_on_last_attempt admits.
THEOREM BudgetSuffices == Spec => []NeverOutOfAttempts
<1>1. IInv => NeverOutOfAttempts
  BY DEF IInv, RunOK, Budgeted, NeverOutOfAttempts
<1> QED
  BY <1>1, RunInductive, PTL

\* An answer without a note has more than half of the samples asked for behind it.
THEOREM MajorityIsReal == Spec => []MajorityAgrees
<1>1. IInv => MajorityAgrees
  BY DEF IInv, RunOK, OutOK, With, MajorityAgrees
<1> QED
  BY <1>1, RunInductive, PTL

\* A step that takes corrections out of the mailbox gives them to a run, or is the
\* end of the last one.
LEMMA KeepsCorrections ==
    ASSUME IInv, IInv', Next, box'.queue < box.queue
    PROVE  \/ \A r \in Runs : ~Active(r)'
           \/ \E r \in Runs : run[r].pc = "safe" /\ run'[r].pc = "regen"
<1>0. box.queue \in Nat /\ box'.queue \in Nat /\ box.depth \in Nat
  BY DEF IInv, BoxOK
<1>1. ASSUME NEW r \in Runs, NEW out, Finish(r, out)
      PROVE  \A p \in Runs : ~Active(p)'
  <2>1. box'.depth = 0
    BY <1>0, <1>1 DEF Finish, End, IInv, BoxOK
  <2>2. ActiveRuns' = {}
    <3>1. IsFiniteSet(ActiveRuns')
      BY FS_Subset DEF ActiveRuns
    <3> QED
      BY <2>1, <3>1, FS_EmptySet DEF IInv, BoxOK
  <2> QED
    BY <2>2 DEF ActiveRuns
<1>2. ~Steer
  BY <1>0 DEF Steer, IInv, BoxOK
<1>3. ASSUME NEW r \in Runs, TakeSteers(r)
      PROVE  run[r].pc = "safe" /\ run'[r].pc = "regen"
  <2>1. RunOK(run[r])
    BY DEF IInv
  <2> QED
    BY <1>3, <2>1 DEF TakeSteers, IInv, RunOK, Run
<1>4. ASSUME NEW r \in Runs, Enter(r) PROVE FALSE
  BY <1>0, <1>4 DEF Enter, Begin, IInv, BoxOK
<1>5. ASSUME NEW r \in Runs, NEW q, Move(r, q) PROVE FALSE
  BY <1>0, <1>5 DEF Move
<1>6. ASSUME NEW r \in Runs, NEW got, SampleOver(r, got) PROVE FALSE
  BY <1>5, <1>6 DEF SampleOver
<1>7. PICK r \in Runs : Enter(r) \/ Progress(r) \/ Cancel(r) \/ NextQuestion(r)
  BY <1>2 DEF Next
<1>8. CASE \/ SafetyReply(r) \/ GatherFails(r) \/ Gather(r) \/ Generate(r) \/ GenerateFails(r)
           \/ TakeSteers(r) \/ Regenerate(r) \/ RegenerateFails(r) \/ NoSteers(r)
  BY <1>1, <1>3, <1>5, <1>6, <1>8
  DEF SafetyReply, GatherFails, Fail, Gather, Generate, GenerateFails, SampleFails, Regenerate,
      RegenerateFails, NoSteers
<1>9. CASE Caliber(r) \/ Recaliber(r) \/ Cover(r)
  BY <1>5, <1>6, <1>9 DEF Caliber, Recaliber, Cover
<1>10. CASE \/ GatePasses(r) \/ GateRefuses(r) \/ NoPermission(r) \/ ExplainPasses(r)
            \/ ExplainRefuses(r) \/ Repair(r) \/ RepairFails(r) \/ FetchFails(r)
  BY <1>5, <1>6, <1>10 DEF GatePasses, GateRefuses, NoPermission, ExplainPasses, ExplainRefuses,
      Repair, RepairFails, FetchFails, SampleFails
<1>11. CASE Fetch(r)
  BY <1>5, <1>11 DEF Fetch
<1>12. CASE Single(r) \/ Majority(r) \/ NextSample(r) \/ NoMajority(r)
  BY <1>1, <1>5, <1>12 DEF Single, Majority, NextSample, NoMajority, Fail
<1>13. CASE Cancel(r) \/ NextQuestion(r)
  BY <1>1, <1>5, <1>13 DEF Cancel, NextQuestion
<1> QED
  BY <1>4, <1>7, <1>8, <1>9, <1>10, <1>11, <1>12, <1>13 DEF Progress

\* An accepted correction is never thrown away under a run that could take it (run_end).
THEOREM CorrectionsReachARun == Spec => CorrectionsAreKept
<1>1. IInv /\ IInv' /\ [Next]_vars =>
        [box'.queue < box.queue =>
            \/ \A r \in Runs : ~Active(r)'
            \/ \E r \in Runs : run[r].pc = "safe" /\ run'[r].pc = "regen"]_vars
  BY KeepsCorrections
<1> QED
  BY <1>1, RunInductive, PTL DEF Spec, CorrectionsAreKept

(***************************************************************************)
(* A run gets shorter with every step                                      *)
(***************************************************************************)
\* What is left of a sample, in steps: an attempt has at most Round of them, and a
\* correction that is still possible brings all attempts once more.
Round == 12
Rank(pc) ==
    CASE pc = "safe" -> 10 [] pc = "caliber" -> 9 [] pc = "recaliber" -> 8 [] pc = "cover" -> 7
      [] pc = "gate" -> 6 [] pc = "explain" -> 5 [] pc = "fetch" -> 4 [] pc = "repair" -> 3
InAttempt == {"safe", "caliber", "recaliber", "cover", "gate", "explain", "fetch", "repair"}
Left(q) ==
    CASE q.pc = "gather" -> (2 * MaxAttempts + 2) * Round + 1
      [] q.pc = "generate" -> (2 * MaxAttempts + 2) * Round
      [] q.pc = "regen" -> MaxAttempts * Round + 11
      [] q.pc \in InAttempt ->
           (MaxAttempts - q.n + (IF q.steered THEN 0 ELSE MaxAttempts + 1)) * Round + Rank(q.pc)
      [] OTHER -> 0

\* The run is over, or goes on to one of the samples left, or has less left of this one.
Shorter(q, next) ==
    \/ next.pc \in {"idle", "done"}
    \/ next.i > q.i /\ next.i < Samples
    \/ next.i = q.i /\ Left(next) \in Nat /\ Left(next) < Left(q)

\* No step of a run that is not over leads it back: it ends, or goes on, or has less left
\* (the attempt loop of run.rs under MAX_ATTEMPTS, steer_regen and the samples around it).
EveryStepShortens ==
    [][\A r \in Runs : Active(r) /\ run'[r] # run[r] => Shorter(run[r], run'[r])]_vars

LEMMA RankRange == \A pc \in InAttempt : Rank(pc) \in 3..10
BY DEF InAttempt, Rank

LEMMA LeftOfAttempt ==
    ASSUME NEW q, q.pc \in InAttempt, q.n \in 0..MaxAttempts, q.steered \in BOOLEAN
    PROVE  /\ Left(q) = (MaxAttempts - q.n + (IF q.steered THEN 0 ELSE MaxAttempts + 1)) * 12 + Rank(q.pc)
           /\ Left(q) \in Nat /\ Left(q) >= 3
<1>1. Rank(q.pc) \in 3..10
  BY RankRange
<1>2. Left(q) = (MaxAttempts - q.n + (IF q.steered THEN 0 ELSE MaxAttempts + 1)) * 12 + Rank(q.pc)
  BY DEF Left, InAttempt, Round
<1>3. CASE q.steered
  BY <1>1, <1>2, <1>3
<1>4. CASE ~q.steered
  BY <1>1, <1>2, <1>4
<1> QED
  BY <1>2, <1>3, <1>4

\* On to a later stage of the attempt.
LEMMA OnwardShortens ==
    ASSUME NEW q, NEW next, q.pc \in InAttempt, next.pc \in InAttempt, Rank(next.pc) < Rank(q.pc),
           q.n \in 0..MaxAttempts, q.steered \in BOOLEAN,
           next.n = q.n, next.steered = q.steered, next.i = q.i
    PROVE  Shorter(q, next)
<1>1. Rank(q.pc) \in 3..10 /\ Rank(next.pc) \in 3..10
  BY RankRange
<1>2. PICK more \in {0, MaxAttempts + 1} :
        /\ Left(q) = (MaxAttempts - q.n + more) * 12 + Rank(q.pc)
        /\ Left(next) = (MaxAttempts - q.n + more) * 12 + Rank(next.pc)
  BY LeftOfAttempt
<1>3. Left(next) \in Nat
  BY LeftOfAttempt
<1> QED
  BY <1>1, <1>2, <1>3 DEF Shorter

\* Back to the top with one attempt less.
LEMMA RetryShortens ==
    ASSUME NEW q, NEW next, q.pc \in InAttempt, next.pc = "safe",
           q.n \in 0..MaxAttempts, q.steered \in BOOLEAN,
           next.n = q.n + 1, q.n < MaxAttempts, next.steered = q.steered, next.i = q.i
    PROVE  Shorter(q, next)
<1>1. Rank(q.pc) \in 3..10 /\ next.pc \in InAttempt /\ Rank(next.pc) = 10
  BY RankRange DEF InAttempt, Rank
<1>2. PICK more \in {0, MaxAttempts + 1} :
        /\ Left(q) = (MaxAttempts - q.n + more) * 12 + Rank(q.pc)
        /\ Left(next) = (MaxAttempts - next.n + more) * 12 + Rank(next.pc)
  BY <1>1, LeftOfAttempt
<1>3. Left(next) \in Nat
  BY <1>1, LeftOfAttempt
<1> QED
  BY <1>1, <1>2, <1>3 DEF Shorter

\* The sample is over.
LEMMA TallyShortens ==
    ASSUME NEW q, NEW next, q.pc \in InAttempt \union {"generate"}, next.pc = "tally", next.i = q.i,
           q.n \in 0..MaxAttempts, q.steered \in BOOLEAN
    PROVE  Shorter(q, next)
<1>1. Left(next) = 0
  BY DEF Left, InAttempt
<1>2. Left(q) \in Nat /\ Left(q) > 0
  <2>1. CASE q.pc \in InAttempt
    BY <2>1, LeftOfAttempt
  <2>2. CASE q.pc = "generate"
    BY <2>2 DEF Left, Round, InAttempt
  <2> QED
    BY <2>1, <2>2
<1> QED
  BY <1>1, <1>2 DEF Shorter

LEMMA MoveGoes ==
    ASSUME IInv, NEW r \in Runs, NEW q, Move(r, q)
    PROVE  run'[r] = q
BY DEF Move, IInv

LEMMA FinishEnds ==
    ASSUME IInv, NEW r \in Runs, NEW out, Finish(r, out)
    PROVE  run'[r].pc = "done"
BY DEF Finish, IInv, IdleRun

\* What the steps may use of the record.
LEMMA RecordOf ==
    ASSUME IInv, NEW r \in Runs
    PROVE  /\ run[r] \in Run /\ Budgeted(run[r])
           /\ run[r].n \in 0..MaxAttempts /\ run[r].steered \in BOOLEAN /\ run[r].i \in Nat
           /\ run[r].pc # "done" => run[r].i < Samples
BY DEF IInv, RunOK, Run, Counted

LEMMA SampleOverShortens ==
    ASSUME IInv, NEW r \in Runs, NEW got, SampleOver(r, got), run[r].pc \in InAttempt \union {"generate"}
    PROVE  Shorter(run[r], run'[r])
<1>1. run'[r].pc = "tally" /\ run'[r].i = run[r].i
  <2>1. run'[r] = [run[r] EXCEPT !.pc = "tally", !.got = got, !.n = 0, !.steered = FALSE,
                                 !.text = NewText, !.noted = FALSE, !.repaired = FALSE]
    BY MoveGoes DEF SampleOver
  <2> QED
    BY <2>1, RecordOf DEF Run
<1> QED
  BY <1>1, RecordOf, TallyShortens

\* Up to the first stage of an attempt.  A correction is taken once: it brings all
\* attempts back, and Left has counted them from the start.
LEMMA StartShortens ==
    ASSUME IInv, NEW r \in Runs, Gather(r) \/ Generate(r) \/ NextSample(r)
    PROVE  Shorter(run[r], run'[r])
<1>1. CASE Gather(r)
  <2>1. PICK gap \in BOOLEAN : run'[r] = [run[r] EXCEPT !.pc = "generate", !.gap = gap]
    BY <1>1, MoveGoes DEF Gather
  <2>2. run'[r].pc = "generate" /\ run'[r].i = run[r].i /\ run[r].pc = "gather"
    BY <1>1, <2>1, RecordOf DEF Gather, Run
  <2> QED
    BY <2>2 DEF Shorter, Left, Round, InAttempt
<1>2. CASE Generate(r)
  <2>1. run'[r] = [run[r] EXCEPT !.pc = "safe", !.n = 0, !.text = NewText]
    BY <1>2, MoveGoes DEF Generate
  <2>2. /\ run'[r].pc = "safe" /\ run'[r].i = run[r].i /\ run'[r].n = 0
        /\ run'[r].steered \in BOOLEAN /\ run[r].pc = "generate"
    BY <1>2, <2>1, RecordOf DEF Generate, Run
  <2>3. run'[r].pc \in InAttempt /\ Rank(run'[r].pc) = 10
    BY <2>2 DEF InAttempt, Rank
  <2>4. Left(run[r]) = (2 * MaxAttempts + 2) * 12
    BY <2>2 DEF Left, Round, InAttempt
  <2>5. PICK more \in {0, MaxAttempts + 1} : Left(run'[r]) = (MaxAttempts + more) * 12 + 10
    BY <2>2, <2>3, LeftOfAttempt
  <2> QED
    BY <2>2, <2>4, <2>5 DEF Shorter
<1>3. CASE NextSample(r)
  <2>1. run'[r] = [run[r] EXCEPT !.pc = "generate", !.i = @ + 1]
    BY <1>3, MoveGoes DEF NextSample
  <2>2. run'[r].i = run[r].i + 1
    BY <2>1, RecordOf DEF Run
  <2> QED
    BY <1>3, <2>2, RecordOf DEF Shorter, NextSample, Last
<1> QED
  BY <1>1, <1>2, <1>3

LEMMA SteersShorten ==
    ASSUME IInv, NEW r \in Runs, TakeSteers(r) \/ Regenerate(r) \/ RegenerateFails(r) \/ NoSteers(r)
    PROVE  Shorter(run[r], run'[r])
<1>0. /\ run[r].n \in 0..MaxAttempts /\ run[r].steered \in BOOLEAN /\ run[r].i \in Nat /\ run[r] \in Run
      /\ DOMAIN run = Runs
  BY RecordOf DEF IInv
<1>1. CASE TakeSteers(r)
  <2>1. run'[r] = [run[r] EXCEPT !.pc = "regen", !.steered = TRUE]
    BY <1>0, <1>1 DEF TakeSteers, IInv
  <2>2. run'[r].pc = "regen" /\ run'[r].i = run[r].i /\ run[r].pc = "safe" /\ run[r].steered = FALSE
    BY <1>0, <1>1, <2>1 DEF TakeSteers, Run
  <2>3. Left(run'[r]) = MaxAttempts * 12 + 11
    BY <2>2 DEF Left, Round, InAttempt
  <2>4. Left(run[r]) = (MaxAttempts - run[r].n + MaxAttempts + 1) * 12 + 10
    BY <1>0, <2>2, LeftOfAttempt DEF InAttempt, Rank
  <2>5. run[r].n < MaxAttempts
    BY <1>1 DEF TakeSteers
  <2> QED
    BY <1>0, <2>2, <2>3, <2>4, <2>5 DEF Shorter
<1>2. CASE Regenerate(r) \/ RegenerateFails(r)
  <2>1. /\ run'[r].pc \in {"safe", "caliber"} /\ run'[r].i = run[r].i
        /\ run'[r].n \in 0..MaxAttempts /\ run'[r].steered = run[r].steered
        /\ run[r].pc = "regen"
    <3>1. CASE Regenerate(r)
      <4>1. run'[r] = [run[r] EXCEPT !.pc = "safe", !.n = 0, !.text = NewText,
                                     !.noted = FALSE, !.repaired = FALSE]
        BY <3>1, MoveGoes DEF Regenerate
      <4> QED
        BY <1>0, <3>1, <4>1 DEF Regenerate, Run
    <3>2. CASE RegenerateFails(r)
      <4>1. run'[r] = [run[r] EXCEPT !.pc = "caliber"]
        BY <3>2, MoveGoes DEF RegenerateFails
      <4> QED
        BY <1>0, <3>2, <4>1 DEF RegenerateFails, Run
    <3> QED
      BY <1>2, <3>1, <3>2
  <2>2. run[r].steered = TRUE
    BY <2>1 DEF IInv, RunOK, Budgeted
  <2>3. Left(run[r]) = MaxAttempts * 12 + 11
    BY <2>1 DEF Left, Round, InAttempt
  <2>4. Left(run'[r]) = (MaxAttempts - run'[r].n) * 12 + Rank(run'[r].pc)
    <3>1. run'[r].steered = TRUE /\ run'[r].steered \in BOOLEAN /\ run'[r].pc \in InAttempt
      BY <2>1, <2>2 DEF InAttempt
    <3>2. Left(run'[r]) = (MaxAttempts - run'[r].n + (IF run'[r].steered THEN 0 ELSE MaxAttempts + 1)) * 12
                            + Rank(run'[r].pc)
      BY <2>1, <3>1, LeftOfAttempt
    <3>3. (MaxAttempts - run'[r].n + 0) * 12 = (MaxAttempts - run'[r].n) * 12
      BY <2>1
    <3> QED
      BY <3>1, <3>2, <3>3
  <2>5. Rank(run'[r].pc) \in 3..10
    BY <2>1, RankRange DEF InAttempt
  <2> QED
    BY <2>1, <2>3, <2>4, <2>5 DEF Shorter
<1>3. CASE NoSteers(r)
  <2>1. run'[r] = [run[r] EXCEPT !.pc = "caliber"]
    BY <1>3, MoveGoes DEF NoSteers
  <2>2. /\ run'[r].pc = "caliber" /\ run'[r].i = run[r].i /\ run[r].pc = "safe"
        /\ run'[r].n = run[r].n /\ run'[r].steered = run[r].steered
    BY <1>0, <1>3, <2>1 DEF NoSteers, Run
  <2>3. run[r].pc \in InAttempt /\ run'[r].pc \in InAttempt /\ Rank(run'[r].pc) < Rank(run[r].pc)
    BY <2>2 DEF InAttempt, Rank
  <2> QED
    BY <1>0, <2>2, <2>3, OnwardShortens
<1> QED
  BY <1>1, <1>2, <1>3

\* The checks: on to the next, or back for a rewrite that has an attempt left.
LEMMA ChecksShorten ==
    ASSUME IInv, NEW r \in Runs, Caliber(r) \/ Recaliber(r) \/ GatePasses(r) \/ ExplainPasses(r)
                                 \/ ExplainRefuses(r) \/ Repair(r)
    PROVE  Shorter(run[r], run'[r])
<1>0. /\ run[r].n \in 0..MaxAttempts /\ run[r].steered \in BOOLEAN /\ run[r].i \in Nat /\ run[r] \in Run
      /\ Budgeted(run[r])
  BY RecordOf
<1>1. PICK q : Move(r, q) /\ run'[r] = q
  <2>1. \E q : Move(r, q)
    BY DEF Caliber, Recaliber, GatePasses, ExplainPasses, ExplainRefuses, Repair
  <2> QED
    BY <2>1, MoveGoes
<1>2. CASE Recaliber(r) \/ Repair(r)
  <2>1. /\ run[r].pc \in {"recaliber", "repair"} /\ run'[r].pc = "safe" /\ run'[r].i = run[r].i
        /\ run'[r].n = run[r].n + 1 /\ run'[r].steered = run[r].steered
    <3>1. CASE Recaliber(r)
      <4>1. PICK adopted \in BOOLEAN :
              run'[r] = [run[r] EXCEPT !.pc = "safe", !.n = @ + 1,
                                       !.text = IF adopted THEN NewText ELSE @,
                                       !.repaired = @ \/ adopted]
        BY <3>1, MoveGoes DEF Recaliber
      <4> QED
        BY <1>0, <3>1, <4>1 DEF Recaliber, Run
    <3>2. CASE Repair(r)
      <4>1. run'[r] = [run[r] EXCEPT !.pc = "safe", !.n = @ + 1, !.text = NewText, !.repaired = TRUE]
        BY <3>2, MoveGoes DEF Repair
      <4> QED
        BY <1>0, <3>2, <4>1 DEF Repair, Run
    <3> QED
      BY <1>2, <3>1, <3>2
  <2>2. run[r].n < MaxAttempts /\ run[r].pc \in InAttempt
    BY <1>0, <2>1 DEF Budgeted, InAttempt
  <2> QED
    BY <1>0, <2>1, <2>2, RetryShortens
<1>3. CASE Caliber(r) \/ GatePasses(r) \/ ExplainPasses(r) \/ ExplainRefuses(r)
  <2>1. /\ \/ run[r].pc = "caliber" /\ run'[r].pc \in {"cover", "recaliber"}
           \/ run[r].pc = "gate" /\ run'[r].pc \in {"explain", "fetch"}
           \/ run[r].pc = "explain" /\ run'[r].pc \in {"fetch", "repair"}
        /\ run'[r].i = run[r].i /\ run'[r].n = run[r].n /\ run'[r].steered = run[r].steered
    <3>1. CASE Caliber(r)
      <4>1. PICK verdict \in Calibers \ {"unknown"} :
              LET judged == [run[r] EXCEPT !.text.caliber = verdict]
              IN  run'[r] = IF verdict = "pass"
                            THEN [judged EXCEPT !.pc = "cover"]
                            ELSE IF verdict = "violates" /\ Retries(run[r].n)
                                 THEN [judged EXCEPT !.pc = "recaliber"]
                                 ELSE [judged EXCEPT !.pc = "cover", !.noted = TRUE]
        BY <3>1, MoveGoes DEF Caliber
      <4> QED
        BY <1>0, <3>1, <4>1 DEF Caliber, Run
    <3>2. CASE GatePasses(r)
      <4>1. run'[r] = [run[r] EXCEPT !.pc = IF run[r].n = 0 THEN "explain" ELSE "fetch", !.text.gate = "ok"]
        BY <3>2, MoveGoes DEF GatePasses
      <4> QED
        BY <1>0, <3>2, <4>1 DEF GatePasses, Run
    <3>3. CASE ExplainPasses(r) \/ ExplainRefuses(r)
      <4>1. PICK pc \in {"fetch", "repair"} : run'[r] = [run[r] EXCEPT !.pc = pc]
        BY <3>3, MoveGoes DEF ExplainPasses, ExplainRefuses
      <4> QED
        BY <1>0, <3>3, <4>1 DEF ExplainPasses, ExplainRefuses, Run
    <3> QED
      BY <1>3, <3>1, <3>2, <3>3
  <2>2. run[r].pc \in InAttempt /\ run'[r].pc \in InAttempt /\ Rank(run'[r].pc) < Rank(run[r].pc)
    BY <2>1 DEF InAttempt, Rank
  <2> QED
    BY <1>0, <2>1, <2>2, OnwardShortens
<1> QED
  BY <1>2, <1>3

\* What may send the SQL back once, and is the end of the sample later.
LEMMA RefusalsShorten ==
    ASSUME IInv, NEW r \in Runs,
           Cover(r) \/ GateRefuses(r) \/ NoPermission(r) \/ RepairFails(r) \/ FetchFails(r) \/ GenerateFails(r)
    PROVE  Shorter(run[r], run'[r])
<1>0. /\ run[r].n \in 0..MaxAttempts /\ run[r].steered \in BOOLEAN /\ run[r].i \in Nat /\ run[r] \in Run
  BY RecordOf
<1>1. run[r].pc \in InAttempt \union {"generate"}
  BY DEF Cover, GateRefuses, NoPermission, RepairFails, FetchFails, GenerateFails, InAttempt
<1>2. CASE \E got : SampleOver(r, got)
  BY <1>1, <1>2, SampleOverShortens
<1>3. ASSUME run'[r].i = run[r].i, run'[r].n = run[r].n, run'[r].steered = run[r].steered,
             \/ run[r].pc = "cover" /\ run'[r].pc \in {"repair", "gate"}
             \/ run[r].pc \in {"gate", "fetch"} /\ run'[r].pc = "repair"
      PROVE  Shorter(run[r], run'[r])
  <2>1. run[r].pc \in InAttempt /\ run'[r].pc \in InAttempt /\ Rank(run'[r].pc) < Rank(run[r].pc)
    BY <1>3 DEF InAttempt, Rank
  <2> QED
    BY <1>0, <1>3, <2>1, OnwardShortens
<1>4. CASE Cover(r)
  <2>1. PICK cover \in Covers \ {"unknown"} :
          \/ \E got : SampleOver(r, got)
          \/ /\ CoverAgain(run[r].n, cover) # "tally"
             /\ Move(r, [run[r] EXCEPT !.pc = CoverAgain(run[r].n, cover), !.text.cover = cover,
                                       !.noted = @ \/ SoftNote(run[r].n, cover)])
    BY <1>4 DEF Cover
  <2>2. CoverAgain(run[r].n, cover) # "tally" => CoverAgain(run[r].n, cover) \in {"repair", "gate"}
    BY DEF CoverAgain
  <2>3. run[r].pc = "cover"
    BY <1>4 DEF Cover
  <2>4. CASE CoverAgain(run[r].n, cover) # "tally" /\ ~\E got : SampleOver(r, got)
    <3> DEFINE noted == run[r].noted \/ SoftNote(run[r].n, cover)
               next == CoverAgain(run[r].n, cover)
    <3>1. Move(r, [run[r] EXCEPT !.pc = next, !.text.cover = cover, !.noted = noted])
      BY <2>1, <2>4
    <3> HIDE DEF noted, next
    <3>2. next \in {"repair", "gate"}
      BY <2>2, <2>4 DEF next
    <3>3. run'[r] = [run[r] EXCEPT !.pc = next, !.text.cover = cover, !.noted = noted]
      BY <3>1, MoveGoes
    <3>4. /\ run'[r].pc = next /\ run'[r].i = run[r].i /\ run'[r].n = run[r].n
          /\ run'[r].steered = run[r].steered
      BY <1>0, <3>3 DEF Run
    <3> QED
      BY <1>3, <2>3, <3>2, <3>4
  <2> QED
    BY <1>2, <2>1, <2>4
<1>5. CASE ~Cover(r)
  <2>1. SampleFails(r) => \E got : SampleOver(r, got)
    BY DEF SampleFails
  <2>2. CASE SampleFails(r)
    BY <1>2, <2>1, <2>2
  <2>3. CASE ~SampleFails(r)
    <3>1. run[r].pc \in {"gate", "fetch"} /\ Move(r, [run[r] EXCEPT !.pc = "repair"])
      BY <1>5, <2>3 DEF GateRefuses, NoPermission, RepairFails, FetchFails, GenerateFails
    <3>2. run'[r] = [run[r] EXCEPT !.pc = "repair"]
      BY <3>1, MoveGoes
    <3>3. /\ run'[r].pc = "repair" /\ run'[r].i = run[r].i /\ run'[r].n = run[r].n
          /\ run'[r].steered = run[r].steered
      BY <1>0, <3>2 DEF Run
    <3> QED
      BY <1>3, <3>1, <3>3
  <2> QED
    BY <2>2, <2>3
<1> QED
  BY <1>4, <1>5

LEMMA FetchShortens ==
    ASSUME IInv, NEW r \in Runs, Fetch(r)
    PROVE  Shorter(run[r], run'[r])
<1>1. run[r].pc \in InAttempt
  BY DEF Fetch, InAttempt
<1>2. ASSUME NEW got, NEW learned,
             Move(r, [run[r] EXCEPT !.pc = "tally", !.n = 0, !.steered = FALSE, !.text = NewText,
                                    !.noted = FALSE, !.repaired = FALSE, !.got = got,
                                    !.learned = learned])
      PROVE  Shorter(run[r], run'[r])
  <2>1. run'[r].pc = "tally" /\ run'[r].i = run[r].i
    <3>1. run'[r] = [run[r] EXCEPT !.pc = "tally", !.n = 0, !.steered = FALSE, !.text = NewText,
                                   !.noted = FALSE, !.repaired = FALSE, !.got = got,
                                   !.learned = learned]
      BY <1>2, MoveGoes
    <3> QED
      BY <3>1, RecordOf DEF Run
  <2> QED
    BY <1>1, <2>1, RecordOf, TallyShortens
<1> QED
  BY <1>2 DEF Fetch

LEMMA EndsShorten ==
    ASSUME IInv, NEW r \in Runs,
           SafetyReply(r) \/ GatherFails(r) \/ Single(r) \/ Majority(r) \/ NoMajority(r) \/ Cancel(r)
    PROVE  Shorter(run[r], run'[r])
<1>1. \E out : Finish(r, out)
  BY DEF SafetyReply, GatherFails, Single, Majority, NoMajority, Cancel, Fail
<1> QED
  BY <1>1, FinishEnds DEF Shorter

LEMMA ProgressShortens ==
    ASSUME IInv, NEW r \in Runs, Progress(r) \/ Cancel(r)
    PROVE  Shorter(run[r], run'[r])
BY StartShortens, SteersShorten, ChecksShorten, RefusalsShorten, FetchShortens, EndsShorten DEF Progress

\* Every step of a run brings it nearer to its end, whatever rewrites, failed checks and
\* corrections come together in it: a number that counts attempts and stages goes down
\* within a sample, and there are finitely many samples.  A correction restarts the
\* attempts (steer_regen), but only once in a sample (the flag steered).
THEOREM RunsAreFinite == Spec => EveryStepShortens
<1>1. ASSUME IInv, [Next]_vars, NEW r \in Runs, Active(r), run'[r] # run[r]
      PROVE  Shorter(run[r], run'[r])
  <2>1. PICK p \in Runs : Enter(p) \/ Progress(p) \/ Cancel(p) \/ NextQuestion(p)
    BY <1>1 DEF Next, Steer, vars
  <2>2. p = r
    <3>1. run' = [run EXCEPT ![p] = run'[p]]
      <4>1. ASSUME NEW q, Move(p, q) PROVE run' = [run EXCEPT ![p] = run'[p]]
        BY <1>1, <4>1 DEF Move, IInv
      <4>2. ASSUME NEW out, Finish(p, out) PROVE run' = [run EXCEPT ![p] = run'[p]]
        BY <1>1, <4>2 DEF Finish, IInv
      <4>3. ASSUME Enter(p) PROVE run' = [run EXCEPT ![p] = run'[p]]
        BY <1>1, <4>3 DEF Enter, IInv
      <4>4. ASSUME TakeSteers(p) PROVE run' = [run EXCEPT ![p] = run'[p]]
        BY <1>1, <4>4 DEF TakeSteers, IInv
      <4>5. CASE Fetch(p)
        BY <4>1, <4>5 DEF Fetch
      <4>6. ASSUME ~Fetch(p)
            PROVE  \/ Enter(p) \/ TakeSteers(p)
                   \/ \E q : Move(p, q)
                   \/ \E out : Finish(p, out)
        <5>1. CASE \/ SafetyReply(p) \/ GatherFails(p) \/ Gather(p) \/ Generate(p) \/ GenerateFails(p)
                   \/ Regenerate(p) \/ RegenerateFails(p) \/ NoSteers(p)
          BY <5>1 DEF SafetyReply, GatherFails, Fail, Gather, Generate, GenerateFails, SampleFails,
             SampleOver, Regenerate, RegenerateFails, NoSteers
        <5>2. CASE Caliber(p) \/ Recaliber(p) \/ Cover(p)
          BY <5>2 DEF Caliber, Recaliber, Cover, SampleOver
        <5>3. CASE \/ GatePasses(p) \/ GateRefuses(p) \/ NoPermission(p) \/ ExplainPasses(p)
                   \/ ExplainRefuses(p) \/ Repair(p) \/ RepairFails(p) \/ FetchFails(p)
          BY <5>3 DEF GatePasses, GateRefuses, NoPermission, ExplainPasses, ExplainRefuses, Repair,
             RepairFails, FetchFails, SampleFails, SampleOver
        <5>4. CASE Single(p) \/ Majority(p) \/ NextSample(p) \/ NoMajority(p) \/ Cancel(p) \/ NextQuestion(p)
          BY <5>4 DEF Single, Majority, NextSample, NoMajority, Cancel, NextQuestion, Fail
        <5> QED
          BY <2>1, <4>6, <5>1, <5>2, <5>3, <5>4 DEF Progress
      <4> QED
        BY <4>1, <4>2, <4>3, <4>4, <4>5, <4>6
    <3> QED
      BY <1>1, <3>1 DEF IInv
  <2>3. Progress(r) \/ Cancel(r)
    BY <1>1, <2>1, <2>2 DEF Enter, NextQuestion, Active
  <2> QED
    BY <1>1, <2>3, ProgressShortens
<1>2. IInv /\ [Next]_vars =>
        [\A r \in Runs : Active(r) /\ run'[r] # run[r] => Shorter(run[r], run'[r])]_vars
  BY <1>1
<1> QED
  BY <1>2, RunInductive, PTL DEF Spec, EveryStepShortens

=============================================================================
