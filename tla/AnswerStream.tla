---------------------------- MODULE AnswerStream ----------------------------
(***************************************************************************)
(* What a reader of a streamed answer is promised (the head note of the     *)
(* stream section of crates/server/src/kb_api.rs): what the speaker says is *)
(* shown in its order and without gaps, the last thing shown is the last    *)
(* thing said, and a speaker that falls silent for good is reported once,   *)
(* after everything it did say.                                             *)
(***************************************************************************)
EXTENDS Naturals, Sequences, SequencesExt

CONSTANTS
    Words,   \* what can be said before the end
    Ends,    \* what is said last
    Broken   \* what the reader is shown instead of an end

VARIABLES
    said,    \* everything said so far
    lost,    \* the speaker is gone without having said an end
    shown    \* what the reader has got

promise == <<said, lost, shown>>

Ended(seq) == seq # <<>> /\ Last(seq) \in Ends \union {Broken}

Init ==
    /\ said = <<>>
    /\ lost = FALSE
    /\ shown = <<>>

Say ==
    /\ ~lost /\ ~Ended(said)
    /\ \E word \in Words \union Ends : said' = Append(said, word)
    /\ UNCHANGED <<lost, shown>>

Lose ==
    /\ ~lost /\ ~Ended(said)
    /\ lost' = TRUE
    /\ UNCHANGED <<said, shown>>

\* Some more of what was said.
Show ==
    /\ Len(shown) < Len(said)
    /\ \E n \in Len(shown) + 1 .. Len(said) : shown' = SubSeq(said, 1, n)
    /\ UNCHANGED <<said, lost>>

ShowBroken ==
    /\ lost
    /\ shown = said
    /\ shown' = Append(shown, Broken)
    /\ UNCHANGED <<said, lost>>

Next == Say \/ Lose \/ Show \/ ShowBroken

Spec == Init /\ [][Next]_promise

============================================================================
