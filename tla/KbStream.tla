------------------------------ MODULE KbStream ------------------------------
(***************************************************************************)
(* A knowledge base answer on its way to the client (crates/server/src/     *)
(* kb_api.rs, the stream section): the worker that asks the model and saves *)
(* the turn, the pump that collects its text into frames, the bounded       *)
(* channel in front of the response, and the client, who may leave at any   *)
(* time.                                                                    *)
(*                                                                          *)
(* A piece of text is its number; a frame is the list of what is in it.     *)
(***************************************************************************)
EXTENDS Naturals, Sequences, SequencesExt

CONSTANTS
    Pieces,    \* how many pieces of text the model may write
    FlushAt,   \* DELTA_FLUSH_CHARS, counted in pieces
    Capacity   \* frames the channel to the response holds

ASSUME BoundsAssumption == Pieces \in Nat /\ FlushAt \in Nat \ {0} /\ Capacity \in Nat \ {0}

VARIABLES
    conv,     \* the question belongs to a conversation
    worker,   \* the task of spawn_kb_worker
    said,     \* everything it has put into rx, the channel to the pump
    read,     \* how much of that the pump has taken out
    kept,     \* what became of the two messages of the turn
    pump,     \* the task of pump_sse
    chan,     \* the frames between the pump and the response
    client    \* the response stream: still there, and all that was in the frames it yielded

vars == <<conv, worker, said, read, kept, pump, chan, client>>

Text == {<<"delta", n>> : n \in 1..Pieces}
Meta == <<"meta", 0>>
Done == <<"done", 0>>
Fail == <<"error", 0>>
Broken == <<"broken", 0>>     \* the error frame with MSG_STREAM_BROKEN
Terminals == {Done, Fail, Broken}
Items == Text \union {Meta} \union Terminals

\* pc: where the task is; cut: its AbortHandle was used.
Worker == [pc : {"answer", "check", "user", "ai", "finish", "gone"}, cut : BOOLEAN]

\* buf: the text collected; todo: frames it is about to send; then: what it does when
\* they are sent; armed: leaving the function aborts the worker.
Pump == [pc : {"select", "send", "cancelled", "gone"}, buf : Seq(Text), todo : Seq(Seq(Items)),
         then : {"select", "end", "abandon"}, armed : BOOLEAN]

TypeOK ==
    /\ conv \in BOOLEAN
    /\ worker \in Worker
    /\ said \in Seq(Items)
    /\ read \in 0..Len(said)
    /\ kept \in [{"user", "ai"} -> {"no", "kept", "lost"}]
    /\ pump \in Pump
    /\ chan \in Seq(Seq(Items)) /\ Len(chan) <= Capacity
    /\ client \in [there : BOOLEAN, got : Seq(Items)]

Init ==
    /\ conv \in BOOLEAN
    /\ worker = [pc |-> "answer", cut |-> FALSE]
    /\ said = <<>>
    /\ read = 0
    /\ kept = [user |-> "no", ai |-> "no"]
    /\ pump = [pc |-> "select", buf |-> <<>>, todo |-> <<>>, then |-> "select", armed |-> TRUE]
    /\ chan = <<>>
    /\ client = [there |-> TRUE, got |-> <<>>]

----------------------------------------------------------------------------
\* The worker.

\* The receiver lives in the pump: is_closed.
Closed == pump.pc = "gone"

GoesTo(pc) == worker' = [worker EXCEPT !.pc = pc]

\* answer_stream: the documents found, then the text as it is written.
Say ==
    /\ worker.pc = "answer"
    /\ Len(said) <= Pieces
    /\ said' = Append(said, IF said = <<>> THEN Meta ELSE <<"delta", Len(said)>>)
    /\ UNCHANGED <<conv, worker, read, kept, pump, chan, client>>

Answered ==
    /\ worker.pc = "answer"
    /\ said # <<>>
    /\ GoesTo("check")
    /\ UNCHANGED <<conv, said, read, kept, pump, chan, client>>

\* The search or the model fails.
Fails ==
    /\ worker.pc = "answer"
    /\ said' = Append(said, Fail)
    /\ GoesTo("gone")
    /\ UNCHANGED <<conv, read, kept, pump, chan, client>>

Panics ==
    /\ worker.pc = "answer"
    /\ GoesTo("gone")
    /\ UNCHANGED <<conv, said, read, kept, pump, chan, client>>

\* Mutant: the answer is saved without a look at the reader.
AfterCheck_Always == IF conv THEN "user" ELSE "finish"

\* Where the worker goes with its answer: away when nobody listens.
AfterCheck == IF Closed THEN "gone" ELSE IF conv THEN "user" ELSE "finish"

Check ==
    /\ worker.pc = "check"
    /\ GoesTo(AfterCheck)
    /\ UNCHANGED <<conv, said, read, kept, pump, chan, client>>

\* save_msg_logged, twice.  A message that cannot be saved is only logged.
Save(role, next) ==
    /\ \E outcome \in {"kept", "lost"} : kept' = [kept EXCEPT ![role] = outcome]
    /\ GoesTo(next)
    /\ UNCHANGED <<conv, said, read, pump, chan, client>>

SaveUser == worker.pc = "user" /\ Save("user", "ai")

SaveAi == worker.pc = "ai" /\ Save("ai", "finish")

\* Mutant: the answer is announced before it is saved.
Announces_Early == {"user", "ai", "finish"}

Announces == {"finish"}

Finish ==
    /\ worker.pc \in Announces
    /\ said' = Append(said, Done)
    /\ GoesTo("gone")
    /\ UNCHANGED <<conv, read, kept, pump, chan, client>>

\* An abort takes effect at an await: in the answer, or in a save that may have
\* reached the database by then.
Cut ==
    /\ worker.cut
    /\ \/ /\ worker.pc \in {"answer", "user", "ai"}
          /\ UNCHANGED kept
       \/ /\ worker.pc \in {"user", "ai"}
          /\ kept' = [kept EXCEPT ![worker.pc] = "kept"]
    /\ GoesTo("gone")
    /\ UNCHANGED <<conv, said, read, pump, chan, client>>

WorkerSteps == Say \/ Answered \/ Fails \/ Panics \/ Check \/ SaveUser \/ SaveAi \/ Finish \/ Cut

----------------------------------------------------------------------------
\* The pump.

\* DeltaBatcher::flush.
Flushed(buf) == IF buf = <<>> THEN <<>> ELSE <<buf>>

\* Mutant: the frame goes out ahead of the text that is still collected.
FramesFor_Ahead(item) == <<<<item>>>> \o Flushed(pump.buf)

\* The frames an item other than text makes: the text collected before it goes first.
FramesFor(item) == Flushed(pump.buf) \o <<<<item>>>>

SendThen(frames, buf, then) ==
    /\ pump' = [pump EXCEPT !.pc = IF frames = <<>> THEN "select" ELSE "send",
                            !.todo = frames, !.buf = buf, !.then = then]
    /\ UNCHANGED <<conv, worker, said, kept, chan, client>>

\* DeltaBatcher::push.
TakeText ==
    /\ pump.pc = "select"
    /\ read < Len(said)
    /\ said[read + 1] \in Text
    /\ read' = read + 1
    /\ LET buf == Append(pump.buf, said[read + 1])
       IN  IF Len(buf) >= FlushAt THEN SendThen(<<buf>>, <<>>, "select")
           ELSE SendThen(<<>>, buf, "select")

TakeOther ==
    /\ pump.pc = "select"
    /\ read < Len(said)
    /\ said[read + 1] \notin Text
    /\ read' = read + 1
    /\ SendThen(FramesFor(said[read + 1]), <<>>,
                IF said[read + 1] \in Terminals THEN "end" ELSE "select")

\* The channel is closed and empty: the worker is gone without a last word.
TakeNone ==
    /\ pump.pc = "select"
    /\ read = Len(said)
    /\ worker.pc = "gone"
    /\ pump' = [pump EXCEPT !.pc = "send", !.todo = FramesFor(Broken), !.buf = <<>>,
                            !.then = "abandon", !.armed = FALSE]
    /\ UNCHANGED <<conv, worker, said, read, kept, chan, client>>

\* Mutant: the clock only looks whether there is text.
TickFlushes_Not(buf) == <<>>

\* What is sent when the interval is over.
TickFlushes(buf) == Flushed(buf)

Tick ==
    /\ pump.pc = "select"
    /\ TickFlushes(pump.buf) # <<>>
    /\ SendThen(TickFlushes(pump.buf), <<>>, "select")
    /\ UNCHANGED read

\* The select has a branch for the response stream being dropped.
Notices == ~client.there

NoticeLeft ==
    /\ pump.pc = "select"
    /\ Notices
    /\ pump' = [pump EXCEPT !.pc = "cancelled", !.armed = FALSE]
    /\ worker' = [worker EXCEPT !.cut = TRUE]
    /\ UNCHANGED <<conv, said, read, kept, chan, client>>

\* A send waits for room in the channel.
SendFrame ==
    /\ pump.pc = "send"
    /\ client.there
    /\ Len(chan) < Capacity
    /\ chan' = Append(chan, Head(pump.todo))
    /\ pump' = [pump EXCEPT !.todo = Tail(@),
                            !.pc = IF Len(pump.todo) > 1 THEN "send"
                                   ELSE IF pump.then = "select" THEN "select" ELSE "gone",
                            !.armed = @ /\ (Len(pump.todo) > 1 \/ pump.then = "select")]
    /\ UNCHANGED <<conv, worker, said, read, kept, client>>

\* ... and fails when the response stream was dropped.
SendFails ==
    /\ pump.pc = "send"
    /\ ~client.there
    /\ IF pump.then = "abandon"
       THEN /\ pump' = [pump EXCEPT !.pc = "gone", !.todo = <<>>]
            /\ UNCHANGED worker
       ELSE /\ pump' = [pump EXCEPT !.pc = "cancelled", !.todo = <<>>, !.armed = FALSE]
            /\ worker' = [worker EXCEPT !.cut = TRUE]
    /\ UNCHANGED <<conv, said, read, kept, chan, client>>

\* The function returns and its receiver is dropped.
Return ==
    /\ pump.pc = "cancelled"
    /\ pump' = [pump EXCEPT !.pc = "gone"]
    /\ UNCHANGED <<conv, worker, said, read, kept, chan, client>>

PumpSteps == TakeText \/ TakeOther \/ TakeNone \/ Tick \/ NoticeLeft \/ SendFrame \/ SendFails \/ Return

----------------------------------------------------------------------------
\* The client.

Receive ==
    /\ client.there
    /\ chan # <<>>
    /\ client' = [client EXCEPT !.got = @ \o Head(chan)]
    /\ chan' = Tail(chan)
    /\ UNCHANGED <<conv, worker, said, read, kept, pump>>

Leave ==
    /\ client.there
    /\ client' = [client EXCEPT !.there = FALSE]
    /\ chan' = <<>>
    /\ UNCHANGED <<conv, worker, said, read, kept, pump>>

Next == WorkerSteps \/ PumpSteps \/ Receive \/ Leave

Spec == Init /\ [][Next]_vars

\* Tasks are scheduled and database calls return, but nothing is assumed of the model:
\* it may never say another word.  A client that stays reads what it is sent.
FairSpec ==
    /\ Spec
    /\ WF_vars(PumpSteps)
    /\ WF_vars(Check \/ SaveUser \/ SaveAi \/ Finish)
    /\ WF_vars(Cut)
    /\ WF_vars(Receive)

----------------------------------------------------------------------------
\* Properties.

Shown == client.got
Over == Shown # <<>> /\ Last(Shown) \in Terminals

\* What a frame is promised to be (AnswerStream): order, no gaps, one end, and the
\* error frame for a worker that vanished after all it said.
Promise == INSTANCE AnswerStream WITH
    Words <- Text \union {Meta},
    Ends <- {Done, Fail},
    lost <- worker.pc = "gone" /\ (said = <<>> \/ Last(said) \notin {Done, Fail}),
    shown <- Shown
KeepsPromise == Promise!Spec

\* Nobody is told that the answer is there before its turn was handed to the
\* conversation, the question first: the next question, which starts from it, can be
\* asked at once.  (Saving may fail, but then it is over.)
DoneIsSettled ==
    /\ Over /\ Last(Shown) = Done => (conv => "no" \notin {kept.user, kept.ai})
    /\ kept.ai # "no" => kept.user # "no"

\* Nothing is held back: what the worker says is shown to a client that stays, even if
\* the model never goes on, and so is the end of a worker that ends without a word.
AllIsShown ==
    /\ \A n \in 1..Pieces + 2 : (Len(said) >= n) ~> (~client.there \/ Len(Shown) >= n)
    /\ (worker.pc = "gone") ~> (~client.there \/ Over)

\* A client that leaves takes the worker with it, even out of a call that never
\* returns, and a worker that comes to its check after the pump has returned saves
\* nothing.
LeavingStopsTheWorker ==
    /\ ~client.there ~> worker.pc = "gone"
    /\ [][Closed /\ worker.pc \in {"answer", "check"} => worker'.pc \notin {"user", "ai"}]_vars

============================================================================
