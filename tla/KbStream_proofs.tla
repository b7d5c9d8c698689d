--------------------------- MODULE KbStream_proofs ---------------------------
(***************************************************************************)
(* Proofs about KbStream, for any number of pieces, any size of frames and   *)
(* any capacity of the channel: the frames refine what AnswerStream promises *)
(* a reader, and the end is announced after the turn was saved.              *)
(***************************************************************************)
EXTENDS KbStream, SequenceTheorems, TLAPS

(***************************************************************************)
(* Frames that follow one another                                          *)
(***************************************************************************)
\* The frame holds the items of whole that come after the first from.
Slice(frame, whole, from) ==
    /\ frame \in Seq(Items) /\ Len(frame) > 0
    /\ \A k \in 1 .. Len(frame) : frame[k] = whole[from + k]

\* Frame i ends where cut[i] says.
Cuts(cut, frames, whole, from, to) ==
    /\ cut \in [0 .. Len(frames) -> Nat]
    /\ cut[0] = from /\ cut[Len(frames)] = to
    /\ \A i \in 1 .. Len(frames) :
         /\ Slice(frames[i], whole, cut[i - 1])
         /\ cut[i] = cut[i - 1] + Len(frames[i])
         /\ cut[i] <= to

\* The frames hold what whole has between from and to, each once and in its order.
InOrder(frames, whole, from, to) ==
    \E cut \in [0 .. Len(frames) -> Nat] : Cuts(cut, frames, whole, from, to)

\* The error frame of a vanished worker has nothing beside it.
Alone(frames) ==
    \A i \in 1 .. Len(frames) :
      \A k \in 1 .. Len(frames[i]) : frames[i][k] = Broken => Len(frames[i]) = 1

(***************************************************************************)
(* Lemmas on frames                                                        *)
(***************************************************************************)
LEMMA InOrderEmpty ==
    ASSUME NEW whole, NEW from \in Nat
    PROVE  InOrder(<<>>, whole, from, from)
  <1> DEFINE cut == [i \in 0 .. Len(<<>>) |-> from]
  <1>1. Len(<<>>) = 0
    OBVIOUS
  <1>2. cut \in [0 .. Len(<<>>) -> Nat] /\ cut[0] = from
    BY <1>1
  <1>3. Cuts(cut, <<>>, whole, from, from)
    BY <1>1, <1>2 DEF Cuts
  <1> QED BY <1>2, <1>3 DEF InOrder

\* A frame with what comes next may follow.
LEMMA InOrderAppend ==
    ASSUME NEW frames \in Seq(Seq(Items)), NEW whole, NEW from \in Nat, NEW to \in Nat,
           InOrder(frames, whole, from, to), NEW frame, Slice(frame, whole, to)
    PROVE  InOrder(Append(frames, frame), whole, from, to + Len(frame))
  <1>1. PICK cut \in [0 .. Len(frames) -> Nat] : Cuts(cut, frames, whole, from, to)
    BY DEF InOrder
  <1> DEFINE n == Len(frames)
             more == Append(frames, frame)
             next == [i \in 0 .. n + 1 |-> IF i <= n THEN cut[i] ELSE to + Len(frame)]
  <1>2. frame \in Seq(Items) /\ Len(frame) \in Nat /\ Len(frame) > 0 /\ n \in Nat
    BY DEF Slice
  <1>3. Len(more) = n + 1 /\ more[n + 1] = frame /\ \A i \in 1 .. n : more[i] = frames[i]
    BY <1>2
  <1>4. next \in [0 .. Len(more) -> Nat] /\ next[0] = from /\ next[Len(more)] = to + Len(frame)
    BY <1>1, <1>2, <1>3 DEF Cuts
  <1>5. ASSUME NEW i \in 1 .. Len(more)
        PROVE  /\ Slice(more[i], whole, next[i - 1])
               /\ next[i] = next[i - 1] + Len(more[i])
               /\ next[i] <= to + Len(frame)
    <2>1. CASE i \in 1 .. n
      <3>1. next[i] = cut[i] /\ next[i - 1] = cut[i - 1] /\ more[i] = frames[i]
        BY <2>1, <1>2, <1>3
      <3>2. Slice(frames[i], whole, cut[i - 1]) /\ cut[i] = cut[i - 1] + Len(frames[i]) /\ cut[i] <= to
        BY <1>1, <2>1 DEF Cuts
      <3>3. cut[i] \in Nat
        BY <1>2, <2>1
      <3> QED BY <3>1, <3>2, <3>3, <1>2
    <2>2. CASE i = n + 1
      <3>1. next[i] = to + Len(frame) /\ next[i - 1] = cut[n] /\ cut[n] = to
        BY <2>2, <1>1, <1>2 DEF Cuts
      <3> QED BY <3>1, <2>2, <1>2, <1>3
    <2> QED BY <2>1, <2>2, <1>2, <1>3
  <1>6. Cuts(next, more, whole, from, to + Len(frame))
    BY <1>4, <1>5 DEF Cuts
  <1> QED BY <1>4, <1>6 DEF InOrder

\* The first frame goes on from the start, and the others from there.
LEMMA InOrderTail ==
    ASSUME NEW frames \in Seq(Seq(Items)), frames # <<>>,
           NEW whole, NEW from \in Nat, NEW to \in Nat, InOrder(frames, whole, from, to)
    PROVE  /\ Slice(Head(frames), whole, from)
           /\ from + Len(Head(frames)) <= to
           /\ InOrder(Tail(frames), whole, from + Len(Head(frames)), to)
  <1>1. PICK cut \in [0 .. Len(frames) -> Nat] : Cuts(cut, frames, whole, from, to)
    BY DEF InOrder
  <1> DEFINE n == Len(frames)
             rest == Tail(frames)
             next == [i \in 0 .. n - 1 |-> cut[i + 1]]
  <1>2. n \in Nat /\ n > 0 /\ Len(rest) = n - 1 /\ Head(frames) = frames[1]
    OBVIOUS
  <1>3. \A i \in 1 .. n - 1 : rest[i] = frames[i + 1]
    BY <1>2
  <1>4. Slice(frames[1], whole, from) /\ cut[1] = from + Len(frames[1]) /\ cut[1] <= to
    BY <1>1, <1>2 DEF Cuts
  <1>5. next \in [0 .. Len(rest) -> Nat] /\ next[0] = cut[1] /\ next[Len(rest)] = to
    BY <1>1, <1>2 DEF Cuts
  <1>6. ASSUME NEW i \in 1 .. Len(rest)
        PROVE  /\ Slice(rest[i], whole, next[i - 1])
               /\ next[i] = next[i - 1] + Len(rest[i])
               /\ next[i] <= to
    <2>1. i + 1 \in 1 .. n /\ next[i] = cut[i + 1] /\ next[i - 1] = cut[i] /\ rest[i] = frames[i + 1]
      BY <1>2, <1>3
    <2>2. (i + 1) - 1 = i
      OBVIOUS
    <2> QED BY <2>1, <2>2, <1>1 DEF Cuts
  <1>7. Cuts(next, rest, whole, from + Len(frames[1]), to)
    BY <1>4, <1>5, <1>6 DEF Cuts
  <1> QED BY <1>2, <1>4, <1>5, <1>7 DEF InOrder

\* What the frames hold does not change when the whole gets longer.
LEMMA InOrderLonger ==
    ASSUME NEW frames \in Seq(Seq(Items)), NEW whole, NEW from \in Nat, NEW to \in Nat,
           InOrder(frames, whole, from, to),
           NEW longer, \A k \in 1 .. to : longer[k] = whole[k]
    PROVE  InOrder(frames, longer, from, to)
  <1>1. PICK cut \in [0 .. Len(frames) -> Nat] : Cuts(cut, frames, whole, from, to)
    BY DEF InOrder
  <1>2. ASSUME NEW i \in 1 .. Len(frames) PROVE Slice(frames[i], longer, cut[i - 1])
    <2>1. Slice(frames[i], whole, cut[i - 1]) /\ cut[i] = cut[i - 1] + Len(frames[i]) /\ cut[i] <= to
      BY <1>1 DEF Cuts
    <2>2. cut[i - 1] \in Nat /\ Len(frames[i]) \in Nat
      <3>1. Len(frames) \in Nat /\ i - 1 \in 0 .. Len(frames)
        OBVIOUS
      <3>2. frames[i] \in Seq(Items)
        OBVIOUS
      <3>3. Len(frames[i]) \in Nat
        BY <3>2, LenProperties
      <3> QED BY <3>1, <3>3
    <2>3. \A k \in 1 .. Len(frames[i]) : cut[i - 1] + k \in 1 .. to
      BY <2>1, <2>2
    <2> QED BY <2>1, <2>3 DEF Slice
  <1>3. Cuts(cut, frames, longer, from, to)
    BY <1>1, <1>2 DEF Cuts
  <1> QED BY <1>3 DEF InOrder

LEMMA AloneAppend ==
    ASSUME NEW frames \in Seq(Seq(Items)), Alone(frames), NEW frame \in Seq(Items),
           \A k \in 1 .. Len(frame) : frame[k] = Broken => Len(frame) = 1
    PROVE  Alone(Append(frames, frame))
  <1>1. /\ Len(Append(frames, frame)) = Len(frames) + 1
        /\ Append(frames, frame)[Len(frames) + 1] = frame
        /\ \A i \in 1 .. Len(frames) : Append(frames, frame)[i] = frames[i]
    OBVIOUS
  <1>2. ASSUME NEW i \in 1 .. Len(frames) + 1
        PROVE  i \in 1 .. Len(frames) \/ i = Len(frames) + 1
    OBVIOUS
  <1> QED BY <1>1, <1>2 DEF Alone

LEMMA AloneTail ==
    ASSUME NEW frames \in Seq(Seq(Items)), frames # <<>>, Alone(frames)
    PROVE  /\ Alone(Tail(frames))
           /\ \A k \in 1 .. Len(Head(frames)) : Head(frames)[k] = Broken => Len(Head(frames)) = 1
  <1>1. /\ Len(frames) > 0 /\ Len(Tail(frames)) = Len(frames) - 1 /\ Head(frames) = frames[1]
        /\ \A i \in 1 .. Len(Tail(frames)) : Tail(frames)[i] = frames[i + 1]
    OBVIOUS
  <1>2. \A i \in 1 .. Len(Tail(frames)) : i + 1 \in 1 .. Len(frames)
    BY <1>1
  <1>3. 1 \in 1 .. Len(frames)
    BY <1>1
  <1> QED BY <1>1, <1>2, <1>3 DEF Alone

\* The first frame may be on either side of the channel's end.
LEMMA FrameCrosses ==
    ASSUME NEW s \in Seq(Seq(Items)), NEW t \in Seq(Seq(Items)), t # <<>>
    PROVE  Append(s, Head(t)) \o Tail(t) = s \o t
  OBVIOUS

\* The first frame is that of the channel.
LEMMA FirstOfConcat ==
    ASSUME NEW s \in Seq(Seq(Items)), NEW t \in Seq(Seq(Items)), s # <<>>
    PROVE  /\ s \o t # <<>> /\ Head(s \o t) = Head(s)
           /\ Tail(s \o t) = Tail(s) \o t
  OBVIOUS

(***************************************************************************)
(* The inductive invariant                                                 *)
(***************************************************************************)
\* Everything there will be to read: what was said, and the pump's own last word.
Whole == IF pump.then = "abandon" THEN Append(said, Broken) ELSE said

\* How much of it has been put into frames.
Framed == IF pump.then = "abandon" THEN Len(said) + 1 ELSE read - Len(pump.buf)

\* A worker that is still there has said no end, and is past a save when its turn is.
WorkerOK ==
    /\ \A k \in 1 .. Len(said) : said[k] # Broken
    /\ worker.pc # "gone" => \A k \in 1 .. Len(said) : said[k] \in Text \union {Meta}
    /\ kept.ai # "no" => kept.user # "no"
    /\ worker.pc = "ai" => kept.user # "no"
    /\ worker.pc = "finish" /\ conv => "no" \notin {kept.user, kept.ai}
    /\ \A k \in 1 .. Len(said) : said[k] = Done => (conv => "no" \notin {kept.user, kept.ai})

\* The pump has read to the end when it has seen one, and no further before.
PumpOK ==
    /\ pump.pc = "send" <=> pump.todo # <<>>
    /\ pump.pc = "select" => pump.then = "select"
    /\ pump.then # "select" => pump.buf = <<>>
    /\ pump.then = "select" => \A k \in 1 .. read : said[k] \notin Terminals
    /\ pump.then = "abandon" => /\ worker.pc = "gone" /\ read = Len(said)
                                /\ \A k \in 1 .. Len(said) : said[k] \notin Terminals

\* The text that is collected is the last that was read.
BufOK ==
    /\ Len(pump.buf) <= read
    /\ \A k \in 1 .. Len(pump.buf) : pump.buf[k] = said[read - Len(pump.buf) + k]

\* What is shown is a beginning of the whole ...
ShownOK ==
    /\ Len(Shown) <= Len(Whole)
    /\ \A k \in 1 .. Len(Shown) : Shown[k] = Whole[k]

\* ... and what is on its way to a client that is there goes on from it.
OnWayOK ==
    client.there => /\ InOrder(chan \o pump.todo, Whole, Len(Shown), Framed)
                    /\ Alone(chan \o pump.todo)

IInv == TypeOK /\ WorkerOK /\ PumpOK /\ BufOK /\ ShownOK /\ OnWayOK

(***************************************************************************)
(* The worker                                                              *)
(***************************************************************************)
\* The worker moves on and says nothing.
LEMMA Silent ==
    ASSUME IInv, UNCHANGED <<said, read, pump, chan, client>>,
           worker.pc = "gone" => worker'.pc = "gone"
    PROVE  PumpOK' /\ BufOK' /\ ShownOK' /\ OnWayOK'
  <1>1. Whole' = Whole /\ Framed' = Framed /\ Shown' = Shown
    BY DEF Whole, Framed, Shown
  <1> QED BY <1>1 DEF IInv, PumpOK, BufOK, ShownOK, OnWayOK

\* The item comes after all that was said.
Adds(item) ==
    \A k \in 1 .. Len(said') :
      \/ k <= Len(said) /\ said'[k] = said[k]
      \/ k = Len(said) + 1 /\ said'[k] = item

\* The worker says one thing more: what is shown and on its way is of the beginning.
LEMMA Speaks ==
    ASSUME IInv, worker.pc # "gone", NEW item \in Items, item # Broken,
           said' = Append(said, item), UNCHANGED <<read, pump, chan, client>>
    PROVE  /\ said' \in Seq(Items) /\ read' \in 0 .. Len(said')
           /\ Adds(item)
           /\ PumpOK' /\ BufOK' /\ ShownOK' /\ OnWayOK'
  <1>1. /\ said \in Seq(Items) /\ Len(said) \in Nat /\ read \in 0 .. Len(said)
        /\ pump \in Pump /\ chan \in Seq(Seq(Items)) /\ client \in [there : BOOLEAN, got : Seq(Items)]
    BY DEF IInv, TypeOK
  <1>2. Len(said') = Len(said) + 1 /\ said' \in Seq(Items)
        /\ said'[Len(said) + 1] = item /\ \A k \in 1 .. Len(said) : said'[k] = said[k]
    BY <1>1
  <1>3. pump.then # "abandon"
    BY DEF IInv, PumpOK
  <1>4. Whole = said /\ Whole' = said' /\ Framed' = Framed /\ Shown' = Shown /\ Framed = read - Len(pump.buf)
    BY <1>3 DEF Whole, Framed, Shown
  <1>5. PumpOK'
    <2>1. \A k \in 1 .. read : k \in 1 .. Len(said)
      BY <1>1
    <2> QED BY <1>2, <1>3, <2>1 DEF IInv, PumpOK
  <1>6. pump.buf \in Seq(Text) /\ Len(pump.buf) \in Nat /\ Len(pump.buf) <= read
    <2>1. pump.buf \in Seq(Text) /\ Len(pump.buf) <= read
      BY <1>1 DEF Pump, IInv, BufOK
    <2> QED BY <2>1, LenProperties
  <1>7. BufOK'
    <2>1. \A k \in 1 .. Len(pump.buf) : read - Len(pump.buf) + k \in 1 .. Len(said)
      BY <1>1, <1>6
    <2> QED BY <1>2, <1>6, <2>1 DEF IInv, BufOK
  <1>8. ShownOK'
    <2>1. Len(Shown) \in Nat
      BY <1>1 DEF Shown
    <2>2. \A k \in 1 .. Len(Shown) : k \in 1 .. Len(said)
      BY <1>1, <1>4, <2>1 DEF IInv, ShownOK
    <2> QED BY <1>1, <1>2, <1>4, <2>1, <2>2 DEF IInv, ShownOK
  <1>9. OnWayOK'
    <2> SUFFICES ASSUME client.there
                 PROVE  InOrder(chan \o pump.todo, said', Len(Shown), Framed) /\ Alone(chan \o pump.todo)
      BY <1>4 DEF OnWayOK
    <2>1. InOrder(chan \o pump.todo, said, Len(Shown), Framed) /\ Alone(chan \o pump.todo)
      BY <1>4 DEF IInv, OnWayOK
    <2>2. chan \o pump.todo \in Seq(Seq(Items)) /\ Len(Shown) \in Nat /\ Framed \in Nat
      <3>1. pump.todo \in Seq(Seq(Items)) /\ Shown \in Seq(Items)
        BY <1>1 DEF Pump, Shown
      <3> QED BY <3>1, <1>1, <1>4, <1>6, ConcatProperties, LenProperties
    <2>3. \A k \in 1 .. Framed : said'[k] = said[k]
      BY <1>1, <1>2, <1>4, <1>6, <2>2
    <2> QED BY <2>1, <2>2, <2>3, InOrderLonger
  <1>10. read' \in 0 .. Len(said')
    BY <1>1, <1>2
  <1>11. Adds(item)
    <2> SUFFICES ASSUME NEW k \in 1 .. Len(said')
                 PROVE  (k <= Len(said) /\ said'[k] = said[k]) \/ (k = Len(said) + 1 /\ said'[k] = item)
      BY DEF Adds
    <2>1. (k \in 1 .. Len(said) /\ k <= Len(said)) \/ k = Len(said) + 1
      BY <1>1, <1>2
    <2>2. CASE k \in 1 .. Len(said) /\ k <= Len(said)
      BY <1>2, <2>2
    <2>3. CASE k = Len(said) + 1
      BY <1>2, <2>3
    <2> QED BY <2>1, <2>2, <2>3
  <1> QED BY <1>2, <1>5, <1>7, <1>8, <1>9, <1>10, <1>11

LEMMA WorkerKeeps ==
    ASSUME IInv, WorkerSteps
    PROVE  IInv'
  <1> USE DEF GoesTo
  <1>0. /\ worker \in Worker /\ said \in Seq(Items) /\ Len(said) \in Nat
        /\ kept \in [{"user", "ai"} -> {"no", "kept", "lost"}] /\ conv \in BOOLEAN
    BY DEF IInv, TypeOK
  <1>a. Text \subseteq Items /\ Meta \in Items /\ Done \in Items /\ Fail \in Items
        /\ Broken \notin Text \union {Meta, Done, Fail} /\ Done \notin Text \union {Meta, Fail}
    BY SMT DEF Text, Meta, Done, Fail, Broken, Items, Terminals
  <1>1. CASE Say
    <2> DEFINE item == IF said = <<>> THEN Meta ELSE <<"delta", Len(said)>>
    <2>1. said' = Append(said, item) /\ worker.pc = "answer"
          /\ UNCHANGED <<conv, worker, read, kept, pump, chan, client>>
      BY <1>1 DEF Say
    <2>2. item \in Text \union {Meta}
      <3>1. CASE said = <<>>
        BY <3>1
      <3>2. CASE said # <<>>
        <4>1. Len(said) \in 1 .. Pieces
          BY <1>0, <1>1, <3>2, BoundsAssumption DEF Say
        <4> QED BY <3>2, <4>1 DEF Text
      <3> QED BY <3>1, <3>2
    <2> HIDE DEF item
    <2>3. item \in Items /\ item # Broken /\ item # Done
      BY <2>2, <1>a
    <2>4. /\ said' \in Seq(Items) /\ read' \in 0 .. Len(said')
          /\ Adds(item)
          /\ PumpOK' /\ BufOK' /\ ShownOK' /\ OnWayOK'
      BY <2>1, <2>3, Speaks
    <2>5. WorkerOK'
      BY <2>1, <2>2, <2>3, <2>4, <1>0 DEF IInv, WorkerOK, Adds
    <2>6. TypeOK'
      BY <2>1, <2>4 DEF IInv, TypeOK
    <2> QED BY <2>4, <2>5, <2>6 DEF IInv
  <1>2. CASE Fails
    <2>1. /\ said' = Append(said, Fail) /\ worker.pc = "answer" /\ worker' = [worker EXCEPT !.pc = "gone"]
          /\ UNCHANGED <<conv, read, kept, pump, chan, client>>
      BY <1>2 DEF Fails
    <2>2. /\ said' \in Seq(Items) /\ read' \in 0 .. Len(said')
          /\ Adds(Fail)
          /\ PumpOK' /\ BufOK' /\ ShownOK' /\ OnWayOK'
      BY <2>1, <1>a, Speaks
    <2>3. WorkerOK'
      BY <2>1, <2>2, <1>0, <1>a DEF IInv, WorkerOK, Worker, Adds
    <2>4. TypeOK'
      BY <2>1, <2>2 DEF IInv, TypeOK, Worker
    <2> QED BY <2>2, <2>3, <2>4 DEF IInv
  <1>3. CASE Finish
    <2>1. /\ said' = Append(said, Done) /\ worker.pc = "finish" /\ worker' = [worker EXCEPT !.pc = "gone"]
          /\ UNCHANGED <<conv, read, kept, pump, chan, client>>
      BY <1>3 DEF Finish, Announces
    <2>2. /\ said' \in Seq(Items) /\ read' \in 0 .. Len(said')
          /\ Adds(Done)
          /\ PumpOK' /\ BufOK' /\ ShownOK' /\ OnWayOK'
      BY <2>1, <1>a, Speaks
    <2>3. WorkerOK'
      BY <2>1, <2>2, <1>0, <1>a DEF IInv, WorkerOK, Worker, Adds
    <2>4. TypeOK'
      BY <2>1, <2>2 DEF IInv, TypeOK, Worker
    <2> QED BY <2>2, <2>3, <2>4 DEF IInv
  <1>4. CASE Answered \/ Panics \/ Check \/ SaveUser \/ SaveAi \/ Cut
    <2>1. UNCHANGED <<conv, said, read, pump, chan, client>> /\ worker.pc # "gone"
      BY <1>4, <1>0 DEF Answered, Panics, Check, SaveUser, SaveAi, Save, Cut
    <2>2. PumpOK' /\ BufOK' /\ ShownOK' /\ OnWayOK'
      BY <2>1, Silent
    <2>3. WorkerOK' /\ worker' \in Worker /\ kept' \in [{"user", "ai"} -> {"no", "kept", "lost"}]
      <3>1. CASE Answered \/ Panics \/ Check
        BY <3>1, <2>1, <1>0 DEF Answered, Panics, Check, AfterCheck, IInv, WorkerOK, Worker
      <3>2. CASE SaveUser
        BY <3>2, <2>1, <1>0 DEF SaveUser, Save, IInv, WorkerOK, Worker
      <3>3. CASE SaveAi
        BY <3>3, <2>1, <1>0 DEF SaveAi, Save, IInv, WorkerOK, Worker
      <3>4. CASE Cut
        BY <3>4, <2>1, <1>0 DEF Cut, IInv, WorkerOK, Worker
      <3> QED BY <1>4, <3>1, <3>2, <3>3, <3>4
    <2>4. TypeOK'
      BY <2>1, <2>3 DEF IInv, TypeOK
    <2> QED BY <2>2, <2>3, <2>4 DEF IInv
  <1> QED BY <1>1, <1>2, <1>3, <1>4 DEF WorkerSteps

(***************************************************************************)
(* The pump                                                                *)
(***************************************************************************)
\* A pump that selects has sent what it had to, and what it has collected is not in a
\* frame yet.
LEMMA Selects ==
    ASSUME IInv, pump.pc = "select"
    PROVE  /\ pump.todo = <<>> /\ pump.then = "select"
           /\ chan \in Seq(Seq(Items)) /\ said \in Seq(Items) /\ Len(said) \in Nat
           /\ Shown \in Seq(Items) /\ Len(Shown) \in Nat
           /\ pump.buf \in Seq(Text) /\ pump.buf \in Seq(Items) /\ Len(pump.buf) \in Nat
           /\ read \in Nat /\ read <= Len(said) /\ Len(pump.buf) <= read
           /\ Whole = said /\ Framed = read - Len(pump.buf) /\ Framed \in Nat
           /\ client.there => InOrder(chan, said, Len(Shown), Framed) /\ Alone(chan)
  <1>1. /\ pump \in Pump /\ chan \in Seq(Seq(Items)) /\ said \in Seq(Items)
        /\ client \in [there : BOOLEAN, got : Seq(Items)] /\ read \in 0 .. Len(said)
    BY DEF IInv, TypeOK
  <1>2. pump.todo = <<>> /\ pump.then = "select"
    BY DEF IInv, PumpOK
  <1>3. pump.buf \in Seq(Text) /\ Shown \in Seq(Items)
    BY <1>1 DEF Pump, Shown
  <1>4. pump.buf \in Seq(Items)
    BY <1>3, SeqMonotonic DEF Items
  <1>5. Len(said) \in Nat /\ Len(Shown) \in Nat /\ Len(pump.buf) \in Nat
    BY <1>1, <1>3, LenProperties
  <1>6. Len(pump.buf) <= read /\ read \in Nat /\ read <= Len(said)
    BY <1>1, <1>5 DEF IInv, BufOK
  <1>7. Whole = said /\ Framed = read - Len(pump.buf)
    BY <1>2 DEF Whole, Framed
  <1>8. chan \o pump.todo = chan
    BY <1>1, <1>2, ConcatEmptySeq
  <1>9. client.there => InOrder(chan, said, Len(Shown), Framed) /\ Alone(chan)
    BY <1>7, <1>8 DEF IInv, OnWayOK
  <1>10. Framed \in Nat
    BY <1>5, <1>6, <1>7
  <1> QED BY <1>1, <1>2, <1>3, <1>4, <1>5, <1>6, <1>7, <1>9, <1>10

\* The collected text, as a frame, goes on where the frames end.
LEMMA TextFollows ==
    ASSUME NEW frames \in Seq(Seq(Items)), NEW from \in Nat, NEW to \in Nat,
           InOrder(frames, said, from, to), Alone(frames),
           NEW buf \in Seq(Text), Slice(buf, said, to)
    PROVE  /\ frames \o <<buf>> \in Seq(Seq(Items))
           /\ InOrder(frames \o <<buf>>, said, from, to + Len(buf))
           /\ Alone(frames \o <<buf>>)
  <1>1. buf \in Seq(Items)
    BY DEF Slice
  <1>2. frames \o <<buf>> = Append(frames, buf) /\ Append(frames, buf) \in Seq(Seq(Items))
    BY <1>1
  <1>3. InOrder(Append(frames, buf), said, from, to + Len(buf))
    BY InOrderAppend
  <1>4. \A k \in 1 .. Len(buf) : buf[k] # Broken
    <2>1. \A k \in 1 .. Len(buf) : buf[k] \in Text
      BY ElementOfSeq
    <2>2. Broken \notin Text
      BY SMT DEF Text, Broken
    <2> QED BY <2>1, <2>2
  <1>5. Alone(Append(frames, buf))
    BY <1>1, <1>4, AloneAppend
  <1> QED BY <1>2, <1>3, <1>5

\* The pump takes a piece of text, and perhaps makes a frame of it.
LEMMA TakeTextKeeps ==
    ASSUME IInv, TakeText
    PROVE  IInv'
  <1> DEFINE item == said[read + 1]
             buf2 == Append(pump.buf, item)
  <1>1. /\ pump.pc = "select" /\ read < Len(said) /\ item \in Text /\ read' = read + 1
        /\ UNCHANGED <<conv, worker, said, kept, chan, client>>
        /\ pump' = IF Len(buf2) >= FlushAt
                   THEN [pump EXCEPT !.pc = "send", !.todo = <<buf2>>, !.buf = <<>>, !.then = "select"]
                   ELSE [pump EXCEPT !.pc = "select", !.todo = <<>>, !.buf = buf2, !.then = "select"]
    BY DEF TakeText, SendThen
  <1>2. pump \in Pump
    BY DEF IInv, TypeOK
  <1>3. buf2 \in Seq(Text) /\ buf2 \in Seq(Items) /\ Len(buf2) = Len(pump.buf) + 1
    BY <1>1, Selects, SeqMonotonic DEF Items
  <1>4. Slice(buf2, said, Framed)
    <2>1. ASSUME NEW k \in 1 .. Len(buf2) PROVE buf2[k] = said[Framed + k]
      <3>1. CASE k \in 1 .. Len(pump.buf)
        <4>1. buf2[k] = pump.buf[k]
          BY <3>1, <1>1, Selects
        <4>2. pump.buf[k] = said[read - Len(pump.buf) + k]
          BY <3>1 DEF IInv, BufOK
        <4> QED BY <4>1, <4>2, <1>1, Selects
      <3>2. CASE k = Len(pump.buf) + 1
        <4>1. buf2[k] = item
          BY <3>2, <1>1, Selects
        <4>2. Framed + k = read + 1
          BY <3>2, <1>1, Selects
        <4> QED BY <4>1, <4>2
      <3>3. k \in 1 .. Len(pump.buf) \/ k = Len(pump.buf) + 1
        BY <1>1, <1>3, Selects
      <3> QED BY <3>1, <3>2, <3>3
    <2>2. Len(buf2) > 0
      BY <1>1, <1>3, Selects
    <2> QED BY <2>1, <2>2, <1>3 DEF Slice
  <1> HIDE DEF buf2
  <1>5. pump.then = "select" /\ pump'.then = "select" /\ Whole' = said /\ Shown' = Shown
    BY <1>1, <1>2, Selects DEF Whole, Shown, Pump
  <1>6. WorkerOK' /\ ShownOK'
    BY <1>1, <1>5, Selects DEF IInv, WorkerOK, ShownOK
  <1>7. read' \in 0 .. Len(said) /\ \A k \in 1 .. read' : said[k] \notin Terminals
    <2>1. item \notin Terminals
      BY <1>1, SMT DEF Text, Terminals, Done, Fail, Broken
    <2>2. \A k \in 1 .. read + 1 : k \in 1 .. read \/ k = read + 1
      BY <1>1, Selects
    <2>3. \A k \in 1 .. read : said[k] \notin Terminals
      BY <1>1, Selects DEF IInv, PumpOK
    <2>4. read' \in 0 .. Len(said)
      BY <1>1, Selects
    <2> QED BY <1>1, <2>1, <2>2, <2>3, <2>4
  <1>8. CASE Len(buf2) >= FlushAt
    <2>1. /\ pump'.pc = "send" /\ pump'.todo = <<buf2>> /\ pump'.buf = <<>>
          /\ pump' \in Pump
      <3>1. <<buf2>> \in Seq(Seq(Items)) /\ <<>> \in Seq(Text)
        BY <1>3, EmptySeq
      <3> HIDE DEF item
      <3> QED BY <1>1, <1>2, <1>8, <3>1 DEF Pump
    <2>2. Framed' = Framed + Len(buf2)
      BY <1>1, <1>3, <1>5, <2>1, Selects DEF Framed
    <2>3. OnWayOK'
      BY <1>1, <1>3, <1>4, <1>5, <2>1, <2>2, Selects, TextFollows DEF OnWayOK
    <2>4. PumpOK' /\ BufOK'
      BY <1>1, <1>5, <1>7, <2>1, Selects DEF PumpOK, BufOK
    <2>5. TypeOK'
      BY <1>1, <1>7, <2>1 DEF IInv, TypeOK
    <2> QED BY <1>6, <2>3, <2>4, <2>5 DEF IInv
  <1>9. CASE ~(Len(buf2) >= FlushAt)
    <2>1. /\ pump'.pc = "select" /\ pump'.todo = <<>> /\ pump'.buf = buf2
          /\ pump' \in Pump
      <3>1. <<>> \in Seq(Seq(Items))
        BY EmptySeq
      <3> HIDE DEF item
      <3> QED BY <1>1, <1>2, <1>3, <1>9, <3>1 DEF Pump
    <2>2. Framed' = Framed
      BY <1>1, <1>3, <1>5, <2>1, Selects DEF Framed
    <2>3. OnWayOK'
      <3>1. chan' \o pump'.todo = chan
        BY <1>1, <2>1, Selects, ConcatEmptySeq
      <3> QED BY <1>1, <1>5, <2>2, <3>1, Selects DEF OnWayOK
    <2>4. PumpOK'
      BY <1>1, <1>5, <1>7, <2>1 DEF PumpOK
    <2>5. BufOK'
      <3>1. read' - Len(buf2) = Framed /\ Len(buf2) <= read'
        BY <1>1, <1>3, Selects
      <3> QED BY <1>1, <1>4, <2>1, <3>1 DEF BufOK, Slice
    <2>6. TypeOK'
      BY <1>1, <1>7, <2>1 DEF IInv, TypeOK
    <2> QED BY <1>6, <2>3, <2>4, <2>5, <2>6 DEF IInv
  <1> QED BY <1>8, <1>9

\* What the pump must know of what it has read, for what it does next.
EndsAre(after) ==
    /\ after = "select" => \A k \in 1 .. read' : said[k] \notin Terminals
    /\ after = "abandon" => /\ worker.pc = "gone" /\ read' = Len(said)
                            /\ \A k \in 1 .. Len(said) : said[k] \notin Terminals

\* The pump is about to send the frames, and has no text left beside them.
Puts(frames, after) ==
    /\ pump' \in Pump
    /\ pump'.pc = "send" /\ pump'.todo = frames /\ pump'.buf = <<>> /\ pump'.then = after

\* The pump sends frames after which it has none of the text left: the items that whole2
\* has up to end.
LEMMA SendsAll ==
    ASSUME IInv, pump.pc = "select", NEW frames \in Seq(Seq(Items)), frames # <<>>,
           NEW after, Puts(frames, after),
           UNCHANGED <<conv, worker, said, kept, chan, client>>,
           read' \in Nat, read' <= Len(said),
           NEW whole2, Whole' = whole2, \A k \in 1 .. Len(said) : whole2[k] = said[k],
           Len(whole2) \in Nat, Len(said) <= Len(whole2),
           NEW framed \in Nat, Framed' = framed,
           client.there => /\ InOrder(chan \o frames, whole2, Len(Shown), framed)
                           /\ Alone(chan \o frames),
           EndsAre(after)
    PROVE  IInv'
  <1>2. /\ pump' \in Pump /\ pump'.pc = "send" /\ pump'.todo = frames /\ pump'.buf = <<>>
        /\ pump'.then = after
    BY DEF Puts
  <1>a. /\ read \in Nat /\ Len(said) \in Nat /\ Len(Shown) \in Nat
        /\ Whole = said
    BY Selects
  <1>3. read' \in 0 .. Len(said) /\ read' \in Nat
    BY <1>a
  <1>4. TypeOK'
    BY <1>2, <1>3 DEF IInv, TypeOK
  <1>5. WorkerOK'
    BY DEF IInv, WorkerOK
  <1>6. PumpOK'
    BY <1>2 DEF PumpOK, EndsAre
  <1>7. BufOK'
    <2>1. Len(pump'.buf) = 0
      BY <1>2, EmptySeq
    <2> QED BY <1>3, <2>1 DEF BufOK
  <1>8. ShownOK'
    <2>1. Shown' = Shown /\ Len(Shown) <= Len(said)
          /\ \A k \in 1 .. Len(Shown) : Shown[k] = said[k]
      BY <1>a DEF Shown, IInv, ShownOK
    <2>2. \A k \in 1 .. Len(Shown) : k \in 1 .. Len(said)
      BY <2>1, <1>a
    <2>3. Len(Shown) <= Len(whole2)
      BY <2>1, <1>a
    <2> QED BY <2>1, <2>2, <2>3 DEF ShownOK
  <1>9. OnWayOK'
    BY <1>2 DEF OnWayOK, Shown
  <1> QED BY <1>4, <1>5, <1>6, <1>7, <1>8, <1>9 DEF IInv

\* The collected text, in a frame if there is any, is framed up to what was read.
LEMMA FlushedFollows ==
    ASSUME IInv, pump.pc = "select"
    PROVE  /\ chan \o Flushed(pump.buf) \in Seq(Seq(Items)) /\ Flushed(pump.buf) \in Seq(Seq(Items))
           /\ client.there => /\ InOrder(chan \o Flushed(pump.buf), said, Len(Shown), read)
                              /\ Alone(chan \o Flushed(pump.buf))
  <1>1. CASE pump.buf = <<>>
    <2>1. Flushed(pump.buf) = <<>> /\ <<>> \in Seq(Seq(Items)) /\ chan \o <<>> = chan
      BY <1>1, Selects, ConcatEmptySeq, EmptySeq DEF Flushed
    <2>2. Framed = read
      BY <1>1, Selects
    <2> QED BY <2>1, <2>2, Selects
  <1>2. CASE pump.buf # <<>>
    <2>1. Flushed(pump.buf) = <<pump.buf>> /\ <<pump.buf>> \in Seq(Seq(Items))
      BY <1>2, Selects DEF Flushed
    <2>2. Len(pump.buf) > 0 /\ Framed + Len(pump.buf) = read
      BY <1>2, Selects, EmptySeq
    <2>3. Slice(pump.buf, said, Framed)
      BY <2>2, Selects DEF Slice, IInv, BufOK
    <2>4. chan \o <<pump.buf>> \in Seq(Seq(Items))
      BY <2>1, Selects, ConcatProperties
    <2>5. client.there => /\ InOrder(chan \o <<pump.buf>>, said, Len(Shown), read)
                          /\ Alone(chan \o <<pump.buf>>)
      BY <2>2, <2>3, Selects, TextFollows
    <2> QED BY <2>1, <2>4, <2>5
  <1> QED BY <1>1, <1>2

\* After the text comes a frame with one item.
LEMMA ItemFollows ==
    ASSUME IInv, pump.pc = "select", NEW item \in Items, NEW whole2,
           \A k \in 1 .. read : whole2[k] = said[k], whole2[read + 1] = item
    PROVE  /\ FramesFor(item) \in Seq(Seq(Items)) /\ FramesFor(item) # <<>>
           /\ client.there => /\ InOrder(chan \o FramesFor(item), whole2, Len(Shown), read + 1)
                              /\ Alone(chan \o FramesFor(item))
  <1> DEFINE frames == chan \o Flushed(pump.buf)
  <1>1. /\ frames \in Seq(Seq(Items)) /\ Flushed(pump.buf) \in Seq(Seq(Items))
        /\ chan \in Seq(Seq(Items)) /\ read \in Nat /\ Len(Shown) \in Nat
    BY FlushedFollows, Selects
  <1>2. <<item>> \in Seq(Items) /\ Len(<<item>>) = 1 /\ <<<<item>>>> \in Seq(Seq(Items))
    OBVIOUS
  <1>3. FramesFor(item) \in Seq(Seq(Items)) /\ FramesFor(item) # <<>>
    BY <1>1, <1>2 DEF FramesFor
  <1>4. chan \o FramesFor(item) = Append(frames, <<item>>)
    BY <1>1, <1>2 DEF FramesFor
  <1>5. Slice(<<item>>, whole2, read)
    BY <1>2 DEF Slice
  <1>6. ASSUME client.there
        PROVE  /\ InOrder(chan \o FramesFor(item), whole2, Len(Shown), read + 1)
               /\ Alone(chan \o FramesFor(item))
    <2>1. InOrder(frames, said, Len(Shown), read) /\ Alone(frames)
      BY <1>6, FlushedFollows
    <2> HIDE DEF frames
    <2>2. InOrder(frames, whole2, Len(Shown), read)
      BY <2>1, <1>1, InOrderLonger
    <2>3. InOrder(Append(frames, <<item>>), whole2, Len(Shown), read + 1)
      BY <2>2, <1>1, <1>2, <1>5, InOrderAppend
    <2>4. Alone(Append(frames, <<item>>))
      BY <2>1, <1>1, <1>2, AloneAppend
    <2> QED BY <2>3, <2>4, <1>4
  <1> QED BY <1>3, <1>6

LEMMA TickKeeps ==
    ASSUME IInv, Tick
    PROVE  IInv'
  <1>1. /\ pump.pc = "select" /\ Flushed(pump.buf) # <<>> /\ UNCHANGED read
        /\ UNCHANGED <<conv, worker, said, kept, chan, client>>
        /\ pump' = [pump EXCEPT !.pc = "send", !.todo = Flushed(pump.buf), !.buf = <<>>,
                                !.then = "select"]
    BY DEF Tick, TickFlushes, SendThen
  <1>2. pump \in Pump
    BY DEF IInv, TypeOK
  <1>3. Puts(Flushed(pump.buf), "select")
    <2>1. Flushed(pump.buf) \in Seq(Seq(Items)) /\ <<>> \in Seq(Text)
      BY <1>1, FlushedFollows, EmptySeq
    <2> QED BY <1>1, <1>2, <2>1 DEF Puts, Pump
  <1>a. read \in Nat /\ read <= Len(said) /\ Len(said) \in Nat
    BY <1>1, Selects
  <1>4. Whole' = said /\ Framed' = read
    <2>1. Len(pump'.buf) = 0
      BY <1>3, EmptySeq DEF Puts
    <2> QED BY <1>1, <1>3, <1>a, <2>1 DEF Whole, Framed, Puts
  <1>5. \A k \in 1 .. read : said[k] \notin Terminals
    BY <1>1, Selects DEF IInv, PumpOK
  <1>6. /\ Flushed(pump.buf) \in Seq(Seq(Items))
        /\ client.there => /\ InOrder(chan \o Flushed(pump.buf), said, Len(Shown), read)
                           /\ Alone(chan \o Flushed(pump.buf))
    BY <1>1, FlushedFollows
  <1>7. read' \in Nat /\ read' <= Len(said) /\ Framed' \in Nat
    BY <1>1, <1>4, <1>a
  <1>8. EndsAre("select")
    BY <1>1, <1>5 DEF EndsAre
  <1> QED
    BY <1>1, <1>3, <1>4, <1>6, <1>7, <1>8, <1>a, SendsAll

LEMMA TakeOtherKeeps ==
    ASSUME IInv, TakeOther
    PROVE  IInv'
  <1> DEFINE item == said[read + 1]
             after == IF item \in Terminals THEN "end" ELSE "select"
  <1>1. /\ pump.pc = "select" /\ read < Len(said) /\ read' = read + 1
        /\ UNCHANGED <<conv, worker, said, kept, chan, client>>
        /\ pump' = [pump EXCEPT !.pc = IF FramesFor(item) = <<>> THEN "select" ELSE "send",
                                !.todo = FramesFor(item), !.buf = <<>>, !.then = after]
    BY DEF TakeOther, SendThen
  <1>2. pump \in Pump /\ item \in Items
    BY <1>1, Selects DEF IInv, TypeOK
  <1>3. /\ FramesFor(item) \in Seq(Seq(Items)) /\ FramesFor(item) # <<>>
        /\ client.there => /\ InOrder(chan \o FramesFor(item), said, Len(Shown), read + 1)
                           /\ Alone(chan \o FramesFor(item))
    BY <1>1, <1>2, ItemFollows
  <1>4. Puts(FramesFor(item), after)
    <2>1. <<>> \in Seq(Text) /\ after \in {"select", "end", "abandon"}
      BY EmptySeq
    <2> HIDE DEF item, after
    <2> QED BY <1>1, <1>2, <1>3, <2>1 DEF Puts, Pump
  <1>a. read \in Nat /\ read <= Len(said) /\ Len(said) \in Nat
    BY <1>1, Selects
  <1>5. Whole' = said /\ Framed' = read + 1
    <2>1. Len(pump'.buf) = 0 /\ pump'.then # "abandon"
      BY <1>4, EmptySeq DEF Puts
    <2> QED BY <1>1, <1>a, <2>1 DEF Whole, Framed
  <1>6. after = "select" => \A k \in 1 .. read + 1 : said[k] \notin Terminals
    <2>1. \A k \in 1 .. read : said[k] \notin Terminals
      BY <1>1, Selects DEF IInv, PumpOK
    <2>2. \A k \in 1 .. read + 1 : k \in 1 .. read \/ k = read + 1
      BY <1>1, Selects
    <2> QED BY <2>1, <2>2
  <1>7. after \in {"select", "end", "abandon"} /\ after # "abandon" /\ read + 1 <= Len(said)
        /\ read + 1 \in Nat
    BY <1>1, <1>a
  <1>8. EndsAre(after)
    BY <1>1, <1>6, <1>7 DEF EndsAre
  <1> HIDE DEF after, item
  <1> QED
    BY <1>1, <1>3, <1>4, <1>5, <1>7, <1>8, <1>a, SendsAll

LEMMA TakeNoneKeeps ==
    ASSUME IInv, TakeNone
    PROVE  IInv'
  <1> DEFINE whole2 == Append(said, Broken)
  <1>1. /\ pump.pc = "select" /\ read = Len(said) /\ worker.pc = "gone"
        /\ pump' = [pump EXCEPT !.pc = "send", !.todo = FramesFor(Broken), !.buf = <<>>,
                                !.then = "abandon", !.armed = FALSE]
        /\ UNCHANGED <<conv, worker, said, read, kept, chan, client>>
    BY DEF TakeNone
  <1>2. pump \in Pump /\ Broken \in Items
    BY DEF IInv, TypeOK, Items, Terminals
  <1>3. /\ \A k \in 1 .. Len(said) : whole2[k] = said[k]
        /\ whole2[Len(said) + 1] = Broken /\ Len(whole2) = Len(said) + 1
    BY <1>1, <1>2, Selects
  <1> HIDE DEF whole2
  <1>4. /\ FramesFor(Broken) \in Seq(Seq(Items)) /\ FramesFor(Broken) # <<>>
        /\ client.there => /\ InOrder(chan \o FramesFor(Broken), whole2, Len(Shown), read + 1)
                           /\ Alone(chan \o FramesFor(Broken))
    BY <1>1, <1>2, <1>3, ItemFollows
  <1>5. Puts(FramesFor(Broken), "abandon")
    <2>1. <<>> \in Seq(Text)
      BY EmptySeq
    <2> QED BY <1>1, <1>2, <1>4, <2>1 DEF Puts, Pump
  <1>6. Whole' = whole2 /\ Framed' = read + 1
    BY <1>1, <1>5 DEF Whole, Framed, whole2, Puts
  <1>7. \A k \in 1 .. Len(said) : said[k] \notin Terminals
    BY <1>1, Selects DEF IInv, PumpOK
  <1>8. /\ read \in Nat /\ read <= Len(said) /\ read + 1 \in Nat
        /\ Len(said) <= Len(whole2) /\ Len(whole2) \in Nat
    BY <1>1, <1>3, Selects
  <1> QED
    <2>1. EndsAre("abandon")
      BY <1>1, <1>7 DEF EndsAre
    <2> QED BY <1>1, <1>3, <1>4, <1>5, <1>6, <1>8, <2>1, SendsAll

\* The response stream was dropped: the pump aborts the worker.
LEMMA NoticeLeftKeeps ==
    ASSUME IInv, NoticeLeft
    PROVE  IInv'
  <1>1. /\ pump.pc = "select" /\ ~client.there
        /\ pump' = [pump EXCEPT !.pc = "cancelled", !.armed = FALSE]
        /\ worker' = [worker EXCEPT !.cut = TRUE]
        /\ UNCHANGED <<conv, said, read, kept, chan, client>>
    BY DEF NoticeLeft, Notices
  <1>2. pump \in Pump /\ worker \in Worker
    BY DEF IInv, TypeOK
  <1>3. /\ pump' \in Pump /\ pump'.pc = "cancelled" /\ pump'.todo = pump.todo
        /\ pump'.buf = pump.buf /\ pump'.then = pump.then
        /\ worker' \in Worker /\ worker'.pc = worker.pc
    BY <1>1, <1>2 DEF Pump, Worker
  <1>4. TypeOK'
    BY <1>1, <1>3 DEF IInv, TypeOK
  <1>5. WorkerOK' /\ PumpOK' /\ BufOK'
    BY <1>1, <1>3 DEF IInv, WorkerOK, PumpOK, BufOK
  <1>6. Whole' = Whole /\ Framed' = Framed /\ Shown' = Shown
    BY <1>1, <1>3 DEF Whole, Framed, Shown
  <1>7. ShownOK' /\ OnWayOK'
    BY <1>1, <1>6 DEF IInv, ShownOK, OnWayOK
  <1> QED BY <1>4, <1>5, <1>7 DEF IInv

\* What lies between the worker's last word and the client.
LEMMA Between ==
    ASSUME IInv
    PROVE  /\ pump \in Pump /\ pump.todo \in Seq(Seq(Items)) /\ chan \in Seq(Seq(Items))
           /\ Shown \in Seq(Items) /\ Len(Shown) \in Nat
           /\ said \in Seq(Items) /\ Len(said) \in Nat /\ Whole \in Seq(Items)
           /\ Framed \in Nat /\ Framed <= Len(Whole) /\ Len(Whole) \in Nat
           /\ Len(pump.buf) \in Nat /\ Len(pump.todo) \in Nat
           /\ Len(said) <= Len(Whole) /\ Len(Whole) <= Len(said) + 1
           /\ pump.then # "abandon" => Whole = said
           /\ \A k \in 1 .. Len(said) : Whole[k] = said[k]
           /\ \A k \in 1 .. Len(Whole) : k > Len(said) => Whole[k] = Broken
  <1>1. /\ pump \in Pump /\ chan \in Seq(Seq(Items)) /\ said \in Seq(Items)
        /\ client \in [there : BOOLEAN, got : Seq(Items)] /\ read \in 0 .. Len(said)
    BY DEF IInv, TypeOK
  <1>2. pump.todo \in Seq(Seq(Items)) /\ pump.buf \in Seq(Text) /\ Shown \in Seq(Items)
    BY <1>1 DEF Pump, Shown
  <1>3. Len(said) \in Nat /\ Len(Shown) \in Nat /\ Len(pump.buf) \in Nat /\ Len(pump.todo) \in Nat
    BY <1>1, <1>2, LenProperties
  <1>4. Len(pump.buf) <= read
    BY DEF IInv, BufOK
  <1>5. CASE pump.then = "abandon"
    <2>1. Whole = Append(said, Broken) /\ Framed = Len(said) + 1 /\ Broken \in Items
      BY <1>5 DEF Whole, Framed, Items, Terminals
    <2>2. /\ Whole \in Seq(Items) /\ Len(Whole) = Len(said) + 1 /\ Whole[Len(said) + 1] = Broken
          /\ \A k \in 1 .. Len(said) : Whole[k] = said[k]
      BY <2>1, <1>1
    <2>3. \A k \in 1 .. Len(Whole) : k > Len(said) => Whole[k] = Broken
      BY <2>2, <1>3
    <2> QED BY <1>1, <1>2, <1>3, <1>5, <2>1, <2>2, <2>3
  <1>6. CASE pump.then # "abandon"
    <2>1. Whole = said /\ Framed = read - Len(pump.buf)
      BY <1>6 DEF Whole, Framed
    <2>2. Framed \in Nat /\ Framed <= Len(said)
      BY <2>1, <1>1, <1>3, <1>4
    <2>3. \A k \in 1 .. Len(said) : ~(k > Len(said))
      BY <1>3
    <2>4. Len(said) <= Len(said) + 1 /\ Len(said) <= Len(said)
      BY <1>3
    <2> QED BY <1>1, <1>2, <1>3, <2>1, <2>2, <2>3, <2>4
  <1> QED BY <1>5, <1>6

\* A frame crosses into the channel.
LEMMA SendFrameKeeps ==
    ASSUME IInv, SendFrame
    PROVE  IInv'
  <1> DEFINE pc2 == IF Len(pump.todo) > 1 THEN "send"
                    ELSE IF pump.then = "select" THEN "select" ELSE "gone"
             armed2 == pump.armed /\ (Len(pump.todo) > 1 \/ pump.then = "select")
  <1>1. /\ pump.pc = "send" /\ Len(chan) < Capacity
        /\ chan' = Append(chan, Head(pump.todo))
        /\ pump' = [pump EXCEPT !.todo = Tail(pump.todo), !.pc = pc2, !.armed = armed2]
        /\ UNCHANGED <<conv, worker, said, read, kept, client>>
    BY DEF SendFrame
  <1>2. pump.todo # <<>>
    BY <1>1 DEF IInv, PumpOK
  <1>3. /\ Head(pump.todo) \in Seq(Items) /\ Tail(pump.todo) \in Seq(Seq(Items))
        /\ Len(Tail(pump.todo)) = Len(pump.todo) - 1
        /\ Tail(pump.todo) # <<>> <=> Len(pump.todo) > 1
    <2>1. Len(pump.todo) > 0
      BY <1>2, Between, EmptySeq
    <2>2. Tail(pump.todo) \in Seq(Seq(Items)) /\ Len(Tail(pump.todo)) = Len(pump.todo) - 1
      BY <1>2, Between, HeadTailProperties
    <2>3. Head(pump.todo) \in Seq(Items)
      BY <1>2, Between, HeadTailProperties
    <2>4. Tail(pump.todo) # <<>> <=> Len(Tail(pump.todo)) # 0
      BY <2>2, EmptySeq
    <2>5. Len(pump.todo) \in Nat
      BY Between
    <2>6. \A n \in Nat : n > 0 => (n - 1 = 0 <=> ~(n > 1))
      OBVIOUS
    <2> HIDE DEF pc2, armed2
    <2> QED BY <2>1, <2>2, <2>3, <2>4, <2>5, <2>6, Zenon
  <1>4. /\ pc2 \in {"send", "select", "gone"} /\ armed2 \in BOOLEAN
        /\ pc2 = "send" <=> Len(pump.todo) > 1
        /\ pc2 = "select" => pump.then = "select"
    BY Between DEF Pump
  <1> HIDE DEF pc2, armed2
  <1>5. /\ pump' \in Pump /\ pump'.todo = Tail(pump.todo) /\ pump'.pc = pc2
        /\ pump'.buf = pump.buf /\ pump'.then = pump.then
    BY <1>1, <1>3, <1>4, Between DEF Pump
  <1>6. chan' \in Seq(Seq(Items)) /\ Len(chan') <= Capacity
    <2>1. chan' \in Seq(Seq(Items)) /\ Len(chan') = Len(chan) + 1 /\ Len(chan) \in Nat
      BY <1>1, <1>3, Between, AppendProperties, LenProperties
    <2> QED BY <2>1, <1>1, BoundsAssumption
  <1>7. TypeOK'
    BY <1>1, <1>5, <1>6 DEF IInv, TypeOK
  <1>8. WorkerOK' /\ PumpOK' /\ BufOK'
    BY <1>1, <1>3, <1>4, <1>5 DEF IInv, WorkerOK, PumpOK, BufOK
  <1>9. Whole' = Whole /\ Framed' = Framed /\ Shown' = Shown
    BY <1>1, <1>5 DEF Whole, Framed, Shown
  <1>10. chan' \o pump'.todo = chan \o pump.todo
    BY <1>1, <1>2, <1>5, Between, FrameCrosses
  <1>11. ShownOK' /\ OnWayOK'
    BY <1>1, <1>9, <1>10 DEF IInv, ShownOK, OnWayOK
  <1> QED BY <1>7, <1>8, <1>11 DEF IInv

\* What was to be sent is given up.
LEMMA SendFailsKeeps ==
    ASSUME IInv, SendFails
    PROVE  IInv'
  <1>1. /\ pump.pc = "send" /\ ~client.there
        /\ IF pump.then = "abandon"
           THEN /\ pump' = [pump EXCEPT !.pc = "gone", !.todo = <<>>]
                /\ UNCHANGED worker
           ELSE /\ pump' = [pump EXCEPT !.pc = "cancelled", !.todo = <<>>, !.armed = FALSE]
                /\ worker' = [worker EXCEPT !.cut = TRUE]
        /\ UNCHANGED <<conv, said, read, kept, chan, client>>
    BY DEF SendFails
  <1>2. pump \in Pump /\ worker \in Worker
    BY DEF IInv, TypeOK
  <1>3. /\ pump' \in Pump /\ pump'.pc \in {"gone", "cancelled"} /\ pump'.todo = <<>>
        /\ pump'.buf = pump.buf /\ pump'.then = pump.then
        /\ worker' \in Worker /\ worker'.pc = worker.pc
    <2>1. <<>> \in Seq(Seq(Items))
      BY EmptySeq
    <2> QED BY <1>1, <1>2, <2>1 DEF Pump, Worker
  <1>4. TypeOK'
    BY <1>1, <1>3 DEF IInv, TypeOK
  <1>5. WorkerOK' /\ PumpOK' /\ BufOK'
    BY <1>1, <1>3 DEF IInv, WorkerOK, PumpOK, BufOK
  <1>6. Whole' = Whole /\ Framed' = Framed /\ Shown' = Shown
    BY <1>1, <1>3 DEF Whole, Framed, Shown
  <1>7. ShownOK' /\ OnWayOK'
    BY <1>1, <1>6 DEF IInv, ShownOK, OnWayOK
  <1> QED BY <1>4, <1>5, <1>7 DEF IInv

LEMMA ReturnKeeps ==
    ASSUME IInv, Return
    PROVE  IInv'
  <1>1. /\ pump.pc = "cancelled" /\ pump' = [pump EXCEPT !.pc = "gone"]
        /\ UNCHANGED <<conv, worker, said, read, kept, chan, client>>
    BY DEF Return
  <1>2. pump \in Pump
    BY DEF IInv, TypeOK
  <1>3. /\ pump' \in Pump /\ pump'.pc = "gone" /\ pump'.todo = pump.todo
        /\ pump'.buf = pump.buf /\ pump'.then = pump.then
    BY <1>1, <1>2 DEF Pump
  <1>4. TypeOK'
    BY <1>1, <1>3 DEF IInv, TypeOK
  <1>5. WorkerOK' /\ PumpOK' /\ BufOK'
    BY <1>1, <1>3 DEF IInv, WorkerOK, PumpOK, BufOK
  <1>6. Whole' = Whole /\ Framed' = Framed /\ Shown' = Shown
    BY <1>1, <1>3 DEF Whole, Framed, Shown
  <1>7. ShownOK' /\ OnWayOK'
    BY <1>1, <1>3, <1>6 DEF IInv, ShownOK, OnWayOK
  <1> QED BY <1>4, <1>5, <1>7 DEF IInv

LEMMA PumpKeeps == ASSUME IInv, PumpSteps PROVE IInv'
  BY TakeTextKeeps, TakeOtherKeeps, TakeNoneKeeps, TickKeeps, NoticeLeftKeeps, SendFrameKeeps,
     SendFailsKeeps, ReturnKeeps DEF PumpSteps

(***************************************************************************)
(* The client                                                              *)
(***************************************************************************)
\* The frame that comes out of the channel goes on from what was shown.
LEMMA NextFrame ==
    ASSUME IInv, client.there, chan # <<>>
    PROVE  /\ Head(chan) \in Seq(Items) /\ Len(Head(chan)) \in Nat
           /\ Tail(chan) \in Seq(Seq(Items)) /\ Len(Tail(chan)) <= Capacity
           /\ Slice(Head(chan), Whole, Len(Shown))
           /\ Len(Shown) + Len(Head(chan)) <= Framed
           /\ InOrder(Tail(chan) \o pump.todo, Whole, Len(Shown) + Len(Head(chan)), Framed)
           /\ Alone(Tail(chan) \o pump.todo)
           /\ \A k \in 1 .. Len(Head(chan)) : Head(chan)[k] = Broken => Len(Head(chan)) = 1
  <1> DEFINE frames == chan \o pump.todo
  <1>1. /\ frames # <<>> /\ Head(frames) = Head(chan) /\ Tail(frames) = Tail(chan) \o pump.todo
    BY Between, FirstOfConcat
  <1>2. frames \in Seq(Seq(Items))
    BY Between, ConcatProperties
  <1>3. InOrder(frames, Whole, Len(Shown), Framed) /\ Alone(frames)
    BY DEF IInv, OnWayOK
  <1> HIDE DEF frames
  <1>4. /\ Slice(Head(frames), Whole, Len(Shown))
        /\ Len(Shown) + Len(Head(frames)) <= Framed
        /\ InOrder(Tail(frames), Whole, Len(Shown) + Len(Head(frames)), Framed)
    BY <1>1, <1>2, <1>3, Between, InOrderTail
  <1>5. /\ Alone(Tail(frames))
        /\ \A k \in 1 .. Len(Head(frames)) : Head(frames)[k] = Broken => Len(Head(frames)) = 1
    BY <1>1, <1>2, <1>3, AloneTail
  <1>6. /\ Head(chan) \in Seq(Items) /\ Len(Head(chan)) \in Nat
        /\ Tail(chan) \in Seq(Seq(Items))
    BY Between, HeadTailProperties, LenProperties
  <1>7. Len(Tail(chan)) <= Capacity
    <2>1. Len(Tail(chan)) = Len(chan) - 1 /\ Len(chan) \in Nat
      BY Between, HeadTailProperties, LenProperties
    <2>2. Len(chan) <= Capacity
      BY DEF IInv, TypeOK
    <2> QED BY <2>1, <2>2, BoundsAssumption
  <1> QED BY <1>1, <1>4, <1>5, <1>6, <1>7

LEMMA ReceiveKeeps ==
    ASSUME IInv, Receive
    PROVE  /\ IInv'
           /\ Len(Shown') = Len(Shown) + Len(Head(chan))
  <1>1. /\ client.there /\ chan # <<>>
        /\ client' = [client EXCEPT !.got = client.got \o Head(chan)]
        /\ chan' = Tail(chan)
        /\ UNCHANGED <<conv, worker, said, read, kept, pump>>
    BY DEF Receive
  <1>2. client \in [there : BOOLEAN, got : Seq(Items)]
    BY DEF IInv, TypeOK
  <1>3. /\ Shown' = Shown \o Head(chan) /\ client' \in [there : BOOLEAN, got : Seq(Items)]
    BY <1>1, <1>2, NextFrame, Between, ConcatProperties DEF Shown
  <1>4. /\ Len(Shown') = Len(Shown) + Len(Head(chan))
        /\ \A k \in 1 .. Len(Shown') : Shown'[k] = IF k <= Len(Shown) THEN Shown[k]
                                                   ELSE Head(chan)[k - Len(Shown)]
    <2>1. Shown \in Seq(Items) /\ Head(chan) \in Seq(Items)
      BY <1>1, NextFrame, Between
    <2>2. /\ Len(Shown \o Head(chan)) = Len(Shown) + Len(Head(chan))
          /\ \A k \in 1 .. Len(Shown) + Len(Head(chan)) :
               (Shown \o Head(chan))[k] = IF k <= Len(Shown) THEN Shown[k]
                                          ELSE Head(chan)[k - Len(Shown)]
      BY <2>1, ConcatProperties, Zenon
    <2> QED BY <1>3, <2>2, Zenon
  <1>5. Whole' = Whole /\ Framed' = Framed
    BY <1>1 DEF Whole, Framed
  <1>6. TypeOK'
    BY <1>1, <1>3, NextFrame DEF IInv, TypeOK
  <1>7. WorkerOK' /\ PumpOK' /\ BufOK'
    BY <1>1 DEF IInv, WorkerOK, PumpOK, BufOK
  <1>8. ShownOK'
    <2>1. Len(Shown') <= Len(Whole)
      BY <1>1, <1>4, NextFrame, Between
    <2>2. ASSUME NEW k \in 1 .. Len(Shown') PROVE Shown'[k] = Whole[k]
      <3>1. CASE k \in 1 .. Len(Shown)
        <4>1. Shown[k] = Whole[k] /\ k <= Len(Shown)
          BY <3>1, Between DEF IInv, ShownOK
        <4> QED BY <4>1, <1>4
      <3>2. CASE k \notin 1 .. Len(Shown)
        <4>1. /\ k - Len(Shown) \in 1 .. Len(Head(chan)) /\ ~(k <= Len(Shown))
              /\ Len(Shown) + (k - Len(Shown)) = k
          BY <3>2, <1>1, <1>4, NextFrame, Between
        <4>2. Slice(Head(chan), Whole, Len(Shown))
          BY <1>1, NextFrame
        <4> QED BY <4>1, <4>2, <1>4 DEF Slice
      <3> QED BY <3>1, <3>2
    <2> QED BY <2>1, <2>2, <1>5 DEF ShownOK
  <1>9. OnWayOK'
    BY <1>1, <1>4, <1>5, NextFrame DEF OnWayOK
  <1> QED BY <1>4, <1>6, <1>7, <1>8, <1>9 DEF IInv

LEMMA LeaveKeeps ==
    ASSUME IInv, Leave
    PROVE  IInv'
  <1>1. /\ client' = [client EXCEPT !.there = FALSE] /\ chan' = <<>>
        /\ UNCHANGED <<conv, worker, said, read, kept, pump>>
    BY DEF Leave
  <1>2. client \in [there : BOOLEAN, got : Seq(Items)]
    BY DEF IInv, TypeOK
  <1>3. /\ client' \in [there : BOOLEAN, got : Seq(Items)] /\ ~client'.there
        /\ client'.got = client.got
    BY <1>1, <1>2
  <1>4. chan' \in Seq(Seq(Items)) /\ Len(chan') <= Capacity
    BY <1>1, EmptySeq, BoundsAssumption
  <1>5. TypeOK'
    BY <1>1, <1>3, <1>4 DEF IInv, TypeOK
  <1>6. Whole' = Whole /\ Shown' = Shown
    BY <1>1, <1>3 DEF Whole, Shown
  <1>7. WorkerOK' /\ PumpOK' /\ BufOK' /\ ShownOK' /\ OnWayOK'
    BY <1>1, <1>3, <1>6 DEF IInv, WorkerOK, PumpOK, BufOK, ShownOK, OnWayOK
  <1> QED BY <1>5, <1>7 DEF IInv

(***************************************************************************)
(* The invariant holds                                                     *)
(***************************************************************************)
LEMMA InitKeeps == Init => IInv
  <1> SUFFICES ASSUME Init PROVE IInv
    OBVIOUS
  <1>1. /\ conv \in BOOLEAN /\ worker = [pc |-> "answer", cut |-> FALSE] /\ said = <<>> /\ read = 0
        /\ kept = [user |-> "no", ai |-> "no"]
        /\ pump = [pc |-> "select", buf |-> <<>>, todo |-> <<>>, then |-> "select", armed |-> TRUE]
        /\ chan = <<>> /\ client = [there |-> TRUE, got |-> <<>>]
    BY DEF Init
  <1>2. /\ <<>> \in Seq(Items) /\ <<>> \in Seq(Text) /\ <<>> \in Seq(Seq(Items))
        /\ Len(said) = 0 /\ Len(chan) = 0 /\ Len(pump.buf) = 0 /\ Len(Shown) = 0
    BY <1>1, EmptySeq DEF Shown
  <1>3. TypeOK
    BY <1>1, <1>2, BoundsAssumption DEF TypeOK, Worker, Pump
  <1>4. WorkerOK /\ PumpOK /\ BufOK
    BY <1>1, <1>2 DEF WorkerOK, PumpOK, BufOK
  <1>5. Whole = <<>> /\ Framed = 0
    <2>1. Framed = read - Len(pump.buf)
      BY <1>1 DEF Framed
    <2>2. Whole = <<>>
      BY <1>1 DEF Whole
    <2>3. Framed = 0
      BY <1>1, <1>2, <2>1
    <2> QED BY <2>2, <2>3
  <1>6. ShownOK
    BY <1>1, <1>2, <1>5 DEF ShownOK
  <1>7. OnWayOK
    <2>1. InOrder(<<>>, Whole, 0, 0)
      BY InOrderEmpty
    <2>2. chan \o pump.todo = <<>>
      BY <1>1, <1>2, ConcatEmptySeq
    <2>3. Alone(<<>>)
      BY <1>1, <1>2 DEF Alone
    <2> QED BY <1>2, <1>5, <2>1, <2>2, <2>3 DEF OnWayOK
  <1> QED BY <1>3, <1>4, <1>6, <1>7 DEF IInv

LEMMA NextKeeps == IInv /\ [Next]_vars => IInv'
  <1>1. ASSUME IInv, UNCHANGED vars PROVE IInv'
    <2>1. Whole' = Whole /\ Framed' = Framed /\ Shown' = Shown
      BY <1>1 DEF vars, Whole, Framed, Shown
    <2> QED BY <1>1, <2>1 DEF vars, IInv, TypeOK, WorkerOK, PumpOK, BufOK, ShownOK, OnWayOK
  <1> QED BY <1>1, WorkerKeeps, PumpKeeps, ReceiveKeeps, LeaveKeeps DEF Next

\* At any time what is shown is a beginning of what there is to read, the frames on
\* their way go on from it without a gap, and the collected text is what was read last.
THEOREM StreamInductive == Spec => []IInv
  BY InitKeeps, NextKeeps, PTL DEF Spec

\* The types of KbStream, with the channel never above its capacity.
THEOREM StreamTypes == Spec => []TypeOK
  <1>1. IInv => TypeOK
    BY DEF IInv
  <1> QED BY <1>1, StreamInductive, PTL

(***************************************************************************)
(* The end of an answer                                                    *)
(***************************************************************************)
LEMMA Settled == IInv => DoneIsSettled
  <1> SUFFICES ASSUME IInv, Over, Last(Shown) = Done, conv
               PROVE  "no" \notin {kept.user, kept.ai}
    BY DEF DoneIsSettled, IInv, WorkerOK
  <1>1. Shown \in Seq(Items) /\ Shown # <<>>
    BY Between DEF Over
  <1>2. Len(Shown) \in Nat \ {0}
    BY <1>1, EmptySeq
  <1>3. Shown[Len(Shown)] = Done /\ Done # Broken
    BY DEF Last, Done, Broken
  <1>4. Whole[Len(Shown)] = Done /\ Len(Shown) \in 1 .. Len(Whole)
    <2>1. Len(Shown) <= Len(Whole) /\ \A k \in 1 .. Len(Shown) : Shown[k] = Whole[k]
      BY DEF IInv, ShownOK
    <2>2. Len(Shown) \in 1 .. Len(Shown) /\ Len(Shown) \in 1 .. Len(Whole)
      BY <1>2, <2>1, Between
    <2> QED BY <1>3, <2>1, <2>2
  <1>5. Len(Shown) \in 1 .. Len(said)
    <2>1. ~(Len(Shown) > Len(said))
      BY <1>3, <1>4, Between
    <2> QED BY <1>2, <2>1, Between
  <1>6. said[Len(Shown)] = Done
    BY <1>4, <1>5, Between
  <1> QED BY <1>5, <1>6 DEF IInv, WorkerOK

\* A reader is told that the answer is complete only after both messages of the turn
\* were handed to the conversation, the question first.
THEOREM NothingAnnouncedEarly == Spec => []DoneIsSettled
  BY Settled, StreamInductive, PTL

(***************************************************************************)
(* The frames keep the promise of AnswerStream                             *)
(***************************************************************************)
\* The worker is gone and its last word was no end.
Lost == worker.pc = "gone" /\ (said = <<>> \/ Last(said) \notin {Done, Fail})

\* A worker that is there has said no end.
LEMMA NotEnded ==
    ASSUME IInv, worker.pc # "gone"
    PROVE  ~Promise!Ended(said) /\ ~Lost
  <1>1. ASSUME said # <<>> PROVE Last(said) \in Text \union {Meta}
    <2>1. Len(said) \in Nat \ {0}
      BY <1>1, Between, EmptySeq
    <2>2. said[Len(said)] \in Text \union {Meta}
      BY <2>1 DEF IInv, WorkerOK
    <2> QED BY <2>2 DEF Last
  <1>2. Done \notin Text \union {Meta} /\ Fail \notin Text \union {Meta} /\ Broken \notin Text \union {Meta}
    BY SMT DEF Text, Meta, Done, Fail, Broken
  <1> QED BY <1>1, <1>2 DEF Promise!Ended, Promise!Last, Last, Lost

LEMMA Stutters ==
    ASSUME said' = said, Lost' = Lost, Shown' = Shown
    PROVE  [Promise!Next]_Promise!promise
  BY DEF Promise!promise, Lost

\* The worker's steps: it says a word or an end, it is lost, or nothing is seen of it.
LEMMA WorkerRefines ==
    ASSUME IInv, WorkerSteps
    PROVE  [Promise!Next]_Promise!promise
  <1> USE DEF GoesTo
  <1>1. worker \in Worker /\ said \in Seq(Items)
    BY DEF IInv, TypeOK
  <1>2. ASSUME worker.pc # "gone", NEW item \in Text \union {Meta} \union {Done, Fail},
               said' = Append(said, item), client' = client, ~Lost'
        PROVE  Promise!Say
    <2>1. ~Promise!Ended(said) /\ ~Lost
      BY <1>2, NotEnded
    <2>2. Shown' = Shown
      BY <1>2 DEF Shown
    <2> QED BY <1>2, <2>1, <2>2 DEF Promise!Say, Lost
  <1>3. CASE Say
    <2>1. PICK item \in Text \union {Meta} : said' = Append(said, item)
      <3>1. CASE said = <<>>
        BY <1>3, <3>1 DEF Say
      <3>2. CASE said # <<>>
        <4>1. Len(said) \in 1 .. Pieces
          BY <1>3, <3>2, Between, EmptySeq, BoundsAssumption DEF Say
        <4>2. <<"delta", Len(said)>> \in Text
          BY <4>1 DEF Text
        <4> QED BY <1>3, <3>2, <4>2 DEF Say
      <3> QED BY <3>1, <3>2
    <2>2. worker.pc = "answer" /\ ~Lost' /\ client' = client
      BY <1>3 DEF Say, Lost
    <2> QED BY <1>2, <2>1, <2>2 DEF Promise!Next
  <1>4. CASE Fails \/ Finish
    <2>1. PICK item \in {Done, Fail} : said' = Append(said, item)
      BY <1>4 DEF Fails, Finish
    <2>2. worker.pc # "gone" /\ client' = client
      BY <1>4 DEF Fails, Finish, Announces
    <2>3. Last(said') = item /\ said' # <<>>
      <3>1. item \in Items
        BY DEF Items, Terminals
      <3> QED BY <1>1, <2>1, <3>1, AppendProperties DEF Last
    <2>4. ~Lost'
      BY <2>3 DEF Lost
    <2> QED BY <1>2, <2>1, <2>2, <2>4 DEF Promise!Next
  <1>5. CASE Answered \/ Panics \/ Check \/ SaveUser \/ SaveAi \/ Cut
    <2>1. /\ worker.pc # "gone" /\ said' = said /\ client' = client
      BY <1>1, <1>5 DEF Answered, Panics, Check, SaveUser, SaveAi, Save, Cut
    <2>2. ~Promise!Ended(said) /\ ~Lost /\ Shown' = Shown
      BY <2>1, NotEnded DEF Shown
    <2>3. CASE worker'.pc = "gone"
      <3>1. Lost'
        BY <2>1, <2>2, <2>3 DEF Lost, Promise!Ended, Promise!Last, Last
      <3> QED BY <2>1, <2>2, <3>1 DEF Lost, Promise!Lose, Promise!Next
    <2>4. CASE worker'.pc # "gone"
      <3>1. ~Lost'
        BY <2>4 DEF Lost
      <3> QED BY <2>1, <2>2, <3>1, Stutters DEF Lost
    <2> QED BY <2>3, <2>4
  <1> QED BY <1>3, <1>4, <1>5 DEF WorkerSteps

\* Of the pump nothing is seen but what the client receives.
LEMMA PumpRefines ==
    ASSUME IInv, PumpSteps \/ Leave
    PROVE  [Promise!Next]_Promise!promise
  <1>1. worker \in Worker /\ client \in [there : BOOLEAN, got : Seq(Items)]
    BY DEF IInv, TypeOK
  <1>2. said' = said /\ worker'.pc = worker.pc
    BY <1>1 DEF PumpSteps, TakeText, TakeOther, TakeNone, Tick, SendThen, NoticeLeft, SendFrame,
                SendFails, Return, Leave, Worker
  <1>3. client'.got = client.got
    BY <1>1 DEF PumpSteps, TakeText, TakeOther, TakeNone, Tick, SendThen, NoticeLeft, SendFrame,
                SendFails, Return, Leave
  <1> QED BY <1>2, <1>3, Stutters DEF Lost, Shown

\* A frame shows some more of what was said; one that goes beyond it is the error frame
\* of a lost worker, after everything it said.
LEMMA ReceiveRefines ==
    ASSUME IInv, Receive
    PROVE  [Promise!Next]_Promise!promise
  <1> DEFINE n == Len(Shown')
  <1>1. /\ client.there /\ chan # <<>> /\ client' = [client EXCEPT !.got = client.got \o Head(chan)]
        /\ UNCHANGED <<conv, worker, said, read, kept, pump>>
    BY DEF Receive
  <1>2. IInv' /\ n = Len(Shown) + Len(Head(chan))
    BY ReceiveKeeps
  <1>3. Shown' \in Seq(Items) /\ n \in Nat /\ Whole' = Whole /\ Lost' = Lost
    <2>1. Shown' \in Seq(Items)
      BY <1>2 DEF IInv, TypeOK, Shown
    <2>2. n \in Nat
      BY <2>1, LenProperties
    <2> QED BY <1>1, <2>1, <2>2 DEF Whole, Lost
  <1>4. n <= Len(Whole) /\ \A k \in 1 .. n : Shown'[k] = Whole[k]
    BY <1>2, <1>3 DEF IInv, ShownOK
  <1>5. /\ Head(chan) \in Seq(Items) /\ Len(Head(chan)) \in Nat /\ Len(Head(chan)) > 0
        /\ Slice(Head(chan), Whole, Len(Shown))
        /\ \A k \in 1 .. Len(Head(chan)) : Head(chan)[k] = Broken => Len(Head(chan)) = 1
    BY <1>1, NextFrame DEF Slice
  <1>6. Len(Shown) < n
    BY <1>2, <1>5, Between
  <1> HIDE DEF n
  <1>7. CASE n <= Len(said)
    <2>1. \A k \in 1 .. n : Shown'[k] = said[k]
      BY <1>3, <1>4, <1>7, Between
    <2>2. SubSeq(said, 1, n) \in Seq(Items) /\ Len(SubSeq(said, 1, n)) = n
          /\ \A k \in 1 .. n : SubSeq(said, 1, n)[k] = said[k]
      BY <1>3, <1>7, Between
    <2>3. Shown' = SubSeq(said, 1, n)
      BY <1>3, <2>1, <2>2, SeqEqual DEF n
    <2>4. n \in Len(Shown) + 1 .. Len(said) /\ Len(Shown) < Len(said)
      BY <1>3, <1>6, <1>7, Between
    <2> QED BY <1>1, <1>3, <2>3, <2>4 DEF Promise!Show, Promise!Next, Lost
  <1>8. CASE ~(n <= Len(said))
    <2>1. n = Len(said) + 1 /\ Len(Whole) = Len(said) + 1
      BY <1>3, <1>4, <1>8, Between
    <2>2. pump.then = "abandon" /\ Whole[n] = Broken
      <3>1. pump.then = "abandon"
        BY <1>3, <1>4, <1>8, Between
      <3>2. n \in 1 .. Len(Whole) /\ n > Len(said)
        BY <2>1, Between
      <3> QED BY <3>1, <3>2, Between
    <2>3. Head(chan)[Len(Head(chan))] = Broken
      <3>1. Len(Head(chan)) \in 1 .. Len(Head(chan)) /\ Len(Shown) + Len(Head(chan)) = n
        BY <1>2, <1>5 DEF n
      <3> QED BY <1>5, <2>2, <3>1 DEF Slice
    <2>4. Len(Head(chan)) = 1 /\ Head(chan)[1] = Broken
      BY <1>5, <2>3
    <2>5. Len(Shown) = Len(said)
      <3>1. Len(said) + 1 = Len(Shown) + 1
        BY <1>2, <2>1, <2>4 DEF n
      <3> QED BY <3>1, Between
    <2>6. Shown = said
      <3>1. \A k \in 1 .. Len(said) : Shown[k] = said[k]
        BY <2>5, Between DEF IInv, ShownOK
      <3> QED BY <2>5, <3>1, Between, SeqEqual
    <2>7. Shown' = Append(said, Broken)
      <3>1. Head(chan) = <<Broken>>
        BY <1>5, <2>4
      <3>2. Shown' = Shown \o <<Broken>>
        <4>1. client \in [there : BOOLEAN, got : Seq(Items)]
          BY DEF IInv, TypeOK
        <4> QED BY <1>1, <3>1, <4>1 DEF Shown
      <3>3. Broken \in Items
        BY DEF Items, Terminals
      <3> QED BY <2>6, <3>2, <3>3, Between, AppendIsConcat
    <2>8. Lost
      <3>1. worker.pc = "gone" /\ \A k \in 1 .. Len(said) : said[k] \notin Terminals
        BY <2>2 DEF IInv, PumpOK
      <3>2. ASSUME said # <<>> PROVE Last(said) \notin {Done, Fail}
        <4>1. Len(said) \in Nat \ {0}
          BY <3>2, Between, EmptySeq
        <4>2. said[Len(said)] \notin Terminals
          BY <3>1, <4>1
        <4> QED BY <4>2 DEF Last, Terminals
      <3> QED BY <3>1, <3>2 DEF Lost
    <2> QED BY <1>1, <1>3, <2>6, <2>7, <2>8 DEF Promise!ShowBroken, Promise!Next, Lost
  <1> QED BY <1>7, <1>8

LEMMA InitRefines == Init => Promise!Init
  BY DEF Init, Promise!Init, Shown

LEMMA NextRefines == IInv /\ [Next]_vars => [Promise!Next]_Promise!promise
  <1>1. ASSUME UNCHANGED vars PROVE [Promise!Next]_Promise!promise
    BY <1>1, Stutters DEF vars, Lost, Shown
  <1> QED BY <1>1, WorkerRefines, PumpRefines, ReceiveRefines DEF Next

\* Through the collecting, the channel and a client that may leave, what is shown is what
\* AnswerStream promises: in order, without gaps, with one end, and an error frame for a
\* worker that vanished only after all it said.
THEOREM PromiseKept == Spec => KeepsPromise
  BY InitRefines, NextRefines, StreamInductive, PTL DEF Spec, KeepsPromise, Promise!Spec

(***************************************************************************)
(* A worker without a reader                                               *)
(***************************************************************************)
\* What the pump knows of the worker when it is about to return: it was aborted, or it has
\* said its last word.
StopOK ==
    /\ pump.then = "end" => worker.pc = "gone"
    /\ pump.pc = "cancelled" => worker.cut
    /\ Closed => worker.cut \/ worker.pc = "gone"

\* No worker asks the model for nobody: on every way out of pump_sse, the failed sends
\* included, the worker has ended or its AbortHandle was used.
NoOrphan == Closed => worker.cut \/ worker.pc = "gone"

\* A worker that comes to its check after the pump has returned does not go on to save the
\* turn (the second half of LeavingStopsTheWorker).
UnreadIsUnsaved ==
    [][Closed /\ worker.pc \in {"answer", "check"} => worker'.pc \notin {"user", "ai"}]_vars

\* The worker's own steps undo no abort and leave the pump alone.
LEMMA WorkerStops == ASSUME IInv, StopOK, WorkerSteps PROVE StopOK'
  <1>1. worker \in Worker
    BY DEF IInv, TypeOK
  <1>2. pump' = pump /\ worker'.cut = worker.cut /\ (worker.pc = "gone" => worker'.pc = "gone")
    <2>1. CASE Say \/ Answered \/ Fails \/ Panics
      BY <1>1, <2>1 DEF Say, Answered, Fails, Panics, GoesTo, Worker
    <2>2. CASE Check
      BY <1>1, <2>2 DEF Check, AfterCheck, GoesTo, Worker
    <2>3. CASE SaveUser \/ SaveAi
      BY <1>1, <2>3 DEF SaveUser, SaveAi, Save, GoesTo, Worker
    <2>4. CASE Finish \/ Cut
      BY <1>1, <2>4 DEF Finish, Announces, Cut, GoesTo, Worker
    <2> QED BY <2>1, <2>2, <2>3, <2>4 DEF WorkerSteps
  <1> QED BY <1>2 DEF StopOK, Closed

\* The pump takes the last word of a worker only when that has ended, and aborts it
\* before it returns without one.
LEMMA PumpStops == ASSUME IInv, StopOK, PumpSteps PROVE StopOK'
  <1>1. worker \in Worker /\ pump \in Pump /\ PumpOK /\ WorkerOK /\ read \in 0 .. Len(said)
        /\ Len(said) \in Nat
    BY DEF IInv, TypeOK
  <1>2. CASE TakeText \/ Tick
    <2>1. pump.then = "select" /\ worker' = worker
      BY <1>1, <1>2 DEF TakeText, Tick, PumpOK, SendThen
    <2>2. pump'.then = "select" /\ pump'.pc \in {"select", "send"}
      BY <1>1, <1>2 DEF TakeText, Tick, SendThen, Pump
    <2> QED BY <2>1, <2>2 DEF StopOK, Closed
  <1>3. CASE TakeOther
    <2>1. worker' = worker /\ pump'.pc \in {"select", "send"}
          /\ (pump'.then = "end" => said[read + 1] \in Terminals)
      BY <1>1, <1>3 DEF TakeOther, SendThen, Pump
    <2>2. read + 1 \in 1 .. Len(said)
      BY <1>1, <1>3 DEF TakeOther
    <2>3. said[read + 1] \in Terminals => said[read + 1] \notin Text \union {Meta}
      BY DEF Terminals, Text, Meta, Done, Fail, Broken
    <2>4. pump'.then = "end" => worker.pc = "gone"
      BY <1>1, <2>1, <2>2, <2>3 DEF WorkerOK
    <2> QED BY <2>1, <2>4 DEF StopOK, Closed
  <1>4. CASE TakeNone
    BY <1>1, <1>4 DEF TakeNone, StopOK, Closed, Pump
  <1>5. CASE NoticeLeft
    BY <1>1, <1>5 DEF NoticeLeft, StopOK, Closed, Pump, Worker, PumpOK
  <1>6. CASE SendFrame
    <2>1. worker' = worker /\ pump'.then = pump.then /\ pump'.pc \in {"select", "send", "gone"}
          /\ (pump'.pc = "gone" => pump.then # "select")
      BY <1>1, <1>6 DEF SendFrame, Pump
    <2>2. pump.then \in {"select", "end", "abandon"}
      BY <1>1 DEF Pump
    <2> QED BY <1>1, <2>1, <2>2 DEF StopOK, Closed, PumpOK
  <1>7. CASE SendFails
    BY <1>1, <1>7 DEF SendFails, StopOK, Closed, Pump, Worker, PumpOK
  <1>8. CASE Return
    BY <1>1, <1>8 DEF Return, StopOK, Closed, Pump
  <1> QED BY <1>2, <1>3, <1>4, <1>5, <1>6, <1>7, <1>8 DEF PumpSteps

LEMMA AlwaysStops == Spec => []StopOK
  <1>1. Init => StopOK
    BY DEF Init, StopOK, Closed
  <1>2. IInv /\ StopOK /\ [Next]_vars => StopOK'
    <2>1. ASSUME StopOK, UNCHANGED <<worker, pump>> PROVE StopOK'
      BY <2>1 DEF StopOK, Closed
    <2> QED BY <2>1, WorkerStops, PumpStops DEF Next, Receive, Leave, vars
  <1> QED BY <1>1, <1>2, StreamInductive, PTL DEF Spec

\* When pump_sse has returned, its worker has ended or is aborted.
THEOREM NobodyIsServedInVain == Spec => []NoOrphan
  <1>1. StopOK => NoOrphan
    BY DEF StopOK, NoOrphan
  <1> QED BY <1>1, AlwaysStops, PTL

\* A turn that nobody waits for any more is not begun to be saved.
THEOREM NobodyReadsNothingSaved == Spec => UnreadIsUnsaved
  <1>1. ASSUME IInv, [Next]_vars, Closed, worker.pc \in {"answer", "check"}
        PROVE  worker'.pc \notin {"user", "ai"}
    <2>1. worker \in Worker
      BY <1>1 DEF IInv, TypeOK
    <2>2. CASE Say \/ Answered \/ Fails \/ Panics \/ SaveUser \/ SaveAi \/ Finish \/ Cut
      BY <1>1, <2>1, <2>2 DEF Say, Answered, Fails, Panics, SaveUser, SaveAi, Finish, Announces, Cut,
         GoesTo, Worker
    <2>3. CASE Check
      BY <1>1, <2>1, <2>3 DEF Check, AfterCheck, GoesTo, Worker
    <2>4. CASE PumpSteps \/ Receive \/ Leave \/ UNCHANGED vars
      <3>1. worker' = worker \/ worker' = [worker EXCEPT !.cut = TRUE]
        BY <2>4 DEF PumpSteps, TakeText, TakeOther, TakeNone, Tick, SendThen, NoticeLeft, SendFrame,
           SendFails, Return, Receive, Leave, vars
      <3> QED BY <1>1, <2>1, <3>1 DEF Worker
    <2> QED BY <1>1, <2>2, <2>3, <2>4 DEF Next, WorkerSteps
  <1>2. IInv /\ [Next]_vars =>
          [Closed /\ worker.pc \in {"answer", "check"} => worker'.pc \notin {"user", "ai"}]_vars
    BY <1>1
  <1> QED BY <1>2, StreamInductive, PTL DEF Spec, UnreadIsUnsaved

=============================================================================
