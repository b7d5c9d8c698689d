------------------------- MODULE UploadGate_proofs -------------------------
(***************************************************************************)
(* Proofs about the upload gate, for any number of handlers, permits,      *)
(* places in the queue and documents to recover.                           *)
(***************************************************************************)
EXTENDS UploadGate, FiniteSetTheorems, SequenceTheorems, TLAPS

\* TypeOK without the bounds that only the counting arguments give.
Shape ==
    /\ permits \in Nat
    /\ queue \in Seq(Tasks)
    /\ granted \in SUBSET Tasks
    /\ waiting \in Int
    /\ pc \in [Tasks -> Steps]
    /\ pc[Recovery] \in {"idle", "read", "wait", "hold"}
    /\ jobs \in Nat
    /\ stuck \in 0 .. MaxStuck
    /\ pc[Recovery] # "idle" => stuck > 0
    /\ lost \in 0 .. MaxLost

\* The element at i is gone from the queue, the others keep their order.
Dropped(i) ==
    /\ Len(queue') = Len(queue) - 1
    /\ \A j \in 1 .. Len(queue) - 1 :
          queue'[j] = IF j < i THEN queue[j] ELSE queue[j + 1]

\* Typed state is shaped.
LEMMA TypeShape == TypeOK => Shape
BY PermitsAssumption DEF TypeOK, Shape

\* The sets the invariants count are finite.
LEMMA FiniteSets ==
    ASSUME Shape
    PROVE  /\ IsFiniteSet(Tasks)
           /\ IsFiniteSet(granted) /\ Cardinality(granted) \in Nat
           /\ IsFiniteSet(Holding) /\ Cardinality(Holding) \in Nat
           /\ IsFiniteSet(Counted) /\ Cardinality(Counted) \in Nat
           /\ IsFiniteSet(Admitted) /\ Cardinality(Admitted) \in Nat
<1>1. IsFiniteSet(Tasks)
  BY UploadsAssumption, FS_AddElement DEF Tasks
<1>2. /\ granted \in SUBSET Tasks /\ Holding \in SUBSET Tasks
      /\ Counted \in SUBSET Tasks /\ Admitted \in SUBSET Tasks
  BY DEF Shape, Holding, Counted, Admitted, Tasks
<1>3. /\ IsFiniteSet(granted) /\ IsFiniteSet(Holding)
      /\ IsFiniteSet(Counted) /\ IsFiniteSet(Admitted)
  BY <1>1, <1>2, FS_Subset
<1>4. QED
  BY <1>1, <1>3, FS_CardinalityType

\* The steps at which a task is in one of the sets the invariants count.
HoldSteps == {"uncount", "hold"}
CountSteps == {"full", "enqueue", "wait", "uncount", "timedout"}
AdmitSteps == {"enqueue", "wait", "uncount", "timedout"}

One(b) == IF b THEN 1 ELSE 0

\* Putting an element in a set, or taking it out, changes the size by one.
LEMMA SizeChange ==
    ASSUME NEW S, IsFiniteSet(S), NEW q, NEW T, NEW b \in BOOLEAN,
           T = IF b THEN S \union {q} ELSE S \ {q}
    PROVE  Cardinality(T) = Cardinality(S) - One(q \in S) + One(b)
<1>1. Cardinality(S) \in Nat
  BY FS_CardinalityType
<1>2. CASE b
  <2>1. Cardinality(T) = IF q \in S THEN Cardinality(S) ELSE Cardinality(S) + 1
    BY <1>2, FS_AddElement
  <2>2. QED
    BY <1>1, <1>2, <2>1 DEF One
<1>3. CASE ~b
  <2>1. Cardinality(T) = IF q \in S THEN Cardinality(S) - 1 ELSE Cardinality(S)
    BY <1>3, FS_RemoveElement
  <2>2. QED
    BY <1>1, <1>3, <2>1 DEF One
<1>4. QED
  BY <1>2, <1>3

\* What a change of a task's step does to the number of tasks with a file.
LEMMA GotoHolding ==
    ASSUME Shape, NEW q \in Tasks, NEW step \in Steps, Goto(q, step)
    PROVE  Cardinality(Holding') =
             Cardinality(Holding) - One(pc[q] \in HoldSteps) + One(step \in HoldSteps)
<1>1. Holding' = IF step \in HoldSteps THEN Holding \union {q} ELSE Holding \ {q}
  BY DEF Shape, Goto, Holding, HoldSteps
<1>2. IsFiniteSet(Holding) /\ (step \in HoldSteps) \in BOOLEAN
  BY FiniteSets
<1>3. Cardinality(Holding') = Cardinality(Holding) - One(q \in Holding) + One(step \in HoldSteps)
  BY ONLY <1>1, <1>2, SizeChange
<1>4. q \in Holding <=> pc[q] \in HoldSteps
  BY DEF Holding, HoldSteps
<1>5. QED
  BY <1>3, <1>4 DEF One

\* A change of a handler's step, and the handlers inside upload_permit's wait.
LEMMA GotoCounted ==
    ASSUME Shape, NEW q \in Uploads, NEW step \in Steps, Goto(q, step)
    PROVE  /\ Cardinality(Counted') =
                Cardinality(Counted) - One(pc[q] \in CountSteps) + One(step \in CountSteps)
           /\ Cardinality(Admitted') =
                Cardinality(Admitted) - One(pc[q] \in AdmitSteps) + One(step \in AdmitSteps)
<1>1. \A r \in Uploads : pc'[r] = IF r = q THEN step ELSE pc[r]
  BY DEF Shape, Goto, Tasks
<1>2. Counted' = IF step \in CountSteps THEN Counted \union {q} ELSE Counted \ {q}
  BY <1>1 DEF Counted, CountSteps
<1>3. Admitted' = IF step \in AdmitSteps THEN Admitted \union {q} ELSE Admitted \ {q}
  BY <1>1 DEF Admitted, Counted, AdmitSteps
<1>4. /\ IsFiniteSet(Counted) /\ (step \in CountSteps) \in BOOLEAN
      /\ IsFiniteSet(Admitted) /\ (step \in AdmitSteps) \in BOOLEAN
  BY FiniteSets
<1>5. Cardinality(Counted') = Cardinality(Counted) - One(q \in Counted) + One(step \in CountSteps)
  BY ONLY <1>2, <1>4, SizeChange
<1>6. Cardinality(Admitted') = Cardinality(Admitted) - One(q \in Admitted) + One(step \in AdmitSteps)
  BY ONLY <1>3, <1>4, SizeChange
<1>7. /\ q \in Counted <=> pc[q] \in CountSteps
      /\ q \in Admitted <=> pc[q] \in AdmitSteps
  BY DEF Counted, Admitted, CountSteps, AdmitSteps
<1>8. QED
  BY <1>5, <1>6, <1>7 DEF One

\* Recovery is not counted.
LEMMA RecoveryUncounted ==
    ASSUME Shape, NEW step \in Steps, Goto(Recovery, step)
    PROVE  Counted' = Counted /\ Admitted' = Admitted
BY UploadsAssumption DEF Shape, Goto, Tasks, Counted, Admitted

\* Removing the element at i, as the code that abandons a waiter does.
LEMMA DropAt ==
    ASSUME Shape, NEW i \in DOMAIN queue,
           queue' = SubSeq(queue, 1, i - 1) \o SubSeq(queue, i + 1, Len(queue))
    PROVE  queue' \in Seq(Tasks) /\ Dropped(i)
<1> DEFINE n == Len(queue)
           a == SubSeq(queue, 1, i - 1)
           b == SubSeq(queue, i + 1, n)
<1>1. queue \in Seq(Tasks) /\ n \in Nat /\ i \in 1 .. n
  BY LenProperties DEF Shape
<1>2. \A j \in 1 .. n : queue[j] \in Tasks
  BY <1>1, ElementOfSeq
<1>3. /\ a \in Seq(Tasks)
      /\ Len(a) = i - 1
      /\ \A j \in 1 .. i - 1 : a[j] = queue[j]
  <2>1. i - 1 \in Int /\ \A j \in 1 .. i - 1 : queue[j] \in Tasks
    BY <1>1, <1>2
  <2>2. /\ a \in Seq(Tasks)
        /\ Len(a) = IF 1 <= i - 1 THEN (i - 1) - 1 + 1 ELSE 0
        /\ \A j \in 1 .. (i - 1) - 1 + 1 : a[j] = queue[1 + j - 1]
    BY <2>1, SubSeqProperties
  <2>3. QED
    BY <1>1, <2>2
<1>4. /\ b \in Seq(Tasks)
      /\ Len(b) = n - i
      /\ \A j \in 1 .. n - i : b[j] = queue[i + j]
  <2>1. i + 1 \in Int /\ n \in Int /\ \A j \in (i + 1) .. n : queue[j] \in Tasks
    BY <1>1, <1>2
  <2>2. /\ b \in Seq(Tasks)
        /\ Len(b) = IF i + 1 <= n THEN n - (i + 1) + 1 ELSE 0
        /\ \A j \in 1 .. n - (i + 1) + 1 : b[j] = queue[(i + 1) + j - 1]
    BY <2>1, SubSeqProperties
  <2>3. QED
    BY SMTT(30), <1>1, <2>2
<1> HIDE DEF a, b
<1>5. /\ a \o b \in Seq(Tasks)
      /\ Len(a \o b) = Len(a) + Len(b)
      /\ \A j \in 1 .. Len(a) + Len(b) :
            (a \o b)[j] = IF j <= Len(a) THEN a[j] ELSE b[j - Len(a)]
  BY <1>3, <1>4, ConcatProperties
<1>6. ASSUME NEW j \in 1 .. n - 1
      PROVE  (a \o b)[j] = IF j < i THEN queue[j] ELSE queue[j + 1]
  <2>1. Len(a) + Len(b) = n - 1 /\ j \in 1 .. Len(a) + Len(b)
    <3>1. Len(a) = i - 1 /\ Len(b) = n - i
      BY <1>3, <1>4
    <3>2. Len(a) + Len(b) = n - 1
      BY <1>1, <3>1
    <3>3. QED
      BY <1>6, <3>2
  <2>2. CASE j < i
    <3>1. j \in 1 .. i - 1 /\ j <= Len(a)
      BY <1>1, <1>3, <1>6, <2>2
    <3>2. (a \o b)[j] = a[j]
      BY <1>5, <2>1, <3>1
    <3>3. QED
      BY <1>3, <2>2, <3>1, <3>2
  <2>3. CASE ~(j < i)
    <3>1. j - Len(a) \in 1 .. n - i /\ i + (j - Len(a)) = j + 1 /\ ~(j <= Len(a))
      BY SMTT(30), <1>1, <1>3, <2>3
    <3>2. (a \o b)[j] = b[j - Len(a)]
      BY <1>5, <2>1, <3>1
    <3>3. QED
      BY <1>4, <2>3, <3>1, <3>2
  <2>4. QED
    BY <2>2, <2>3
<1>7. queue' = a \o b
  BY DEF a, b
<1>8. Len(a \o b) = n - 1
  BY <1>1, <1>3, <1>4, <1>5
<1>9. QED
  BY <1>5, <1>6, <1>7, <1>8 DEF Dropped

\* Removing the first element, as a permit handed over does.
LEMMA DropHead ==
    ASSUME Shape, queue # <<>>, queue' = Tail(queue)
    PROVE  /\ queue' \in Seq(Tasks) /\ Dropped(1)
           /\ Len(queue) \in Nat \ {0}
           /\ Head(queue) = queue[1] /\ queue[1] \in Tasks
<1>1. queue \in Seq(Tasks) /\ Len(queue) \in Nat \ {0}
  BY EmptySeq DEF Shape
<1>2. /\ Tail(queue) \in Seq(Tasks) /\ Len(Tail(queue)) = Len(queue) - 1
      /\ \A i \in 1 .. Len(Tail(queue)) : Tail(queue)[i] = queue[i + 1]
  BY <1>1, HeadTailProperties
<1>3. Dropped(1)
  BY <1>1, <1>2 DEF Dropped
<1>4. Head(queue) = queue[1] /\ queue[1] \in Tasks
  BY <1>1, ElementOfSeq
<1>5. QED
  BY <1>1, <1>2, <1>3, <1>4

\* A dropped permit is counted once: it is free, or the first waiter has it.
LEMMA PassOnGate ==
    ASSUME Shape, QueueWellFormed, NEW others \in SUBSET granted, PassOn(others)
    PROVE  /\ permits' \in Nat
           /\ queue' \in Seq(Tasks)
           /\ granted' \in SUBSET Tasks
           /\ permits' + Cardinality(granted') = permits + Cardinality(others) + 1
           /\ \/ queue = <<>> /\ queue' = <<>> /\ granted' = others
              \/ /\ Len(queue) \in Nat \ {0} /\ Dropped(1)
                 /\ granted' = others \union {queue[1]} /\ permits' = permits
<1>0. IsFiniteSet(others) /\ Cardinality(others) \in Nat
  BY FiniteSets, FS_Subset, FS_CardinalityType
<1>1. CASE queue = <<>>
  BY <1>0, <1>1 DEF PassOn, Shape
<1>2. CASE queue # <<>>
  <2>1. /\ queue' \in Seq(Tasks) /\ Dropped(1) /\ Len(queue) \in Nat \ {0}
        /\ Head(queue) = queue[1] /\ queue[1] \in Tasks
    BY <1>2, DropHead DEF PassOn
  <2>2. granted' = others \union {queue[1]} /\ permits' = permits
    BY <1>2, <2>1 DEF PassOn
  <2>3. 1 \in DOMAIN queue
    BY <2>1, LenProperties DEF Shape
  <2>4. queue[1] \notin others
    BY <2>3 DEF QueueWellFormed
  <2>5. Cardinality(granted') = Cardinality(others) + 1
    BY <1>0, <2>2, <2>4, FS_AddElement
  <2>6. permits \in Nat /\ others \in SUBSET Tasks
    BY DEF Shape
  <2>7. permits' + Cardinality(granted') = permits + Cardinality(others) + 1
    BY <1>0, <2>2, <2>5, <2>6
  <2>8. permits' \in Nat /\ granted' \in SUBSET Tasks
    BY <2>1, <2>2, <2>6
  <2>9. QED
    BY <2>1, <2>2, <2>7, <2>8
<1>3. QED
  BY <1>1, <1>2

\* So is the permit of a waiter that leaves, if it was handed one.
LEMMA AbandonGate ==
    ASSUME Shape, QueueWellFormed, NEW q \in Tasks, Abandon(q)
    PROVE  /\ permits' \in Nat
           /\ queue' \in Seq(Tasks)
           /\ granted' \in SUBSET Tasks
           /\ permits' + Cardinality(granted') = permits + Cardinality(granted)
<1>1. CASE q \in granted /\ PassOn(granted \ {q})
  <2>1. granted \ {q} \in SUBSET granted
    OBVIOUS
  <2>2. /\ permits' \in Nat
        /\ queue' \in Seq(Tasks)
        /\ granted' \in SUBSET Tasks
        /\ permits' + Cardinality(granted') = permits + Cardinality(granted \ {q}) + 1
    BY <1>1, <2>1, PassOnGate
  <2>3. Cardinality(granted \ {q}) = Cardinality(granted) - 1 /\ Cardinality(granted) \in Nat
    BY <1>1, FiniteSets, FS_RemoveElement
  <2>4. QED
    BY <2>2, <2>3 DEF Shape
<1>2. ASSUME NEW i \in DOMAIN queue,
             queue' = SubSeq(queue, 1, i - 1) \o SubSeq(queue, i + 1, Len(queue)),
             UNCHANGED <<permits, granted>>
      PROVE  /\ permits' \in Nat
             /\ queue' \in Seq(Tasks)
             /\ granted' \in SUBSET Tasks
             /\ permits' + Cardinality(granted') = permits + Cardinality(granted)
  BY <1>2, DropAt DEF Shape
<1>3. QED
  BY <1>1, <1>2 DEF Abandon

(***************************************************************************)
(* The shape of the waiting line is kept by every way it can change.       *)
(***************************************************************************)
\* The domain of the queue, before and after a step.
LEMMA QueueDomain ==
    ASSUME Shape
    PROVE  Len(queue) \in Nat /\ DOMAIN queue = 1 .. Len(queue)
BY LenProperties DEF Shape

\* A step of a task outside the line, which touches neither the line nor the
\* permits already handed out, leaves the line well formed.
LEMMA LineKept ==
    ASSUME Shape, QueueWellFormed, NEW q \in Tasks, NEW step \in Steps,
           pc[q] # "wait", step # "wait", Goto(q, step),
           UNCHANGED <<queue, granted>>, queue # <<>> => permits' = 0
    PROVE  QueueWellFormed'
<1>1. \A r \in Tasks : pc'[r] = IF r = q THEN step ELSE pc[r]
  BY DEF Shape, Goto
<1>2. QED
  BY <1>1, QueueDomain, ElementOfSeq DEF QueueWellFormed, Shape

\* Wake: a task that was handed a permit was out of the line already.
LEMMA LineWoken ==
    ASSUME Shape, QueueWellFormed, NEW q \in granted, NEW step \in Steps,
           step # "wait", Goto(q, step),
           granted' = granted \ {q}, UNCHANGED <<queue, permits>>
    PROVE  QueueWellFormed'
<1>1. \A r \in Tasks : pc'[r] = IF r = q THEN step ELSE pc[r]
  BY DEF Shape, Goto
<1>2. q \in Tasks /\ \A i \in DOMAIN queue : queue[i] # q /\ queue[i] \in Tasks
  BY QueueDomain, ElementOfSeq DEF QueueWellFormed, Shape
<1>3. QED
  BY <1>1, <1>2, QueueDomain DEF QueueWellFormed, Shape

\* Enqueue: a task joins the end of the line while no permit is free.
LEMMA LineJoined ==
    ASSUME Shape, QueueWellFormed, NEW q \in Tasks, pc[q] # "wait",
           Goto(q, "wait"), queue' = Append(queue, q),
           UNCHANGED <<granted, permits>>, permits = 0
    PROVE  QueueWellFormed'
<1> DEFINE n == Len(queue)
<1>1. \A r \in Tasks : pc'[r] = IF r = q THEN "wait" ELSE pc[r]
  BY DEF Shape, Goto
<1>2. /\ queue' \in Seq(Tasks) /\ Len(queue') = n + 1
      /\ \A i \in 1 .. n : queue'[i] = queue[i]
      /\ queue'[n + 1] = q
  BY AppendProperties DEF Shape
<1>3. n \in Nat /\ DOMAIN queue = 1 .. n /\ DOMAIN queue' = 1 .. (n + 1)
  BY <1>2, QueueDomain, LenProperties
<1>4. \A i \in 1 .. n : queue[i] \in Tasks /\ queue[i] # q /\ pc[queue[i]] = "wait"
  BY <1>3, ElementOfSeq DEF QueueWellFormed, Shape
<1>5. q \notin granted /\ \A r \in granted : r \in Tasks
  BY DEF QueueWellFormed, Shape
<1> HIDE DEF n
<1>6. \A i, j \in DOMAIN queue' : queue'[i] = queue'[j] => i = j
  <2>1. SUFFICES ASSUME NEW i \in 1 .. (n + 1), NEW j \in 1 .. (n + 1),
                        queue'[i] = queue'[j]
                 PROVE  i = j
    BY <1>3
  <2>2. CASE i = n + 1 /\ j = n + 1
    BY <2>2
  <2>3. CASE i \in 1 .. n /\ j \in 1 .. n
    BY <1>2, <1>3, <2>1, <2>3 DEF QueueWellFormed
  <2>4. CASE i \in 1 .. n /\ j = n + 1
    BY <1>2, <1>4, <2>1, <2>4
  <2>5. CASE i = n + 1 /\ j \in 1 .. n
    BY <1>2, <1>4, <2>1, <2>5
  <2>6. QED
    BY <1>3, <2>1, <2>2, <2>3, <2>4, <2>5
<1>7. \A i \in DOMAIN queue' : pc'[queue'[i]] = "wait" /\ queue'[i] \notin granted'
  <2>1. SUFFICES ASSUME NEW i \in 1 .. (n + 1)
                 PROVE  pc'[queue'[i]] = "wait" /\ queue'[i] \notin granted'
    BY <1>3
  <2>2. CASE i = n + 1
    BY <1>1, <1>2, <1>5, <2>2
  <2>3. CASE i \in 1 .. n
    BY <1>1, <1>2, <1>3, <1>4, <2>3 DEF QueueWellFormed
  <2>4. QED
    BY <1>3, <2>1, <2>2, <2>3
<1>8. \A r \in granted' : pc'[r] = "wait"
  BY <1>1, <1>5 DEF QueueWellFormed
<1>9. ASSUME NEW r \in Tasks, pc'[r] = "wait"
      PROVE  r \in granted' \/ \E i \in DOMAIN queue' : queue'[i] = r
  <2>1. CASE r = q
    <3>1. n + 1 \in DOMAIN queue'
      BY <1>3
    <3>2. QED
      BY <1>2, <2>1, <3>1
  <2>2. CASE r # q /\ r \notin granted
    <3>1. PICK i \in 1 .. n : queue[i] = r
      BY <1>1, <1>3, <1>9, <2>2 DEF QueueWellFormed
    <3>2. i \in DOMAIN queue' /\ queue'[i] = r
      BY <1>2, <1>3, <3>1
    <3>3. QED
      BY <3>2
  <2>3. QED
    BY <2>1, <2>2
<1>10. QED
  BY <1>6, <1>7, <1>8, <1>9 DEF QueueWellFormed

\* The tasks left in the queue are the old ones but one, each still there once.
LEMMA LineWithout ==
    ASSUME Shape, QueueWellFormed, NEW i \in DOMAIN queue,
           queue' \in Seq(Tasks), Dropped(i)
    PROVE  /\ \A j, k \in DOMAIN queue' : queue'[j] = queue'[k] => j = k
           /\ \A j \in DOMAIN queue' :
                 /\ queue'[j] # queue[i]
                 /\ \E k \in DOMAIN queue : queue'[j] = queue[k]
           /\ \A k \in DOMAIN queue \ {i} : \E j \in DOMAIN queue' : queue'[j] = queue[k]
<1> DEFINE n == Len(queue)
<1>1. /\ n \in Nat /\ DOMAIN queue = 1 .. n /\ i \in 1 .. n
      /\ DOMAIN queue' = 1 .. (n - 1)
      /\ \A j \in 1 .. (n - 1) : queue'[j] = IF j < i THEN queue[j] ELSE queue[j + 1]
  BY QueueDomain, LenProperties DEF Dropped
<1>2. \A j, k \in 1 .. n : queue[j] = queue[k] => j = k
  BY <1>1 DEF QueueWellFormed
<1> HIDE DEF n
<1>3. \A j, k \in 1 .. (n - 1) : queue'[j] = queue'[k] => j = k
  <2>1. SUFFICES ASSUME NEW j \in 1 .. (n - 1), NEW k \in 1 .. (n - 1), queue'[j] = queue'[k]
                 PROVE  j = k
    OBVIOUS
  <2>2. CASE j < i /\ k < i
    BY <1>1, <1>2, <2>1, <2>2
  <2>3. CASE j < i /\ ~(k < i)
    BY <1>1, <1>2, <2>1, <2>3
  <2>4. CASE ~(j < i) /\ k < i
    BY <1>1, <1>2, <2>1, <2>4
  <2>5. CASE ~(j < i) /\ ~(k < i)
    BY <1>1, <1>2, <2>1, <2>5
  <2>6. QED
    BY <2>2, <2>3, <2>4, <2>5
<1>4. ASSUME NEW j \in 1 .. (n - 1)
      PROVE  queue'[j] # queue[i] /\ \E k \in 1 .. n : queue'[j] = queue[k]
  <2>1. CASE j < i
    BY <1>1, <1>2, <1>4, <2>1
  <2>2. CASE ~(j < i)
    <3>1. j + 1 \in 1 .. n /\ j + 1 # i /\ queue'[j] = queue[j + 1]
      BY <1>1, <1>4, <2>2
    <3>2. QED
      BY <1>1, <1>2, <3>1
  <2>3. QED
    BY <2>1, <2>2
<1>5. ASSUME NEW k \in 1 .. n, k # i
      PROVE  \E j \in 1 .. (n - 1) : queue'[j] = queue[k]
  <2>1. CASE k < i
    <3>1. k \in 1 .. (n - 1) /\ queue'[k] = queue[k]
      BY <1>1, <1>5, <2>1
    <3>2. QED
      BY <3>1
  <2>2. CASE ~(k < i)
    <3>1. k - 1 \in 1 .. (n - 1) /\ ~(k - 1 < i) /\ (k - 1) + 1 = k
      BY <1>1, <1>5, <2>2
    <3>2. queue'[k - 1] = queue[k]
      BY <1>1, <3>1
    <3>3. QED
      BY <3>1, <3>2
  <2>3. QED
    BY <2>1, <2>2
<1>6. QED
  BY <1>1, <1>3, <1>4, <1>5

\* Release: a permit goes to the head of the line, or is free when there is none.
LEMMA LineReleased ==
    ASSUME Shape, QueueWellFormed, Release,
           \/ UNCHANGED pc
           \/ \E q \in Tasks : pc[q] # "wait" /\ Goto(q, "idle")
    PROVE  QueueWellFormed'
<1>1. \A r \in Tasks : pc'[r] = "wait" <=> pc[r] = "wait"
  BY DEF Shape, Goto
<1>2. granted \in SUBSET granted /\ PassOn(granted)
  BY DEF Release
<1>3. CASE queue = <<>> /\ queue' = <<>> /\ granted' = granted
  <2>1. DOMAIN queue = {} /\ DOMAIN queue' = {}
    BY <1>3
  <2>2. QED
    BY <1>1, <1>3, <2>1 DEF QueueWellFormed, Shape
<1>4. CASE /\ Len(queue) \in Nat \ {0} /\ Dropped(1) /\ queue' \in Seq(Tasks)
           /\ granted' = granted \union {queue[1]} /\ permits' = permits
  <2>1. 1 \in DOMAIN queue /\ queue[1] \in Tasks
    BY <1>4, QueueDomain, ElementOfSeq DEF Shape
  <2>2. /\ \A j, k \in DOMAIN queue' : queue'[j] = queue'[k] => j = k
        /\ \A j \in DOMAIN queue' :
              /\ queue'[j] # queue[1]
              /\ \E k \in DOMAIN queue : queue'[j] = queue[k]
        /\ \A k \in DOMAIN queue \ {1} : \E j \in DOMAIN queue' : queue'[j] = queue[k]
    BY <1>4, <2>1, LineWithout
  <2>3. \A k \in DOMAIN queue : queue[k] \in Tasks
    BY QueueDomain, ElementOfSeq DEF Shape
  <2>4. \A j \in DOMAIN queue' : pc'[queue'[j]] = "wait" /\ queue'[j] \notin granted'
    BY <1>1, <1>4, <2>2, <2>3 DEF QueueWellFormed
  <2>5. \A r \in granted' : pc'[r] = "wait"
    BY <1>1, <1>4, <2>1 DEF QueueWellFormed, Shape
  <2>6. ASSUME NEW r \in Tasks, pc'[r] = "wait"
        PROVE  r \in granted' \/ \E j \in DOMAIN queue' : queue'[j] = r
    <3>1. CASE r \in granted
      BY <1>4, <3>1
    <3>2. ASSUME NEW k \in DOMAIN queue, queue[k] = r
          PROVE  r \in granted' \/ \E j \in DOMAIN queue' : queue'[j] = r
      <4>1. CASE k = 1
        BY <1>4, <3>2, <4>1
      <4>2. CASE k # 1
        BY <2>2, <3>2, <4>2
      <4>3. QED
        BY <4>1, <4>2
    <3>3. QED
      BY <1>1, <2>6, <3>1, <3>2 DEF QueueWellFormed
  <2>7. permits' = 0
    <3>1. queue # <<>>
      BY <2>1
    <3>2. QED
      BY <1>4, <3>1 DEF QueueWellFormed
  <2>8. QED
    BY <2>2, <2>4, <2>5, <2>6, <2>7 DEF QueueWellFormed
<1>5. QED
  BY <1>2, <1>3, <1>4, PassOnGate

\* Abandon: a task leaves the line, or passes on the permit it was handed.
LEMMA LineAbandoned ==
    ASSUME Shape, QueueWellFormed, NEW q \in Tasks, NEW step \in Steps,
           pc[q] = "wait", step # "wait", Abandon(q), Goto(q, step)
    PROVE  QueueWellFormed'
<1>1. \A r \in Tasks : pc'[r] = IF r = q THEN step ELSE pc[r]
  BY DEF Shape, Goto
<1>2. \A k \in DOMAIN queue : queue[k] \in Tasks
  BY QueueDomain, ElementOfSeq DEF Shape
<1>3. CASE q \in granted /\ PassOn(granted \ {q})
  <2>1. \A k \in DOMAIN queue : queue[k] # q
    BY <1>3 DEF QueueWellFormed
  <2>2. CASE queue = <<>> /\ queue' = <<>> /\ granted' = granted \ {q}
    <3>1. DOMAIN queue = {} /\ DOMAIN queue' = {}
      BY <2>2
    <3>2. QED
      BY <1>1, <2>2, <3>1 DEF QueueWellFormed, Shape
  <2>3. CASE /\ Len(queue) \in Nat \ {0} /\ Dropped(1) /\ queue' \in Seq(Tasks)
             /\ granted' = (granted \ {q}) \union {queue[1]} /\ permits' = permits
    <3>1. 1 \in DOMAIN queue
      BY <2>3, QueueDomain
    <3>2. /\ \A j, k \in DOMAIN queue' : queue'[j] = queue'[k] => j = k
          /\ \A j \in DOMAIN queue' :
                /\ queue'[j] # queue[1]
                /\ \E k \in DOMAIN queue : queue'[j] = queue[k]
          /\ \A k \in DOMAIN queue \ {1} : \E j \in DOMAIN queue' : queue'[j] = queue[k]
      BY <2>3, <3>1, LineWithout
    <3>3. \A j \in DOMAIN queue' : pc'[queue'[j]] = "wait" /\ queue'[j] \notin granted'
      BY <1>1, <1>2, <2>1, <2>3, <3>2 DEF QueueWellFormed
    <3>4. \A r \in granted' : pc'[r] = "wait"
      BY <1>1, <1>2, <2>1, <2>3, <3>1 DEF QueueWellFormed, Shape
    <3>5. ASSUME NEW r \in Tasks, pc'[r] = "wait"
          PROVE  r \in granted' \/ \E j \in DOMAIN queue' : queue'[j] = r
      BY <1>1, <2>3, <3>2, <3>5 DEF QueueWellFormed
    <3>6. permits' = 0
      BY <2>3, <3>1 DEF QueueWellFormed
    <3>7. QED
      BY <3>2, <3>3, <3>4, <3>5, <3>6 DEF QueueWellFormed
  <2>4. granted \ {q} \in SUBSET granted
    OBVIOUS
  <2>5. QED
    BY <1>3, <2>2, <2>3, <2>4, PassOnGate
<1>4. ASSUME NEW i \in DOMAIN queue, queue[i] = q,
             queue' = SubSeq(queue, 1, i - 1) \o SubSeq(queue, i + 1, Len(queue)),
             UNCHANGED <<permits, granted>>
      PROVE  QueueWellFormed'
  <2>1. queue' \in Seq(Tasks) /\ Dropped(i)
    BY <1>4, DropAt
  <2>2. /\ \A j, k \in DOMAIN queue' : queue'[j] = queue'[k] => j = k
        /\ \A j \in DOMAIN queue' :
              /\ queue'[j] # queue[i]
              /\ \E k \in DOMAIN queue : queue'[j] = queue[k]
        /\ \A k \in DOMAIN queue \ {i} : \E j \in DOMAIN queue' : queue'[j] = queue[k]
    BY <2>1, LineWithout
  <2>3. ASSUME NEW j \in DOMAIN queue'
        PROVE  pc'[queue'[j]] = "wait" /\ queue'[j] \notin granted'
    <3>1. PICK k \in DOMAIN queue : queue'[j] = queue[k]
      BY <2>2
    <3>2. queue[k] \in Tasks /\ queue[k] # q /\ pc[queue[k]] = "wait" /\ queue[k] \notin granted
      BY ZenonT(60), <1>2, <1>4, <2>2, <3>1 DEF QueueWellFormed
    <3>3. QED
      BY <1>1, <1>4, <3>1, <3>2
  <2>4. \A r \in granted' : pc'[r] = "wait"
    BY <1>1, <1>4 DEF QueueWellFormed, Shape
  <2>5. ASSUME NEW r \in Tasks, pc'[r] = "wait"
        PROVE  r \in granted' \/ \E j \in DOMAIN queue' : queue'[j] = r
    <3>1. r # q /\ pc[r] = "wait"
      BY <1>1, <2>5
    <3>2. ASSUME NEW k \in DOMAIN queue, queue[k] = r
          PROVE  \E j \in DOMAIN queue' : queue'[j] = r
      <4>1. k # i
        BY <1>4, <3>1, <3>2
      <4>2. QED
        BY <2>2, <3>2, <4>1
    <3>3. QED
      BY <1>4, <3>1, <3>2 DEF QueueWellFormed
  <2>6. permits' = 0
    BY <1>4 DEF QueueWellFormed
  <2>7. QED
    BY <2>2, <2>3, <2>4, <2>5, <2>6 DEF QueueWellFormed
<1>5. QED
  BY <1>3, <1>4 DEF Abandon

(***************************************************************************)
(* The invariant                                                           *)
(***************************************************************************)
Counts == Conserved /\ QueueBounded /\ CountedExactly

Core == Shape /\ Counts /\ QueueWellFormed

USE DEF Steps

\* The counting invariants bound the variables they count.
LEMMA CoreIsIInv == Core <=> IInv
<1>1. ASSUME Shape, Conserved, CountedExactly PROVE permits \in 0 .. Permits /\ waiting \in Nat
  <2>1. /\ Cardinality(granted) \in Nat /\ Cardinality(Holding) \in Nat
        /\ Cardinality(Counted) \in Nat
    BY <1>1, FiniteSets
  <2>2. permits \in Nat /\ jobs \in Nat /\ lost \in Nat /\ Permits \in Nat
    BY <1>1, PermitsAssumption, BoundsAssumption DEF Shape
  <2>3. QED
    BY <1>1, <2>1, <2>2 DEF Conserved, CountedExactly
<1>2. Core => IInv
  BY <1>1 DEF Core, Counts, IInv, TypeOK, Shape
<1>3. IInv => Core
  BY TypeShape DEF Core, Counts, IInv
<1>4. QED
  BY <1>2, <1>3

\* The core of the invariant holds when the server starts.
LEMMA InitCore == Init => Core
<1> SUFFICES ASSUME Init PROVE Core
  OBVIOUS
<1>1. Recovery \in Tasks
  BY DEF Tasks
<1>2. Shape
  BY <1>1, PermitsAssumption, BoundsAssumption DEF Init, Shape
<1>3. Holding = {} /\ Counted = {} /\ Admitted = {} /\ granted = {}
  BY DEF Init, Holding, Counted, Admitted, Tasks
<1>4. Cardinality({}) = 0
  BY FS_EmptySet
<1>5. Counts
  BY <1>3, <1>4, PermitsAssumption
     DEF Init, Counts, Conserved, QueueBounded, CountedExactly
<1>6. QueueWellFormed
  BY DEF Init, QueueWellFormed
<1>7. QED
  BY <1>2, <1>5, <1>6 DEF Core

\* The bookkeeping of a step: the permits are conserved, and the counter moves
\* with the number of handlers it counts.
LEMMA CountsKept ==
    ASSUME Shape, Counts, NEW dh \in Int, NEW dc \in Int, NEW da \in Int,
           Cardinality(Holding') = Cardinality(Holding) + dh,
           Cardinality(Counted') = Cardinality(Counted) + dc,
           Cardinality(Admitted') = Cardinality(Admitted) + da,
           permits' \in Int, Cardinality(granted') \in Int, jobs' \in Int,
           permits' + Cardinality(granted') + jobs' + dh
              = permits + Cardinality(granted) + jobs,
           waiting' \in Int, lost' \in Int, waiting' - lost' = waiting - lost + dc,
           da <= 0 \/ Cardinality(Admitted) + da <= QueueMax
    PROVE  Counts'
<1>1. /\ Cardinality(granted) \in Int /\ Cardinality(Holding) \in Int
      /\ Cardinality(Counted) \in Int /\ Cardinality(Admitted) \in Int
  BY FiniteSets
<1>2. permits \in Int /\ jobs \in Int /\ lost \in Int /\ waiting \in Int /\ QueueMax \in Int
  BY BoundsAssumption, PermitsAssumption DEF Shape
<1>3. Conserved'
  <2>1. permits + Cardinality(granted) + Cardinality(Holding) + jobs = Permits
    BY DEF Counts, Conserved
  <2>2. permits' + Cardinality(granted') + (Cardinality(Holding) + dh) + jobs' = Permits
    <3>1. permits' + Cardinality(granted') + jobs' = (permits + Cardinality(granted) + jobs) - dh
      BY <1>1, <1>2
    <3>2. permits + Cardinality(granted) + jobs = Permits - Cardinality(Holding)
      BY <1>1, <1>2, <2>1
    <3>3. Permits \in Int
      BY PermitsAssumption
    <3>4. QED
      BY <1>1, <3>1, <3>2, <3>3
  <2>3. QED
    BY <2>2 DEF Conserved
<1>4. QueueBounded'
  BY <1>1, <1>2 DEF Counts, QueueBounded
<1>5. CountedExactly'
  BY <1>1, <1>2 DEF Counts, CountedExactly
<1>6. QED
  BY <1>3, <1>4, <1>5 DEF Counts

\* A request that finds a free permit, or goes on to be counted.
LEMMA ArriveCore == ASSUME Core, NEW q \in Uploads, Arrive(q) PROVE Core'
<1> USE DEF Arrive, Fast
<1>1. q \in Tasks /\ q # Recovery /\ Shape /\ Counts /\ QueueWellFormed
  BY UploadsAssumption DEF Core, Tasks
<1>2. PICK step \in {"hold", "count"} :
         /\ Goto(q, step)
         /\ permits' = permits - One(step = "hold")
         /\ permits' \in Nat
         /\ permits = 0 => permits' = 0
  <2>1. CASE permits > 0
    BY <1>1, <2>1 DEF Shape, One
  <2>2. CASE ~(permits > 0)
    BY <1>1, <2>2 DEF Shape, One
  <2>3. QED
    BY <2>1, <2>2
<1>3. Shape'
  BY <1>1, <1>2 DEF Shape, Goto
<1>4. QueueWellFormed'
  BY <1>1, <1>2, LineKept DEF QueueWellFormed
<1>5. Counts'
  <2>1. /\ Cardinality(Holding') = Cardinality(Holding) + One(step = "hold")
        /\ Cardinality(Counted') = Cardinality(Counted) + 0
        /\ Cardinality(Admitted') = Cardinality(Admitted) + 0
    BY <1>1, <1>2, GotoHolding, GotoCounted, FiniteSets
       DEF One, HoldSteps, CountSteps, AdmitSteps
  <2>2. /\ One(step = "hold") \in Int /\ permits' + One(step = "hold") = permits
        /\ Cardinality(granted) \in Int
    BY <1>1, <1>2, FiniteSets DEF One, Shape
  <2>3. QED
    BY SMTT(30), <1>1, <1>2, <2>1, <2>2, CountsKept DEF Shape
<1>6. QED
  BY <1>3, <1>4, <1>5 DEF Core

\* fetch_add: the place is given only below the limit.
LEMMA CountCore == ASSUME Core, NEW q \in Uploads, Count(q) PROVE Core'
<1>1. q \in Tasks /\ q # Recovery /\ Shape /\ Counts /\ QueueWellFormed
  BY UploadsAssumption DEF Core, Tasks
<1>2. Shape'
  BY <1>1 DEF Count, Shape, Goto, gate
<1>3. QueueWellFormed'
  BY <1>1, LineKept DEF Count, gate, QueueWellFormed
<1>4. Cardinality(Admitted) <= Cardinality(Counted)
  <2>1. Admitted \in SUBSET Counted
    BY DEF Admitted
  <2>2. QED
    BY <1>1, <2>1, FiniteSets, FS_Subset
<1>5. Counts'
  <2>1. PICK da \in {0, 1} :
           /\ Cardinality(Holding') = Cardinality(Holding) + 0
           /\ Cardinality(Counted') = Cardinality(Counted) + 1
           /\ Cardinality(Admitted') = Cardinality(Admitted) + da
           /\ da = 0 \/ ~QueueFull
    <3>1. CASE QueueFull
      BY <1>1, <3>1, GotoHolding, GotoCounted, FiniteSets
         DEF Count, One, HoldSteps, CountSteps, AdmitSteps
    <3>2. CASE ~QueueFull
      BY <1>1, <3>2, GotoHolding, GotoCounted, FiniteSets
         DEF Count, One, HoldSteps, CountSteps, AdmitSteps
    <3>3. QED
      BY <3>1, <3>2
  <2>2. da <= 0 \/ Cardinality(Admitted) + da <= QueueMax
    BY <1>1, <1>4, <2>1, FiniteSets, PermitsAssumption, BoundsAssumption
       DEF QueueFull, Counts, CountedExactly, Shape
  <2>3. /\ waiting' = waiting + 1 /\ waiting \in Int /\ lost \in Int /\ lost' = lost
        /\ permits' = permits /\ granted' = granted /\ jobs' = jobs
        /\ permits \in Int /\ jobs \in Int /\ Cardinality(granted) \in Int
    BY <1>1, FiniteSets, BoundsAssumption DEF Count, gate, Shape
  <2>4. QED
    BY <1>1, <2>1, <2>2, <2>3, CountsKept
<1>6. QED
  BY <1>2, <1>3, <1>5 DEF Core

\* The first poll takes a permit or a place in the queue.
LEMMA AcquireGate ==
    ASSUME Shape, QueueWellFormed, NEW q \in Tasks, NEW step \in HoldSteps,
           pc[q] # "wait", Acquire(q, step)
    PROVE  /\ permits' \in Nat /\ queue' \in Seq(Tasks) /\ granted' = granted
           /\ QueueWellFormed'
           /\ \E s \in {step, "wait"} :
                 Goto(q, s) /\ permits' = permits - One(s \in HoldSteps)
<1>1. CASE permits > 0
  <2>1. /\ permits' = permits - 1 /\ Goto(q, step)
        /\ UNCHANGED <<queue, granted>> /\ queue = <<>>
    BY <1>1 DEF Acquire, QueueWellFormed
  <2>2. step \in Steps /\ step # "wait"
    BY DEF HoldSteps
  <2>3. QueueWellFormed'
    BY <2>1, <2>2, LineKept
  <2>4. QED
    BY <1>1, <2>1, <2>3 DEF Shape, One
<1>2. CASE ~(permits > 0)
  <2>1. /\ UNCHANGED <<permits, granted>> /\ Goto(q, "wait")
        /\ queue' = Append(queue, q) /\ permits = 0
    BY <1>2 DEF Acquire, Shape
  <2>2. QueueWellFormed' /\ queue' \in Seq(Tasks)
    BY <2>1, LineJoined, AppendProperties DEF Shape
  <2>3. permits' = permits - One("wait" \in HoldSteps)
    <3>1. One("wait" \in HoldSteps) = 0
      BY DEF One, HoldSteps
    <3>2. QED
      BY <2>1, <3>1 DEF Shape
  <2>4. QED
    BY <2>1, <2>2, <2>3 DEF Shape
<1>3. QED
  BY <1>1, <1>2

\* 429: the counter is given back.
LEMMA RefuseCore == ASSUME Core, NEW q \in Uploads, Refuse(q) PROVE Core'
<1>1. q \in Tasks /\ q # Recovery /\ Shape /\ Counts /\ QueueWellFormed
  BY UploadsAssumption DEF Core, Tasks
<1>2. Shape'
  BY <1>1 DEF Refuse, Shape, Goto, gate
<1>3. QueueWellFormed'
  BY <1>1, LineKept DEF Refuse, gate, QueueWellFormed
<1>4. Counts'
  <2>1. /\ Cardinality(Holding') = Cardinality(Holding) + 0
        /\ Cardinality(Counted') = Cardinality(Counted) + (-1)
        /\ Cardinality(Admitted') = Cardinality(Admitted) + 0
    BY <1>1, GotoHolding, GotoCounted, FiniteSets
       DEF Refuse, One, HoldSteps, CountSteps, AdmitSteps
  <2>2. /\ waiting' = waiting - 1 /\ waiting \in Int /\ lost \in Int /\ lost' = lost
        /\ permits' = permits /\ granted' = granted /\ jobs' = jobs
        /\ permits \in Int /\ jobs \in Int /\ Cardinality(granted) \in Int
    BY <1>1, FiniteSets, BoundsAssumption DEF Refuse, gate, Shape
  <2>3. QED
    BY <1>1, <2>1, <2>2, CountsKept
<1>5. QED
  BY <1>2, <1>3, <1>4 DEF Core

\* A request that has a place in the queue polls the semaphore.
LEMMA EnqueueCore == ASSUME Core, NEW q \in Uploads, Enqueue(q) PROVE Core'
<1>1. q \in Tasks /\ q # Recovery /\ Shape /\ Counts /\ QueueWellFormed
  BY UploadsAssumption DEF Core, Tasks
<1>2. "uncount" \in HoldSteps
  BY DEF HoldSteps
<1>3. /\ permits' \in Nat /\ queue' \in Seq(Tasks) /\ granted' = granted /\ QueueWellFormed'
      /\ \E s \in {"uncount", "wait"} : Goto(q, s) /\ permits' = permits - One(s \in HoldSteps)
  BY <1>1, <1>2, AcquireGate DEF Enqueue
<1>4. PICK s \in {"uncount", "wait"} : Goto(q, s) /\ permits' = permits - One(s \in HoldSteps)
  BY <1>3
<1>5. Shape'
  BY <1>1, <1>3, <1>4 DEF Enqueue, Shape, Goto
<1>6. Counts'
  <2>1. /\ Cardinality(Holding') = Cardinality(Holding) + One(s \in HoldSteps)
        /\ Cardinality(Counted') = Cardinality(Counted) + 0
        /\ Cardinality(Admitted') = Cardinality(Admitted) + 0
    BY <1>1, <1>4, GotoHolding, GotoCounted, FiniteSets
       DEF Enqueue, One, HoldSteps, CountSteps, AdmitSteps
  <2>2. /\ waiting' = waiting /\ waiting \in Int /\ lost \in Int /\ lost' = lost
        /\ jobs' = jobs /\ One(s \in HoldSteps) \in Int
        /\ permits \in Int /\ jobs \in Int /\ Cardinality(granted) \in Int
    BY <1>1, FiniteSets, BoundsAssumption DEF Enqueue, Shape, One
  <2>3. QED
    BY <1>1, <1>3, <1>4, <2>1, <2>2, CountsKept
<1>7. QED
  BY <1>3, <1>5, <1>6 DEF Core

\* A waiter finds its permit.
LEMMA WakeCore == ASSUME Core, NEW q \in Tasks, Wake(q) PROVE Core'
<1>1. q \in granted /\ Shape /\ Counts /\ QueueWellFormed
  BY DEF Core, Wake
<1>2. PICK s \in HoldSteps : Goto(q, s) /\ s # "wait" /\ (q = Recovery => s = "hold")
                             /\ (q # Recovery => s = "uncount")
  BY DEF Wake, HoldSteps
<1>3. s \in Steps
  BY DEF HoldSteps
<1>4. Shape'
  BY <1>1, <1>2, <1>3 DEF Wake, Shape, Goto
<1>5. QueueWellFormed'
  BY <1>1, <1>2, <1>3, LineWoken DEF Wake
<1>6. Counts'
  <2>1. Cardinality(Holding') = Cardinality(Holding) + 1
    BY <1>1, <1>2, <1>3, GotoHolding, FiniteSets DEF Wake, One, HoldSteps
  <2>2. /\ Cardinality(Counted') = Cardinality(Counted) + 0
        /\ Cardinality(Admitted') = Cardinality(Admitted) + 0
    <3>1. CASE q = Recovery
      BY <1>1, <1>2, <1>3, <3>1, RecoveryUncounted, FiniteSets
    <3>2. CASE q \in Uploads
      BY <1>1, <1>2, <1>3, <3>2, UploadsAssumption, GotoCounted, FiniteSets
         DEF Wake, One, CountSteps, AdmitSteps
    <3>3. QED
      BY <3>1, <3>2 DEF Tasks
  <2>3. Cardinality(granted') = Cardinality(granted) - 1 /\ Cardinality(granted) \in Int
    <3>1. IsFiniteSet(granted) /\ Cardinality(granted) \in Int
      BY <1>1, FiniteSets
    <3>2. Cardinality(granted \ {q}) = Cardinality(granted) - 1
      BY <1>1, <3>1, FS_RemoveElement
    <3>3. QED
      BY <3>1, <3>2 DEF Wake
  <2>4. /\ waiting' = waiting /\ waiting \in Int /\ lost \in Int /\ lost' = lost
        /\ permits' = permits /\ jobs' = jobs /\ permits \in Int /\ jobs \in Int
    BY <1>1, BoundsAssumption DEF Wake, Shape
  <2>5. QED
    BY <1>1, <2>1, <2>2, <2>3, <2>4, CountsKept
<1>7. QED
  BY <1>4, <1>5, <1>6 DEF Core

\* The time is over.
LEMMA TimeOutCore == ASSUME Core, NEW q \in Uploads, TimeOut(q) PROVE Core'
<1>1. q \in Tasks /\ q # Recovery /\ Shape /\ Counts /\ QueueWellFormed
  BY UploadsAssumption DEF Core, Tasks
<1>2. /\ permits' \in Nat /\ queue' \in Seq(Tasks) /\ granted' \in SUBSET Tasks
      /\ permits' + Cardinality(granted') = permits + Cardinality(granted)
  BY <1>1, AbandonGate DEF TimeOut
<1>3. Shape'
  BY <1>1, <1>2 DEF TimeOut, Shape, Goto
<1>4. QueueWellFormed'
  BY <1>1, LineAbandoned DEF TimeOut
<1>5. Counts'
  <2>1. /\ Cardinality(Holding') = Cardinality(Holding) + 0
        /\ Cardinality(Counted') = Cardinality(Counted) + 0
        /\ Cardinality(Admitted') = Cardinality(Admitted) + 0
    BY <1>1, GotoHolding, GotoCounted, FiniteSets
       DEF TimeOut, One, HoldSteps, CountSteps, AdmitSteps
  <2>2. Cardinality(granted') \in Int
    <3>1. IsFiniteSet(granted')
      BY <1>1, <1>2, FiniteSets, FS_Subset
    <3>2. QED
      BY <3>1, FS_CardinalityType
  <2>3. /\ waiting' = waiting /\ waiting \in Int /\ lost \in Int /\ lost' = lost
        /\ jobs' = jobs /\ permits \in Int /\ jobs \in Int /\ Cardinality(granted) \in Int
    BY <1>1, FiniteSets, BoundsAssumption DEF TimeOut, Shape
  <2>4. QED
    BY <1>1, <1>2, <2>1, <2>2, <2>3, CountsKept
<1>6. QED
  BY <1>3, <1>4, <1>5 DEF Core

\* The counter is given back, and the request goes on or is answered 429.
LEMMA UncountCore == ASSUME Core, NEW q \in Uploads, Uncount(q) PROVE Core'
<1>1. q \in Tasks /\ q # Recovery /\ Shape /\ Counts /\ QueueWellFormed
  BY UploadsAssumption DEF Core, Tasks
<1>2. PICK s \in {"hold", "idle"} : Goto(q, s) /\ (s = "hold" <=> pc[q] = "uncount")
  BY DEF Uncount
<1>3. Shape'
  BY <1>1, <1>2 DEF Uncount, Shape, Goto, gate
<1>4. QueueWellFormed'
  BY <1>1, <1>2, LineKept DEF Uncount, gate, QueueWellFormed
<1>5. Counts'
  <2>1. /\ Cardinality(Holding') = Cardinality(Holding) + 0
        /\ Cardinality(Counted') = Cardinality(Counted) + (-1)
        /\ Cardinality(Admitted') = Cardinality(Admitted) + (-1)
    BY <1>1, <1>2, GotoHolding, GotoCounted, FiniteSets
       DEF Uncount, One, HoldSteps, CountSteps, AdmitSteps
  <2>2. /\ waiting' = waiting - 1 /\ waiting \in Int /\ lost \in Int /\ lost' = lost
        /\ permits' = permits /\ granted' = granted /\ jobs' = jobs
        /\ permits \in Int /\ jobs \in Int /\ Cardinality(granted) \in Int
    BY <1>1, FiniteSets, BoundsAssumption DEF Uncount, gate, Shape
  <2>3. QED
    BY <1>1, <2>1, <2>2, CountsKept
<1>6. QED
  BY <1>3, <1>4, <1>5 DEF Core

\* The permit moves from the handler to its job.
LEMMA SpawnCore == ASSUME Core, NEW q \in Uploads, Spawn(q) PROVE Core'
<1>1. q \in Tasks /\ q # Recovery /\ Shape /\ Counts /\ QueueWellFormed
  BY UploadsAssumption DEF Core, Tasks
<1>0. PICK s \in {"answer", "idle"} : Goto(q, s)
  BY DEF Spawn
<1>2. Shape'
  BY <1>0, <1>1 DEF Spawn, Shape, Goto, gate
<1>3. QueueWellFormed'
  BY <1>0, <1>1, LineKept DEF Spawn, gate, QueueWellFormed
<1>4. Counts'
  <2>1. /\ Cardinality(Holding') = Cardinality(Holding) + (-1)
        /\ Cardinality(Counted') = Cardinality(Counted) + 0
        /\ Cardinality(Admitted') = Cardinality(Admitted) + 0
    BY <1>0, <1>1, GotoHolding, GotoCounted, FiniteSets
       DEF Spawn, One, HoldSteps, CountSteps, AdmitSteps
  <2>2. /\ waiting' = waiting /\ waiting \in Int /\ lost \in Int /\ lost' = lost
        /\ permits' = permits /\ granted' = granted /\ jobs' = jobs + 1
        /\ permits \in Int /\ jobs \in Int /\ Cardinality(granted) \in Int
    BY <1>1, FiniteSets, BoundsAssumption DEF Spawn, gate, Shape
  <2>3. QED
    BY <1>1, <2>1, <2>2, CountsKept
<1>5. QED
  BY <1>2, <1>3, <1>4 DEF Core

\* The handler of a running job answers.
LEMMA ReplyCore == ASSUME Core, NEW q \in Uploads, Reply(q) PROVE Core'
<1>1. q \in Tasks /\ q # Recovery /\ Shape /\ Counts /\ QueueWellFormed
  BY UploadsAssumption DEF Core, Tasks
<1>2. Shape'
  BY <1>1 DEF Reply, Shape, Goto, gate
<1>3. QueueWellFormed'
  BY <1>1, LineKept DEF Reply, gate, QueueWellFormed
<1>4. Counts'
  <2>1. /\ Cardinality(Holding') = Cardinality(Holding) + 0
        /\ Cardinality(Counted') = Cardinality(Counted) + 0
        /\ Cardinality(Admitted') = Cardinality(Admitted) + 0
    BY <1>1, GotoHolding, GotoCounted, FiniteSets
       DEF Reply, One, HoldSteps, CountSteps, AdmitSteps
  <2>2. /\ waiting' = waiting /\ waiting \in Int /\ lost \in Int /\ lost' = lost
        /\ permits' = permits /\ granted' = granted /\ jobs' = jobs
        /\ permits \in Int /\ jobs \in Int /\ Cardinality(granted) \in Int
    BY <1>1, FiniteSets, BoundsAssumption DEF Reply, gate, Shape
  <2>3. QED
    BY <1>1, <2>1, <2>2, CountsKept
<1>5. QED
  BY <1>2, <1>3, <1>4 DEF Core

\* What a dropped permit does to the gate, for the three steps that drop one.
LEMMA ReleaseGate ==
    ASSUME Shape, QueueWellFormed, Release
    PROVE  /\ permits' \in Nat /\ queue' \in Seq(Tasks) /\ granted' \in SUBSET Tasks
           /\ Cardinality(granted') \in Int
           /\ permits' + Cardinality(granted') = permits + Cardinality(granted) + 1
<1>1. granted \in SUBSET granted /\ PassOn(granted)
  BY DEF Release
<1>2. /\ permits' \in Nat /\ queue' \in Seq(Tasks) /\ granted' \in SUBSET Tasks
      /\ permits' + Cardinality(granted') = permits + Cardinality(granted) + 1
  BY <1>1, PassOnGate
<1>3. IsFiniteSet(granted')
  BY <1>2, FiniteSets, FS_Subset
<1>4. QED
  BY <1>2, <1>3, FS_CardinalityType

\* A handler that ends while it holds a permit gives it up.
LEMMA FinishCore == ASSUME Core, NEW q \in Uploads, Finish(q) PROVE Core'
<1>1. q \in Tasks /\ q # Recovery /\ Shape /\ Counts /\ QueueWellFormed
  BY UploadsAssumption DEF Core, Tasks
<1>2. /\ permits' \in Nat /\ queue' \in Seq(Tasks) /\ granted' \in SUBSET Tasks
      /\ Cardinality(granted') \in Int
      /\ permits' + Cardinality(granted') = permits + Cardinality(granted) + 1
  BY <1>1, ReleaseGate DEF Finish
<1>3. Shape'
  BY <1>1, <1>2 DEF Finish, Shape, Goto
<1>4. QueueWellFormed'
  BY <1>1, LineReleased DEF Finish
<1>5. Counts'
  <2>1. /\ Cardinality(Holding') = Cardinality(Holding) + (-1)
        /\ Cardinality(Counted') = Cardinality(Counted) + 0
        /\ Cardinality(Admitted') = Cardinality(Admitted) + 0
    BY <1>1, GotoHolding, GotoCounted, FiniteSets
       DEF Finish, One, HoldSteps, CountSteps, AdmitSteps
  <2>2. /\ waiting' = waiting /\ waiting \in Int /\ lost \in Int /\ lost' = lost
        /\ jobs' = jobs /\ permits \in Int /\ jobs \in Int /\ Cardinality(granted) \in Int
    BY <1>1, FiniteSets, BoundsAssumption DEF Finish, Shape
  <2>3. permits' + Cardinality(granted') + jobs' + (-1) = permits + Cardinality(granted) + jobs
    BY <1>2, <2>2
  <2>4. QED
    BY <1>1, <1>2, <2>1, <2>2, <2>3, CountsKept
<1>6. QED
  BY <1>3, <1>4, <1>5 DEF Core

\* A waiter whose client left is forgotten by the gate, not by the counter.
LEMMA CancelCore == ASSUME Core, NEW q \in Uploads, Cancel(q) PROVE Core'
<1>1. q \in Tasks /\ q # Recovery /\ Shape /\ Counts /\ QueueWellFormed
  BY UploadsAssumption DEF Core, Tasks
<1>2. /\ permits' \in Nat /\ queue' \in Seq(Tasks) /\ granted' \in SUBSET Tasks
      /\ permits' + Cardinality(granted') = permits + Cardinality(granted)
  BY <1>1, AbandonGate DEF Cancel
<1>3. Shape'
  BY <1>1, <1>2, BoundsAssumption DEF Cancel, Shape, Goto
<1>4. QueueWellFormed'
  BY <1>1, LineAbandoned DEF Cancel
<1>5. Counts'
  <2>1. /\ Cardinality(Holding') = Cardinality(Holding) + 0
        /\ Cardinality(Counted') = Cardinality(Counted) + (-1)
        /\ Cardinality(Admitted') = Cardinality(Admitted) + (-1)
    BY <1>1, GotoHolding, GotoCounted, FiniteSets
       DEF Cancel, One, HoldSteps, CountSteps, AdmitSteps
  <2>2. Cardinality(granted') \in Int
    <3>1. IsFiniteSet(granted')
      BY <1>1, <1>2, FiniteSets, FS_Subset
    <3>2. QED
      BY <3>1, FS_CardinalityType
  <2>3. /\ waiting' = waiting /\ waiting \in Int /\ lost \in Int /\ lost' = lost + 1
        /\ jobs' = jobs /\ permits \in Int /\ jobs \in Int /\ Cardinality(granted) \in Int
    BY <1>1, FiniteSets, BoundsAssumption DEF Cancel, Shape
  <2>4. QED
    BY <1>1, <1>2, <2>1, <2>2, <2>3, CountsKept
<1>6. QED
  BY <1>3, <1>4, <1>5 DEF Core

\* A background job ends and drops its permit.
LEMMA JobEndsCore == ASSUME Core, JobEnds PROVE Core'
<1>1. Shape /\ Counts /\ QueueWellFormed
  BY DEF Core
<1>2. /\ permits' \in Nat /\ queue' \in Seq(Tasks) /\ granted' \in SUBSET Tasks
      /\ Cardinality(granted') \in Int
      /\ permits' + Cardinality(granted') = permits + Cardinality(granted) + 1
  BY <1>1, ReleaseGate DEF JobEnds
<1>3. Shape'
  BY <1>1, <1>2 DEF JobEnds, Shape
<1>4. QueueWellFormed'
  BY <1>1, LineReleased DEF JobEnds
<1>5. Counts'
  <2>1. /\ Cardinality(Holding') = Cardinality(Holding) + 0
        /\ Cardinality(Counted') = Cardinality(Counted) + 0
        /\ Cardinality(Admitted') = Cardinality(Admitted) + 0
    <3>1. Holding' = Holding /\ Counted' = Counted /\ Admitted' = Admitted
      BY DEF JobEnds, Holding, Counted, Admitted
    <3>2. QED
      BY <1>1, <3>1, FiniteSets
  <2>2. /\ waiting' = waiting /\ waiting \in Int /\ lost \in Int /\ lost' = lost
        /\ jobs' = jobs - 1 /\ permits \in Int /\ jobs \in Int /\ Cardinality(granted) \in Int
    BY <1>1, FiniteSets, BoundsAssumption DEF JobEnds, Shape
  <2>3. permits' + Cardinality(granted') + jobs' + 0 = permits + Cardinality(granted) + jobs
    BY SMTT(30), <1>2, <2>2
  <2>4. QED
    BY <1>1, <1>2, <2>1, <2>2, <2>3, CountsKept
<1>6. QED
  BY <1>3, <1>4, <1>5 DEF Core

\* recover_one reads a document, or passes over one that cannot be redone.
LEMMA RecoverReadCore == ASSUME Core, RecoverRead \/ RecoverSkip PROVE Core'
<1>1. Recovery \in Tasks /\ Shape /\ Counts /\ QueueWellFormed
  BY DEF Core, Tasks
<1>2. PICK s \in {"read", "idle"} : Goto(Recovery, s) /\ pc[Recovery] \in {"idle", "read"}
  BY DEF RecoverRead, RecoverSkip
<1>3. Shape'
  <2>1. CASE RecoverRead
    BY <1>1, <2>1 DEF RecoverRead, Shape, Goto, gate
  <2>2. CASE RecoverSkip
    BY <1>1, <2>2, BoundsAssumption DEF RecoverSkip, Shape, Goto, gate
  <2>3. QED
    BY <2>1, <2>2
<1>4. /\ permits' = permits /\ granted' = granted /\ queue' = queue
      /\ waiting' = waiting /\ jobs' = jobs /\ lost' = lost
  BY DEF RecoverRead, RecoverSkip, gate
<1>5. QueueWellFormed'
  BY <1>1, <1>2, <1>4, LineKept DEF QueueWellFormed
<1>6. Counts'
  <2>1. Cardinality(Holding') = Cardinality(Holding) + 0
    BY <1>1, <1>2, GotoHolding, FiniteSets DEF One, HoldSteps
  <2>2. /\ Cardinality(Counted') = Cardinality(Counted) + 0
        /\ Cardinality(Admitted') = Cardinality(Admitted) + 0
    BY <1>1, <1>2, RecoveryUncounted, FiniteSets
  <2>3. /\ waiting \in Int /\ lost \in Int /\ permits \in Int /\ jobs \in Int
        /\ Cardinality(granted) \in Int
    BY <1>1, FiniteSets, BoundsAssumption DEF Shape
  <2>4. QED
    BY <1>1, <1>4, <2>1, <2>2, <2>3, CountsKept
<1>7. QED
  BY <1>3, <1>5, <1>6 DEF Core

\* recover_one asks for a permit before it redoes a document.
LEMMA RecoverAcquireCore == ASSUME Core, RecoverAcquire PROVE Core'
<1>1. Recovery \in Tasks /\ Shape /\ Counts /\ QueueWellFormed
  BY DEF Core, Tasks
<1>2. "hold" \in HoldSteps
  BY DEF HoldSteps
<1>3. /\ permits' \in Nat /\ queue' \in Seq(Tasks) /\ granted' = granted /\ QueueWellFormed'
      /\ \E s \in {"hold", "wait"} :
            Goto(Recovery, s) /\ permits' = permits - One(s \in HoldSteps)
  BY <1>1, <1>2, AcquireGate DEF RecoverAcquire
<1>4. PICK s \in {"hold", "wait"} :
         Goto(Recovery, s) /\ permits' = permits - One(s \in HoldSteps)
  BY <1>3
<1>5. Shape'
  BY <1>1, <1>3, <1>4 DEF RecoverAcquire, Shape, Goto
<1>6. Counts'
  <2>1. Cardinality(Holding') = Cardinality(Holding) + One(s \in HoldSteps)
    BY <1>1, <1>4, GotoHolding, FiniteSets DEF RecoverAcquire, One, HoldSteps
  <2>2. /\ Cardinality(Counted') = Cardinality(Counted) + 0
        /\ Cardinality(Admitted') = Cardinality(Admitted) + 0
    BY <1>1, <1>4, RecoveryUncounted, FiniteSets
  <2>3. /\ waiting' = waiting /\ waiting \in Int /\ lost \in Int /\ lost' = lost
        /\ jobs' = jobs /\ One(s \in HoldSteps) \in Int
        /\ permits \in Int /\ jobs \in Int /\ Cardinality(granted) \in Int
    BY <1>1, FiniteSets, BoundsAssumption DEF RecoverAcquire, Shape, One
  <2>4. QED
    BY <1>1, <1>3, <1>4, <2>1, <2>2, <2>3, CountsKept
<1>7. QED
  BY <1>3, <1>5, <1>6 DEF Core

\* recover_one has redone a document and drops its permit.
LEMMA RecoverEndsCore == ASSUME Core, RecoverEnds PROVE Core'
<1>1. Recovery \in Tasks /\ Shape /\ Counts /\ QueueWellFormed
  BY DEF Core, Tasks
<1>2. /\ permits' \in Nat /\ queue' \in Seq(Tasks) /\ granted' \in SUBSET Tasks
      /\ Cardinality(granted') \in Int
      /\ permits' + Cardinality(granted') = permits + Cardinality(granted) + 1
  BY <1>1, ReleaseGate DEF RecoverEnds
<1>3. Shape'
  BY <1>1, <1>2, BoundsAssumption DEF RecoverEnds, Shape, Goto
<1>4. QueueWellFormed'
  BY <1>1, LineReleased DEF RecoverEnds
<1>5. Counts'
  <2>1. Cardinality(Holding') = Cardinality(Holding) + (-1)
    BY <1>1, GotoHolding, FiniteSets DEF RecoverEnds, One, HoldSteps
  <2>2. /\ Cardinality(Counted') = Cardinality(Counted) + 0
        /\ Cardinality(Admitted') = Cardinality(Admitted) + 0
    BY <1>1, RecoveryUncounted, FiniteSets DEF RecoverEnds
  <2>3. /\ waiting' = waiting /\ waiting \in Int /\ lost \in Int /\ lost' = lost
        /\ jobs' = jobs /\ permits \in Int /\ jobs \in Int /\ Cardinality(granted) \in Int
    BY <1>1, FiniteSets, BoundsAssumption DEF RecoverEnds, Shape
  <2>4. permits' + Cardinality(granted') + jobs' + (-1) = permits + Cardinality(granted) + jobs
    BY <1>2, <2>3
  <2>5. QED
    BY <1>1, <1>2, <2>1, <2>2, <2>3, <2>4, CountsKept
<1>6. QED
  BY <1>3, <1>4, <1>5 DEF Core

\* Every step of the gate, the handlers and recovery keeps the invariant.
THEOREM GateInductive == (Init => IInv) /\ (IInv /\ [Next]_vars => IInv')
<1>1. Init => IInv
  BY InitCore, CoreIsIInv
<1>2. ASSUME Core, [Next]_vars PROVE Core'
  <2>1. CASE UNCHANGED vars
    <3>1. Holding' = Holding /\ Counted' = Counted /\ Admitted' = Admitted
      BY <2>1 DEF vars, gate, Holding, Counted, Admitted
    <3>2. QED
      BY <1>2, <2>1, <3>1 DEF vars, gate, Core, Shape, Counts, Conserved, QueueBounded,
                              CountedExactly, QueueWellFormed
  <2>2. ASSUME NEW q \in Uploads, Step(q) PROVE Core'
    <3>1. q \in Tasks
      BY DEF Tasks
    <3>2. QED
      BY <1>2, <2>2, <3>1, CountCore, RefuseCore, EnqueueCore, WakeCore, UncountCore,
         SpawnCore, ReplyCore, FinishCore DEF Step
  <2>3. ASSUME NEW q \in Uploads, Arrive(q) \/ TimeOut(q) \/ Cancel(q) PROVE Core'
    BY <1>2, <2>3, ArriveCore, TimeOutCore, CancelCore
  <2>4. CASE JobEnds
    BY <1>2, <2>4, JobEndsCore
  <2>5. CASE RecoverStep
    <3>1. Recovery \in Tasks
      BY DEF Tasks
    <3>2. QED
      BY <1>2, <2>5, <3>1, RecoverReadCore, RecoverAcquireCore, WakeCore, RecoverEndsCore
         DEF RecoverStep
  <2>6. QED
    BY <1>2, <2>1, <2>2, <2>3, <2>4, <2>5 DEF Next
<1>3. Core' <=> IInv'
  BY CoreIsIInv, PTL
<1>4. QED
  BY <1>1, <1>2, <1>3, CoreIsIInv

\* The inductive invariant of upload_permit, its jobs and the recovery holds in
\* every reachable state.
THEOREM GateInvariant == Spec => []IInv
<1>1. QED
  BY GateInductive, PTL DEF Spec

\* The values of the variables, and no counter below zero: the two fetch_sub of
\* upload_permit never outnumber its fetch_add.
THEOREM TypeCorrect == Spec => []TypeOK
<1>1. IInv => TypeOK
  BY DEF IInv
<1>2. QED
  BY <1>1, GateInvariant, PTL

\* Every permit is free, handed over, with a handler or with a job: once each.
THEOREM PermitsConserved == Spec => []Conserved
<1>1. IInv => Conserved
  BY DEF IInv
<1>2. QED
  BY <1>1, GateInvariant, PTL

\* What the gate is for: beyond UPLOAD_PERMITS files there are in memory the copies of
\* the handlers that have only to answer, and one document of recovery's, whatever
\* becomes of the requests that brought them.
THEOREM MemoryIsBounded == Spec => []MemoryBounded
<1>1. ASSUME IInv PROVE MemoryBounded
  <2>1. Shape /\ Conserved
    BY <1>1, CoreIsIInv DEF Core, IInv
  <2>2. /\ permits \in Nat /\ jobs \in Nat /\ Permits \in Nat
        /\ Cardinality(granted) \in Nat /\ Cardinality(Holding) \in Nat
        /\ IsFiniteSet(Holding) /\ IsFiniteSet(Tasks)
    BY <2>1, FiniteSets, PermitsAssumption DEF Shape
  <2>3. IsFiniteSet(Answering) /\ Cardinality(Answering) \in Nat
    BY UploadsAssumption, FS_Subset, FS_CardinalityType DEF Answering
  <2>4. IsFiniteSet(InMemory) /\ Cardinality(InMemory) \in Nat
    BY <2>2, FS_Subset, FS_CardinalityType DEF InMemory
  <2>5. InMemory \subseteq (Holding \union Answering) \union {Recovery}
    BY <2>1 DEF InMemory, Holding, Answering, Tasks, Shape
  <2> DEFINE guarded == Holding \union Answering
             all == guarded \union {Recovery}
  <2>6. IsFiniteSet(guarded) /\ Cardinality(guarded) \in Nat
        /\ Cardinality(guarded) <= Cardinality(Holding) + Cardinality(Answering)
    <3>1. /\ IsFiniteSet(guarded)
          /\ Cardinality(guarded) = Cardinality(Holding) + Cardinality(Answering)
                                      - Cardinality(Holding \cap Answering)
      BY <2>2, <2>3, FS_Union
    <3>2. IsFiniteSet(Holding \cap Answering)
      BY <2>2, FS_Intersection
    <3>3. Cardinality(Holding \cap Answering) \in Nat /\ Cardinality(guarded) \in Nat
      BY <3>1, <3>2, FS_CardinalityType
    <3>4. QED
      BY <2>2, <2>3, <3>1, <3>3
  <2> HIDE DEF guarded
  <2>7. /\ IsFiniteSet(all) /\ Cardinality(all) \in Nat
        /\ Cardinality(all) <= Cardinality(guarded) + 1
    <3>1. /\ IsFiniteSet(all)
          /\ Cardinality(all) = IF Recovery \in guarded THEN Cardinality(guarded)
                               ELSE Cardinality(guarded) + 1
      BY <2>6, FS_AddElement
    <3>2. QED
      BY <2>6, <3>1
  <2>8. Cardinality(InMemory) <= Cardinality(all)
    <3>1. InMemory \subseteq all
      BY <2>5 DEF guarded
    <3> HIDE DEF all
    <3>2. QED
      BY <2>7, <3>1, FS_Subset
  <2> HIDE DEF all
  <2>9. Cardinality(InMemory) <= Cardinality(Holding) + Cardinality(Answering) + 1
    BY <2>2, <2>3, <2>4, <2>6, <2>7, <2>8
  <2>10. QED
    BY <2>1, <2>2, <2>3, <2>4, <2>9 DEF Conserved, MemoryBounded
<1>2. QED
  BY <1>1, GateInvariant, PTL

\* The other promise: the queue is bounded by UPLOAD_QUEUE_MAX.
THEOREM QueueIsBounded == Spec => []QueueBounded
<1>1. IInv => QueueBounded
  BY DEF IInv
<1>2. QED
  BY <1>1, GateInvariant, PTL

\* Both limits of upload_permit together.
THEOREM LimitsHold == Spec => []WithinLimits
<1>1. MemoryBounded /\ QueueBounded => WithinLimits
  BY DEF WithinLimits
<1>2. QED
  BY <1>1, MemoryIsBounded, QueueIsBounded, PTL

\* What UPLOAD_WAITING counts, the handlers it has lost included.
THEOREM CounterMeaning == Spec => []CountedExactly
<1>1. IInv => CountedExactly
  BY DEF IInv
<1>2. QED
  BY <1>1, GateInvariant, PTL

\* No lost wakeup: while a task waits in the semaphore no permit is free, and
\* every waiting task is in the queue or has been handed a permit.
THEOREM NoLostWakeup == Spec => []QueueWellFormed
<1>1. IInv => QueueWellFormed
  BY DEF IInv
<1>2. QED
  BY <1>1, GateInvariant, PTL

\* As long as no handler was dropped while it waited, a request is refused only
\* when the queue is really full.
THEOREM RefusalsJustified ==
    Spec => [][lost = 0 => \A q \in Uploads :
                  pc[q] = "count" /\ pc'[q] = "full" => Cardinality(Counted) >= QueueMax]_vars
<1>1. ASSUME IInv, Next, lost = 0, NEW q \in Uploads, pc[q] = "count", pc'[q] = "full"
      PROVE  Cardinality(Counted) >= QueueMax
  <2>1. Shape /\ CountedExactly
    BY <1>1, CoreIsIInv DEF Core, IInv
  <2>2. /\ q \in Tasks /\ q # Recovery /\ Recovery \in Tasks
        /\ \A r \in Uploads : r \in Tasks
    BY UploadsAssumption DEF Tasks
  <2>3. ASSUME NEW r \in Tasks, NEW step, Goto(r, step)
        PROVE  r = q /\ step = "full"
    BY <1>1, <2>1, <2>2, <2>3 DEF Goto, Shape
  <2>4. pc' # pc
    BY <1>1
  <2>5. waiting >= QueueMax
    <3>1. CASE \E r \in Uploads : Count(r)
      <4>1. PICK r \in Uploads : Count(r)
        BY <3>1
      <4>2. (IF QueueFull THEN "full" ELSE "enqueue") = "full"
        BY <2>2, <2>3, <4>1 DEF Count
      <4>3. QED
        BY <4>2 DEF QueueFull
    <3>2. ASSUME NEW r \in Uploads,
                 Arrive(r) \/ Refuse(r) \/ Enqueue(r) \/ Wake(r) \/ Uncount(r)
                 \/ Spawn(r) \/ Reply(r) \/ Finish(r) \/ TimeOut(r) \/ Cancel(r)
          PROVE  FALSE
      BY <2>2, <2>3, <3>2 DEF Arrive, Fast, Refuse, Enqueue, Acquire, Wake, Uncount, Spawn,
                              Reply, Finish, TimeOut, Cancel
    <3>3. CASE JobEnds
      BY <2>4, <3>3 DEF JobEnds
    <3>4. CASE RecoverStep
      BY <2>2, <2>3, <2>4, <3>4 DEF RecoverStep, RecoverRead, RecoverSkip, RecoverAcquire,
                                    Acquire, Wake, RecoverEnds
    <3>5. QED
      BY <1>1, <3>1, <3>2, <3>3, <3>4 DEF Next, Step
  <2>6. /\ waiting = Cardinality(Counted) + lost /\ Cardinality(Counted) \in Nat
        /\ QueueMax \in Nat
    BY <2>1, FiniteSets, PermitsAssumption DEF CountedExactly
  <2>7. QED
    BY <1>1, <2>5, <2>6
<1>2. IInv /\ [Next]_vars =>
        [lost = 0 => \A q \in Uploads :
            pc[q] = "count" /\ pc'[q] = "full" => Cardinality(Counted) >= QueueMax]_vars
  BY <1>1
<1>3. QED
  BY <1>2, GateInvariant, PTL DEF Spec

(***************************************************************************)
(* First come, first served                                                *)
(***************************************************************************)
\* Whoever waits in the line and goes on waiting is no further back than before.
NoStepBack ==
    \A i \in DOMAIN queue :
        \/ queue[i] \in granted' \/ pc'[queue[i]] # "wait"
        \/ \E j \in 1 .. i : j \in DOMAIN queue' /\ queue'[j] = queue[i]

\* A permit goes past nobody: it is taken from the free ones only when the line is
\* empty, and handed over only to the first in it.
NoShortcut ==
    /\ permits' < permits => queue = <<>>
    /\ \A q \in granted' \ granted : queue # <<>> /\ q = queue[1]

\* A permit that is dropped moves everybody in the line up by one place.
MovesUp ==
    \A i \in DOMAIN queue :
        queue[i] \in granted' \/ (i > 1 /\ i - 1 \in DOMAIN queue' /\ queue'[i - 1] = queue[i])

\* Steps that leave the line alone, or join it at the end.
LEMMA LineStands ==
    ASSUME Shape, granted' \in SUBSET granted, permits' < permits => queue = <<>>,
           queue' = queue \/ \E q \in Tasks : queue' = Append(queue, q)
    PROVE  NoStepBack /\ NoShortcut
<1>1. ASSUME NEW i \in DOMAIN queue
      PROVE  i \in 1 .. i /\ i \in DOMAIN queue' /\ queue'[i] = queue[i]
  <2>1. i \in 1 .. Len(queue) /\ Len(queue) \in Nat
    BY QueueDomain
  <2>2. CASE queue' = queue
    BY <2>1, <2>2
  <2>3. ASSUME NEW q \in Tasks, queue' = Append(queue, q)
        PROVE  i \in DOMAIN queue' /\ queue'[i] = queue[i]
    <3>1. /\ queue' \in Seq(Tasks) /\ Len(queue') = Len(queue) + 1
          /\ \A k \in 1 .. Len(queue) : queue'[k] = queue[k]
      BY <2>3, AppendProperties DEF Shape
    <3>2. DOMAIN queue' = 1 .. (Len(queue) + 1)
      BY <3>1, LenProperties
    <3> QED
      BY <2>1, <3>1, <3>2
  <2> QED
    BY <2>1, <2>2, <2>3
<1> QED
  BY <1>1 DEF NoStepBack, NoShortcut

\* A place in the line is given up, and those behind it move up.
LEMMA LineCloses ==
    ASSUME Shape, NEW i \in DOMAIN queue, queue' \in Seq(Tasks), Dropped(i)
    PROVE  \A k \in DOMAIN queue \ {i} :
              LET j == IF k < i THEN k ELSE k - 1
              IN  j \in 1 .. k /\ j \in DOMAIN queue' /\ queue'[j] = queue[k]
<1>1. /\ Len(queue) \in Nat /\ DOMAIN queue = 1 .. Len(queue)
      /\ DOMAIN queue' = 1 .. (Len(queue) - 1)
  BY QueueDomain, LenProperties DEF Dropped
<1>2. ASSUME NEW k \in DOMAIN queue, k # i, k < i
      PROVE  k \in 1 .. k /\ k \in DOMAIN queue' /\ queue'[k] = queue[k]
  BY <1>1, <1>2 DEF Dropped
<1>3. ASSUME NEW k \in DOMAIN queue, k # i, ~(k < i)
      PROVE  k - 1 \in 1 .. k /\ k - 1 \in DOMAIN queue' /\ queue'[k - 1] = queue[k]
  <2>1. k - 1 \in 1 .. Len(queue) - 1 /\ ~(k - 1 < i) /\ (k - 1) + 1 = k
    BY <1>1, <1>3
  <2>2. queue'[k - 1] = queue[(k - 1) + 1]
    BY <2>1 DEF Dropped
  <2> QED
    BY <1>1, <2>1, <2>2
<1> QED
  BY <1>2, <1>3

\* The first in the line has the permit, and the others one place less before them.
LEMMA LineMovesUp ==
    ASSUME Shape, QueueWellFormed, NEW others \in SUBSET granted, PassOn(others)
    PROVE  NoStepBack /\ NoShortcut /\ MovesUp
<1>1. ~(permits' < permits)
  BY DEF PassOn, Shape
<1>2. CASE queue = <<>> /\ queue' = <<>> /\ granted' = others
  BY <1>1, <1>2 DEF NoStepBack, NoShortcut, MovesUp
<1>3. CASE /\ Len(queue) \in Nat \ {0} /\ Dropped(1) /\ queue' \in Seq(Tasks)
           /\ granted' = others \union {queue[1]}
  <2>1. 1 \in DOMAIN queue /\ queue # <<>> /\ DOMAIN queue = 1 .. Len(queue)
    BY <1>3, QueueDomain
  <2>2. ASSUME NEW k \in DOMAIN queue, k # 1
        PROVE  /\ k > 1 /\ k - 1 \in 1 .. k /\ k - 1 \in DOMAIN queue'
               /\ queue'[k - 1] = queue[k]
    <3>1. ~(k < 1) /\ k > 1
      BY <2>1, <2>2
    <3> QED
      BY <1>3, <2>1, <2>2, <3>1, LineCloses
  <2>3. NoShortcut
    BY <1>1, <1>3, <2>1 DEF NoShortcut
  <2>4. MovesUp /\ NoStepBack
    BY <1>3, <2>2 DEF MovesUp, NoStepBack
  <2> QED
    BY <2>3, <2>4
<1> QED
  BY <1>2, <1>3, PassOnGate

\* A waiter leaves, with the permit it was handed or without one.
LEMMA LineLeft ==
    ASSUME Shape, QueueWellFormed, NEW q \in Tasks, Abandon(q), pc'[q] # "wait"
    PROVE  NoStepBack /\ NoShortcut
<1>1. CASE q \in granted /\ PassOn(granted \ {q})
  <2>1. granted \ {q} \in SUBSET granted
    OBVIOUS
  <2> QED
    BY <1>1, <2>1, LineMovesUp
<1>2. ASSUME NEW i \in DOMAIN queue, queue[i] = q,
             queue' = SubSeq(queue, 1, i - 1) \o SubSeq(queue, i + 1, Len(queue)),
             UNCHANGED <<permits, granted>>
      PROVE  NoStepBack /\ NoShortcut
  <2>1. queue' \in Seq(Tasks) /\ Dropped(i)
    BY <1>2, DropAt
  <2>2. \A k \in DOMAIN queue \ {i} :
           \E j \in 1 .. k : j \in DOMAIN queue' /\ queue'[j] = queue[k]
    BY <2>1, LineCloses
  <2>3. NoStepBack
    BY <1>2, <2>2 DEF NoStepBack
  <2>4. NoShortcut
    BY <1>2 DEF NoShortcut, Shape
  <2> QED
    BY <2>3, <2>4
<1> QED
  BY <1>1, <1>2 DEF Abandon

\* The gate is fair to those who wait at it, the requests that come without waiting, the
\* recovery task and the waiters that leave included: nobody is overtaken, nobody loses a
\* place, and each permit that a job, a handler or recovery drops brings everybody nearer.
FirstComeFirst ==
    [][/\ NoStepBack /\ NoShortcut
       /\ JobEnds \/ RecoverEnds \/ (\E q \in Uploads : Finish(q)) => MovesUp]_vars

\* upload_permit's queue is first come, first served (try_acquire takes a permit only when
\* nobody waits for it): what WaitersServed needs of the gate besides that jobs end.
THEOREM ServedInOrder == Spec => FirstComeFirst
<1>1. ASSUME IInv, Next PROVE NoStepBack /\ NoShortcut
  <2>1. Shape /\ QueueWellFormed
    BY <1>1, CoreIsIInv DEF Core
  <2>2. /\ permits > 0 => queue = <<>>
        /\ permits \in Nat /\ pc \in [Tasks -> Steps]
    BY <2>1 DEF QueueWellFormed, Shape
  <2>3. ASSUME NEW q \in Tasks, NEW step, Acquire(q, step) PROVE NoStepBack /\ NoShortcut
    BY <2>1, <2>2, <2>3, LineStands DEF Acquire
  <2>4. ASSUME Release PROVE NoStepBack /\ NoShortcut
    BY <2>1, <2>4, LineMovesUp DEF Release
  <2>5. ASSUME NEW q \in Tasks, Wake(q) PROVE NoStepBack /\ NoShortcut
    BY <2>1, <2>2, <2>5, LineStands DEF Wake
  <2>6. ASSUME NEW q \in Uploads, Arrive(q) \/ Count(q) \/ Refuse(q) \/ Uncount(q) \/ Spawn(q)
                                   \/ Reply(q)
        PROVE  NoStepBack /\ NoShortcut
    BY <2>1, <2>2, <2>6, LineStands DEF Arrive, Count, Refuse, Uncount, Spawn, Reply, gate
  <2>7. ASSUME NEW q \in Uploads, TimeOut(q) \/ Cancel(q) PROVE NoStepBack /\ NoShortcut
    <3>1. q \in Tasks /\ Abandon(q) /\ pc'[q] # "wait"
      BY <2>2, <2>7 DEF TimeOut, Cancel, Goto, Tasks
    <3> QED
      BY <2>1, <3>1, LineLeft
  <2>8. ASSUME NEW q \in Uploads, Step(q) PROVE NoStepBack /\ NoShortcut
    <3>1. q \in Tasks
      BY DEF Tasks
    <3> QED
      BY <2>3, <2>4, <2>5, <2>6, <2>8, <3>1 DEF Step, Enqueue, Finish
  <2>9. CASE RecoverStep
    <3>1. Recovery \in Tasks
      BY DEF Tasks
    <3>2. RecoverRead \/ RecoverSkip => NoStepBack /\ NoShortcut
      BY <2>1, <2>2, LineStands DEF RecoverRead, RecoverSkip, gate
    <3> QED
      BY <2>3, <2>4, <2>5, <2>9, <3>1, <3>2 DEF RecoverStep, RecoverAcquire, RecoverEnds
  <2> QED
    BY <1>1, <2>4, <2>6, <2>7, <2>8, <2>9 DEF Next, JobEnds
<1>2. ASSUME IInv, JobEnds \/ RecoverEnds \/ (\E q \in Uploads : Finish(q)) PROVE MovesUp
  <2>1. Shape /\ QueueWellFormed /\ Release
    BY <1>2, CoreIsIInv DEF Core, JobEnds, RecoverEnds, Finish
  <2> QED
    BY <2>1, LineMovesUp DEF Release
<1>3. IInv /\ [Next]_vars =>
        [/\ NoStepBack /\ NoShortcut
         /\ JobEnds \/ RecoverEnds \/ (\E q \in Uploads : Finish(q)) => MovesUp]_vars
  BY <1>1, <1>2
<1> QED
  BY <1>3, GateInvariant, PTL DEF Spec, FirstComeFirst
============================================================================
